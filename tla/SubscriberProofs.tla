-------------------------- MODULE SubscriberProofs --------------------------
(***************************************************************************)
(* Proofs about Subscriber, for every number of topics, sizes, lines and   *)
(* packets: the types, that what the user was told is what the server      *)
(* serves, and that packets are printed as they are.                       *)
(***************************************************************************)
EXTENDS Subscriber, SequenceTheorems, TLAPS

Slot == [topic : Topic \cup {Junk}, newline : BOOLEAN]

\* What has been typed: a line of the habits of this run.
Typed ==
    /\ line.type = "subscribe" =>
          /\ line.topic \in Topic /\ ~line.newline
          /\ "again" \in habits \/ line.topic \notin told
    /\ line.type = "unsubscribe" =>
          line.topic \in Topic /\ (line.newline => "newline" \in habits)
    /\ line.type \in {"unknown", "eof"} => line.type \in habits

SubBase == TypeOK /\ Typed

LEMMA LineFacts ==
    ASSUME NEW l \in Line \cup {NoLine}
    PROVE  /\ l.type \in {"subscribe", "unsubscribe"} => l \in Action
           /\ l.type \in {"subscribe", "unsubscribe", "exit", "unknown", "eof", "none"}
           /\ l # NoLine => l.type # "none"
  BY DEF Line, NoLine, Action

LEMMA Bounds ==
    ASSUME SubscriberAssumption
    PROVE  /\ Junk \notin Topic /\ HDR \in Nat \ {0} /\ TCP_SIZE \in Nat
           /\ \A d \in Dims : d \in 1..TCP_SIZE /\ d \in Nat
           /\ MaxLines \in Nat /\ MaxActions \in Nat /\ MaxPackets \in Nat
  <1>1. Dims \subseteq 1..TCP_SIZE /\ TCP_SIZE \in Nat
    BY DEF SubscriberAssumption
  <1>2. \A d \in Dims : d \in 1..TCP_SIZE /\ d \in Nat
    BY <1>1
  <1> QED BY <1>2 DEF SubscriberAssumption

\* What recv() returns and what it leaves.
LEMMA TakeFacts ==
    ASSUME sock \in Seq(Byte), NEW n \in Nat
    PROVE  /\ took(n) \in 0..Len(sock) /\ took(n) <= n
           /\ chunk(n) \in Seq(Byte) /\ Len(chunk(n)) = took(n)
           /\ \A i \in 1..took(n) : chunk(n)[i] = sock[i]
           /\ SubSeq(sock, took(n) + 1, Len(sock)) \in Seq(Byte)
           /\ Len(SubSeq(sock, took(n) + 1, Len(sock))) = Len(sock) - took(n)
           /\ \A i \in 1..(Len(sock) - took(n)) :
                 SubSeq(sock, took(n) + 1, Len(sock))[i] = sock[took(n) + i]
  <1>1. Len(sock) \in Nat /\ \A i \in 1..Len(sock) : sock[i] \in Byte
    OBVIOUS
  <1>2. took(n) \in 0..Len(sock) /\ took(n) <= n
    BY <1>1 DEF took
  <1> DEFINE m == took(n)
  <1>3. m \in 0..Len(sock)
    BY <1>2
  <1> HIDE DEF m
  <1>4. /\ SubSeq(sock, 1, m) \in Seq(Byte) /\ Len(SubSeq(sock, 1, m)) = m
        /\ \A i \in 1..m : SubSeq(sock, 1, m)[i] = sock[i]
    <2>1. \A i \in 1..m : sock[i] \in Byte
      BY <1>1, <1>3
    <2>2. 1 \in Int /\ m \in Int
      BY <1>1, <1>3
    <2>3. /\ SubSeq(sock, 1, m) \in Seq(Byte)
          /\ Len(SubSeq(sock, 1, m)) = IF 1 <= m THEN m - 1 + 1 ELSE 0
          /\ \A i \in 1..(m - 1 + 1) : SubSeq(sock, 1, m)[i] = sock[1 + i - 1]
      BY <2>1, <2>2, SubSeqProperties
    <2> QED BY <1>1, <1>3, <2>3
  <1>5. LET r == SubSeq(sock, m + 1, Len(sock))
        IN  /\ r \in Seq(Byte) /\ Len(r) = Len(sock) - m
            /\ \A i \in 1..(Len(sock) - m) : r[i] = sock[m + i]
    <2>1. \A i \in (m + 1)..Len(sock) : sock[i] \in Byte
      BY <1>1, <1>3
    <2>2. m + 1 \in Int /\ Len(sock) \in Int
      BY <1>1, <1>3
    <2>3. LET r == SubSeq(sock, m + 1, Len(sock))
          IN  /\ r \in Seq(Byte)
              /\ Len(r) = IF m + 1 <= Len(sock) THEN Len(sock) - (m + 1) + 1 ELSE 0
              /\ \A i \in 1..(Len(sock) - (m + 1) + 1) : r[i] = sock[m + 1 + i - 1]
      BY <2>1, <2>2, SubSeqProperties
    <2> QED BY <1>1, <1>3, <2>3
  <1> QED BY <1>2, <1>4, <1>5 DEF m, chunk

LEMMA OverFacts ==
    ASSUME NEW c \in Seq(Byte), NEW b \in Seq(Byte)
    PROVE  over(c, b) \in Seq(Byte) /\ (b = <<>> => over(c, b) = c)
  <1> DEFINE m == IF Len(c) > Len(b) THEN Len(c) ELSE Len(b)
  <1>1. m \in Nat /\ Len(c) \in Nat /\ Len(b) \in Nat
    OBVIOUS
  <1>2. over(c, b) = [k \in 1..m |-> IF k <= Len(c) THEN c[k] ELSE b[k]]
    BY DEF over
  <1>3. \A k \in 1..m : (IF k <= Len(c) THEN c[k] ELSE b[k]) \in Byte
    BY <1>1
  <1>4. ASSUME b = <<>> PROVE over(c, b) = c
    <2>1. Len(b) = 0
      BY <1>4
    <2>2. m = Len(c)
      BY <1>1, <2>1
    <2> QED BY <1>1, <1>2, <2>2
  <1> HIDE DEF m
  <1> QED BY SMTT(20), <1>1, <1>2, <1>3, <1>4

LEMMA FrameFacts ==
    ASSUME SubscriberAssumption, NEW n \in 1..MaxPackets, NEW j \in Nat, NEW h \in Nat
    PROVE  [k \in 1..j |-> [n |-> n, k |-> h + k]] \in Seq(Byte)
           /\ frame(n, j) \in Seq(Byte)
  <1>1. \A k \in 1..j : h + k \in Nat \ {0} /\ k \in Nat \ {0}
    OBVIOUS
  <1> QED BY <1>1 DEF Byte, frame

LEMMA SubInit ==
    ASSUME SubscriberAssumption, Init
    PROVE  SubBase
  <1>1. /\ line \in Line \cup {NoLine} /\ typed \in 0..MaxLines
        /\ told \subseteq Topic /\ action \in Action /\ acts \in 0..MaxActions
        /\ up \in Seq(Action) /\ slots \in Seq(Slot) /\ size \in Seq(Dims)
        /\ Len(size) <= MaxPackets
    BY Bounds DEF Init, Action, Slot
  <1>2. /\ pending \in Seq(Seq(Byte)) /\ sock \in Seq(Byte) /\ closed \in BOOLEAN
        /\ pc \in {"select", "packet"} /\ dim \in 0..(TCP_SIZE + 1) /\ received \in Nat
        /\ tcp_buff \in Seq(Byte) /\ printed \in Seq(Seq(Byte))
        /\ status \in {"run", "exit", "undefined"} /\ habits \in Habits
    <2>1. pending = <<>> /\ sock = <<>> /\ tcp_buff = <<>> /\ printed = <<>>
      BY DEF Init
    <2>2. /\ closed \in BOOLEAN /\ pc \in {"select", "packet"} /\ received \in Nat
          /\ status \in {"run", "exit", "undefined"} /\ habits \in Habits /\ dim = 0
      BY DEF Init
    <2>3. 0 \in 0..(TCP_SIZE + 1)
      BY Bounds
    <2> QED BY <2>1, <2>2, <2>3
  <1>3. Typed
    BY DEF Init, Typed, NoLine
  <1> QED BY <1>1, <1>2, <1>3 DEF SubBase, TypeOK, Slot

\* The parts of the types: the terminal, the network and the reader.
TerminalOK ==
    /\ line \in Line \cup {NoLine} /\ typed \in 0..MaxLines
    /\ told \subseteq Topic /\ action \in Action /\ acts \in 0..MaxActions
    /\ up \in Seq(Action) /\ slots \in Seq(Slot)
NetworkOK ==
    /\ size \in Seq(Dims) /\ Len(size) <= MaxPackets
    /\ pending \in Seq(Seq(Byte)) /\ sock \in Seq(Byte) /\ closed \in BOOLEAN
ReaderOK ==
    /\ pc \in {"select", "packet"} /\ dim \in 0..(TCP_SIZE + 1) /\ received \in Nat
    /\ tcp_buff \in Seq(Byte) /\ printed \in Seq(Seq(Byte))
    /\ status \in {"run", "exit", "undefined"} /\ habits \in Habits

LEMMA TypeParts == TypeOK <=> TerminalOK /\ NetworkOK /\ ReaderOK
  BY DEF TypeOK, TerminalOK, NetworkOK, ReaderOK, Slot

LEMMA TypePartsNext == TypeOK' <=> TerminalOK' /\ NetworkOK' /\ ReaderOK'
  BY DEF TypeOK, TerminalOK, NetworkOK, ReaderOK, Slot

LEMMA TerminalTyped ==
    ASSUME SubscriberAssumption, SubBase, ReadLine
    PROVE  SubBase'
  <1>1. TerminalOK /\ NetworkOK /\ ReaderOK /\ Typed
    BY TypeParts DEF SubBase
  <1>2. /\ typed' = typed /\ slots' = slots /\ size' = size /\ pending' = pending
        /\ closed' = closed /\ sock' = sock /\ pc' = pc /\ dim' = dim /\ received' = received
        /\ tcp_buff' = tcp_buff /\ printed' = printed /\ habits' = habits
    BY DEF ReadLine, network, reader
  <1>3. line' \in {line, NoLine} /\ (line' = NoLine \/ line.type = "eof")
    BY DEF ReadLine
  <1>4. status' \in {status, "exit"}
    BY DEF ReadLine
  <1>5. action' \in Action /\ told' \subseteq Topic
    <2>1. CASE line.type \in {"subscribe", "unsubscribe"}
      BY <1>1, <2>1, LineFacts DEF ReadLine, TerminalOK, Typed
    <2>2. CASE ~(line.type \in {"subscribe", "unsubscribe"})
      BY <1>1, <2>2 DEF ReadLine, TerminalOK
    <2> QED BY <2>1, <2>2
  <1>6. \/ acts' = acts /\ up' = up
        \/ acts < MaxActions /\ acts' = acts + 1 /\ up' = Append(up, action')
    BY DEF ReadLine, sends
  <1>7. acts' \in 0..MaxActions /\ up' \in Seq(Action)
    <2>1. acts \in 0..MaxActions /\ up \in Seq(Action) /\ MaxActions \in Nat
      BY <1>1, Bounds DEF TerminalOK
    <2>2. Append(up, action') \in Seq(Action)
      BY <1>5, <2>1, AppendProperties
    <2> QED BY <1>6, <2>1, <2>2
  <1>8. TerminalOK'
    BY <1>1, <1>2, <1>3, <1>5, <1>7 DEF TerminalOK
  <1>9. NetworkOK' /\ ReaderOK'
    BY <1>1, <1>2, <1>4 DEF NetworkOK, ReaderOK
  <1>10. Typed'
    <2>1. CASE line' = NoLine
      BY <2>1 DEF Typed, NoLine
    <2>2. CASE line.type = "eof" /\ line' = line
      BY <1>1, <1>2, <2>2 DEF Typed
    <2> QED BY <1>3, <2>1, <2>2
  <1> QED BY <1>8, <1>9, <1>10, TypePartsNext DEF SubBase

LEMMA SameTerminal ==
    ASSUME TerminalOK, Typed, terminal' = terminal, up' = up, slots' = slots, habits' = habits
    PROVE  TerminalOK' /\ Typed'
  BY DEF TerminalOK, Typed, terminal

LEMMA ReaderTyped ==
    ASSUME SubscriberAssumption, SubBase, RecvSize \/ RecvPacket \/ RecvNothing
    PROVE  SubBase'
  <1>1. TerminalOK /\ NetworkOK /\ ReaderOK /\ Typed
    BY TypeParts DEF SubBase
  <1>2. terminal' = terminal /\ up' = up /\ slots' = slots /\ habits' = habits
        /\ size' = size /\ pending' = pending /\ closed' = closed
    BY DEF RecvSize, RecvPacket, RecvNothing, network
  <1>3. TerminalOK' /\ Typed'
    BY <1>1, <1>2, SameTerminal
  <1>4. sock \in Seq(Byte) /\ HDR \in Nat /\ dim \in Nat /\ TCP_SIZE \in Nat
    BY <1>1, Bounds DEF NetworkOK, ReaderOK
  <1>5. sock' \in Seq(Byte)
    <2>1. (recv(HDR) \/ recv(dim)) \/ sock' = sock
      BY DEF RecvSize, RecvPacket, RecvNothing
    <2> QED BY <1>4, <2>1, TakeFacts DEF recv
  <1>6. NetworkOK'
    BY <1>1, <1>2, <1>5 DEF NetworkOK
  <1>7. ASSUME NEW b \in Seq(Byte), print(b)
        PROVE  printed' \in Seq(Seq(Byte)) /\ pc' \in {"select", "packet"}
    BY <1>1, <1>7 DEF print, ReaderOK
  <1>8. CASE RecvSize
    <2>1. atoi(chunk(HDR)) \subseteq 0..(TCP_SIZE + 1)
      <3>1. \A n \in DOMAIN size : size[n] \in 0..(TCP_SIZE + 1)
        <4>1. \A n \in DOMAIN size : size[n] \in Dims
          BY <1>1, ElementOfSeq DEF NetworkOK
        <4>2. \A d \in Dims : d \in 0..(TCP_SIZE + 1)
          BY <1>4, Bounds
        <4> QED BY <4>1, <4>2
      <3> QED BY <3>1 DEF atoi
    <2>2. dim' \in 0..(TCP_SIZE + 1) /\ received' = 0 /\ tcp_buff' = <<>> /\ status' = status
      BY <1>8, <2>1 DEF RecvSize, cleared
    <2>3. printed' \in Seq(Seq(Byte)) /\ pc' \in {"select", "packet"}
      <3>1. <<>> \in Seq(Byte)
        OBVIOUS
      <3>2. (pc' = "packet" /\ printed' = printed) \/ print(<<>>)
        BY <1>8 DEF RecvSize
      <3> QED BY <1>1, <1>7, <3>1, <3>2 DEF ReaderOK
    <2> QED BY <1>1, <1>2, <1>3, <1>6, <2>2, <2>3, TypePartsNext DEF ReaderOK, SubBase
  <1>9. CASE RecvPacket
    <2>1. tcp_buff' \in Seq(Byte) /\ received' \in Nat
      <3>1. took(dim) \in Nat /\ chunk(dim) \in Seq(Byte)
        <4>1. took(dim) \in 0..Len(sock) /\ chunk(dim) \in Seq(Byte)
          BY <1>4, TakeFacts
        <4>2. Len(sock) \in Nat
          BY <1>4
        <4> QED BY <4>1, <4>2
      <3>2. tcp_buff \in Seq(Byte) /\ received \in Nat
        BY <1>1 DEF ReaderOK
      <3>3. over(chunk(dim), tcp_buff) \in Seq(Byte)
        BY <3>1, <3>2, OverFacts
      <3>4. received' = received + took(dim) /\ tcp_buff' = over(chunk(dim), tcp_buff)
        BY <1>9 DEF RecvPacket
      <3> QED BY <3>1, <3>2, <3>3, <3>4
    <2>2. printed' \in Seq(Seq(Byte)) /\ pc' \in {"select", "packet"}
      BY <1>1, <1>7, <1>9, <2>1 DEF RecvPacket, ReaderOK
    <2>3. status' \in {"run", "undefined"} /\ dim' = dim
      BY <1>9 DEF RecvPacket
    <2> QED BY <1>1, <1>2, <1>3, <1>6, <2>1, <2>2, <2>3, TypePartsNext DEF ReaderOK, SubBase
  <1>10. CASE RecvNothing
    <2>1. /\ dim' = dim /\ received' = received /\ tcp_buff' = tcp_buff
          /\ status' \in {status, "exit"}
          /\ (pc' = pc /\ printed' = printed) \/ print(tcp_buff)
      BY <1>10 DEF RecvNothing
    <2>2. printed' \in Seq(Seq(Byte)) /\ pc' \in {"select", "packet"}
      BY <1>1, <1>7, <2>1 DEF ReaderOK
    <2> QED BY <1>1, <1>2, <1>3, <1>6, <2>1, <2>2, TypePartsNext DEF ReaderOK, SubBase
  <1> QED BY <1>8, <1>9, <1>10

LEMMA SlotsTyped ==
    ASSUME TerminalOK, HandleAction
    PROVE  /\ up # <<>> /\ Head(up) \in Action /\ Len(up) \in Nat \ {0}
           /\ up' = Tail(up) /\ up' \in Seq(Action) /\ slots' \in Seq(Slot)
           /\ Len(up') = Len(up) - 1 /\ Head(up) = up[1]
           /\ \A j \in 1..(Len(up) - 1) : up'[j] = up[j + 1]
  <1>1. up \in Seq(Action) /\ up # <<>> /\ up' = Tail(up) /\ slots \in Seq(Slot)
    BY DEF TerminalOK, HandleAction
  <1>2. /\ Head(up) \in Action /\ Len(up) \in Nat \ {0} /\ Tail(up) \in Seq(Action)
        /\ Len(Tail(up)) = Len(up) - 1 /\ Head(up) = up[1]
        /\ \A j \in 1..(Len(up) - 1) : Tail(up)[j] = up[j + 1]
    BY <1>1, EmptySeq
  <1>3. slots' \in Seq(Slot)
    <2>1. CASE Head(up).type = "unsubscribe"
      <3>1. slots' = [k \in DOMAIN slots |->
                        IF IsBlanked(k, Head(up)) THEN Blank ELSE slots[k]]
        BY <2>1 DEF HandleAction
      <3>2. Blank \in Slot
        BY DEF Blank, Slot
      <3>3. DOMAIN slots = 1..Len(slots) /\ Len(slots) \in Nat
            /\ \A k \in 1..Len(slots) : slots[k] \in Slot
        BY <1>1
      <3>4. slots' \in [1..Len(slots) -> Slot]
        BY <3>1, <3>2, <3>3
      <3> QED BY <3>3, <3>4
    <2>2. CASE Head(up).type # "unsubscribe"
      <3>1. [topic |-> Head(up).topic, newline |-> Head(up).newline] \in Slot
        BY <1>2 DEF Action, Slot
      <3>2. slots' = Append(slots, [topic |-> Head(up).topic, newline |-> Head(up).newline])
        BY <2>2 DEF HandleAction, added
      <3> QED BY <1>1, <3>1, <3>2, AppendProperties
    <2> QED BY <2>1, <2>2
  <1> QED BY <1>1, <1>2, <1>3

LEMMA NetworkTyped ==
    ASSUME SubscriberAssumption, SubBase, HandleAction \/ SendTcp \/ Close \/ Arrive
    PROVE  SubBase'
  <1>1. TerminalOK /\ NetworkOK /\ ReaderOK /\ Typed
    BY TypeParts DEF SubBase
  <1>2. terminal' = terminal /\ habits' = habits /\ reader' = reader /\ status' = status
    BY DEF HandleAction, SendTcp, Close, Arrive
  <1>3. ReaderOK'
    BY <1>1, <1>2 DEF ReaderOK, reader
  <1>4. CASE HandleAction
    <2>1. TerminalOK' /\ Typed'
      BY <1>1, <1>2, <1>4, SlotsTyped DEF TerminalOK, Typed, terminal
    <2>2. NetworkOK'
      BY <1>1, <1>4 DEF HandleAction, network, NetworkOK
    <2> QED BY <1>3, <2>1, <2>2, TypePartsNext DEF SubBase
  <1>5. CASE SendTcp \/ Close \/ Arrive
    <2>1. TerminalOK' /\ Typed'
      BY <1>1, <1>2, <1>5, SameTerminal DEF SendTcp, Close, Arrive
    <2>2. NetworkOK'
      <3>1. CASE SendTcp
        <4>1. PICK d \in Dims :
                 /\ size' = Append(size, d)
                 /\ pending' = pending \o
                      <<frame(Len(size) + 1, HDR),
                        [k \in 1..d |-> [n |-> Len(size) + 1, k |-> HDR + k]]>>
          BY <3>1 DEF SendTcp
        <4>2. Len(size) + 1 \in 1..MaxPackets /\ Len(size) \in Nat /\ HDR \in Nat /\ d \in Nat
          BY <1>1, <3>1, Bounds DEF SendTcp, NetworkOK
        <4> DEFINE one == frame(Len(size) + 1, HDR)
                   two == [k \in 1..d |-> [n |-> Len(size) + 1, k |-> HDR + k]]
        <4>3. one \in Seq(Byte) /\ two \in Seq(Byte)
          BY <4>2, FrameFacts
        <4>4. size \in Seq(Dims) /\ pending \in Seq(Seq(Byte)) /\ pending' = pending \o <<one, two>>
          BY <1>1, <4>1 DEF NetworkOK
        <4> HIDE DEF one, two
        <4>5. pending' \in Seq(Seq(Byte))
          BY <4>3, <4>4
        <4>6. size' \in Seq(Dims) /\ Len(size') <= MaxPackets
          BY <4>1, <4>2, <4>4
        <4>7. sock' = sock /\ closed' = closed
          BY <3>1 DEF SendTcp
        <4> QED BY <1>1, <4>5, <4>6, <4>7 DEF NetworkOK
      <3>2. CASE Close
        BY <1>1, <3>2 DEF Close, NetworkOK
      <3>3. CASE Arrive
        <4>1. PICK n \in 1..Len(Head(pending)) :
                 /\ sock' = sock \o SubSeq(Head(pending), 1, n)
                 /\ pending' = IF n = Len(Head(pending)) THEN Tail(pending)
                               ELSE <<SubSeq(Head(pending), n + 1, Len(Head(pending)))>>
                                      \o Tail(pending)
          BY <3>3 DEF Arrive
        <4>2. pending \in Seq(Seq(Byte)) /\ pending # <<>> /\ sock \in Seq(Byte)
          BY <1>1, <3>3 DEF Arrive, NetworkOK
        <4>3. PICK h \in Seq(Byte) : h = Head(pending)
          BY <4>2
        <4>4. PICK t \in Seq(Seq(Byte)) : t = Tail(pending)
          BY <4>2, HeadTailProperties
        <4>5. SubSeq(h, 1, n) \in Seq(Byte) /\ SubSeq(h, n + 1, Len(h)) \in Seq(Byte)
          BY <4>3
        <4>6. sock' \in Seq(Byte) /\ pending' \in Seq(Seq(Byte))
          BY <4>1, <4>2, <4>3, <4>4, <4>5
        <4>7. size' = size /\ closed' = closed
          BY <3>3 DEF Arrive
        <4> QED BY <1>1, <4>6, <4>7 DEF NetworkOK
      <3> QED BY <1>5, <3>1, <3>2, <3>3
    <2> QED BY <1>3, <2>1, <2>2, TypePartsNext DEF SubBase
  <1> QED BY <1>4, <1>5

LEMMA TypingTyped ==
    ASSUME SubscriberAssumption, SubBase, Type
    PROVE  SubBase'
  <1>1. TerminalOK /\ NetworkOK /\ ReaderOK /\ Typed
    BY TypeParts DEF SubBase
  <1>2. /\ told' = told /\ action' = action /\ acts' = acts /\ up' = up /\ slots' = slots
        /\ network' = network /\ sock' = sock /\ reader' = reader /\ status' = status
        /\ habits' = habits
    BY DEF Type
  <1>3. Typed'
    BY <1>2 DEF Type, Typed
  <1>4. TerminalOK'
    BY <1>1, <1>2, Bounds DEF Type, TerminalOK
  <1>5. NetworkOK' /\ ReaderOK'
    BY <1>1, <1>2 DEF NetworkOK, ReaderOK, network, reader
  <1> QED BY <1>3, <1>4, <1>5, TypePartsNext DEF SubBase

LEMMA SubStutters ==
    ASSUME SubBase, UNCHANGED vars
    PROVE  SubBase'
  BY DEF SubBase, TypeOK, Typed, vars, terminal, network, reader

LEMMA SubNext ==
    ASSUME SubscriberAssumption, SubBase, [Next]_vars
    PROVE  SubBase'
  <1>1. CASE ReadLine
    BY <1>1, TerminalTyped
  <1>2. CASE RecvSize \/ RecvPacket \/ RecvNothing
    BY <1>2, ReaderTyped
  <1>3. CASE HandleAction \/ SendTcp \/ Close \/ Arrive
    BY <1>3, NetworkTyped
  <1>4. CASE Type
    BY <1>4, TypingTyped
  <1>5. CASE UNCHANGED vars
    BY <1>5, SubStutters
  <1> QED BY <1>1, <1>2, <1>3, <1>4, <1>5 DEF Next, Subscriber

\* The variables have their types, and what is typed is as the user types.
THEOREM SubscriberTypes == Spec => []TypeOK
  <1> USE SubscriberAssumption
  <1>1. Init => SubBase
    BY SubInit
  <1>2. SubBase /\ [Next]_vars => SubBase'
    BY SubNext
  <1>3. SubBase => TypeOK
    BY DEF SubBase
  <1> QED BY <1>1, <1>2, <1>3, PTL DEF Spec

-----------------------------------------------------------------------------
(* What the user has been told and what the server serves.                   *)

\* The k-th action on its way subscribes to t; at place 0 the server has a slot.
Sub(t, k) == IF k = 0 THEN t \in Served
             ELSE up[k].type = "subscribe" /\ up[k].topic = t /\ ~up[k].newline
Unsub(t, k) == up[k].type = "unsubscribe" /\ up[k].topic = t /\ ~up[k].newline

\* Every topic that the user has been told about has been subscribed to, and
\* nothing on its way takes it back.
Kept(t) == \E j \in 0..Len(up) : Sub(t, j) /\ \A i \in (j + 1)..Len(up) : ~Unsub(t, i)
ToldKept == /\ \A t \in told : Kept(t)
            /\ action.type = "unsubscribe" => action.topic \notin told

\* With commands alone, in order: no topic is subscribed to twice without an
\* unsubscribe between, and one that the user has left is unsubscribed at last.
Orderly == habits \subseteq {"split", "close"}
OneBetween(t) == \A j, k \in 0..Len(up) :
                    j < k /\ Sub(t, j) /\ Sub(t, k) => \E i \in (j + 1)..(k - 1) : Unsub(t, i)
LeftBehind(t) == \A j \in 0..Len(up) : Sub(t, j) => \E i \in (j + 1)..Len(up) : Unsub(t, i)
OneSlot(t) == \A j, k \in DOMAIN slots :
                 slots[j].topic = t /\ slots[k].topic = t
                 /\ ~slots[j].newline /\ ~slots[k].newline => j = k
Proper == /\ \A k \in DOMAIN up : up[k].topic \in Topic /\ ~up[k].newline
          /\ \A k \in DOMAIN slots : slots[k].topic \in Topic \/ slots[k] = Blank
          /\ \A t \in Topic : OneBetween(t) /\ OneSlot(t) /\ (t \notin told => LeftBehind(t))

ServedInv == SubBase /\ ToldKept /\ (Orderly => Proper)

LEMMA ServedMeans ==
    ASSUME NEW t
    PROVE  t \in Served <=> \E k \in DOMAIN slots : slots[k].topic = t /\ ~slots[k].newline
  BY DEF Served

LEMMA ServedMeansNext ==
    ASSUME NEW t
    PROVE  t \in Served' <=> \E k \in DOMAIN slots' : slots'[k].topic = t /\ ~slots'[k].newline
  BY DEF Served

LEMMA KeptIsServed ==
    ASSUME ServedInv
    PROVE  ToldIsServed
  <1>1. SUFFICES ASSUME up = <<>>
                 PROVE  /\ told \subseteq Served
                        /\ Orderly => Served = told
    BY DEF ToldIsServed, Orderly
  <1>3. Len(up) = 0 /\ told \subseteq Topic
    BY <1>1 DEF ServedInv, SubBase, TypeOK
  <1>4. ASSUME NEW t \in told PROVE t \in Served
    <2>1. PICK j \in 0..Len(up) : Sub(t, j)
      BY <1>4 DEF ServedInv, ToldKept, Kept
    <2> QED BY <1>3, <2>1 DEF Sub
  <1>5. ASSUME Orderly, NEW t \in Served PROVE t \in told
    <2>1. PICK k \in DOMAIN slots : slots[k].topic = t /\ ~slots[k].newline
      BY <1>5, ServedMeans
    <2>2. t \in Topic
      BY <1>5, <2>1 DEF ServedInv, Proper, Blank
    <2>3. ~LeftBehind(t)
      <3>1. Sub(t, 0) /\ 0 \in 0..Len(up)
        BY <1>3, <1>5 DEF Sub
      <3>2. ~ \E i \in (0 + 1)..Len(up) : Unsub(t, i)
        BY <1>3
      <3> QED BY <3>1, <3>2 DEF LeftBehind
    <2> QED BY <1>5, <2>2, <2>3 DEF ServedInv, Proper
  <1> QED BY <1>4, <1>5

\* One more action.
LEMMA OneMore ==
    ASSUME TypeOK, NEW a \in Action, up' = Append(up, a), slots' = slots
    PROVE  /\ Len(up) \in Nat /\ Len(up') = Len(up) + 1 /\ up'[Len(up) + 1] = a
           /\ \A t : \A k \in 0..Len(up) : Sub(t, k)' <=> Sub(t, k)
           /\ \A t : \A k \in 1..Len(up) : Unsub(t, k)' <=> Unsub(t, k)
           /\ \A t : \A k \in {Len(up) + 1} : Sub(t, k)' <=>
                        (a.type = "subscribe" /\ a.topic = t /\ ~a.newline)
           /\ \A t : \A k \in {Len(up) + 1} : Unsub(t, k)' <=>
                        (a.type = "unsubscribe" /\ a.topic = t /\ ~a.newline)
           /\ DOMAIN up' = 1..(Len(up) + 1) /\ DOMAIN up = 1..Len(up)
           /\ \A k \in 1..Len(up) : up'[k] = up[k]
  <1>1. up \in Seq(Action)
    BY DEF TypeOK
  <1>2. /\ Len(up) \in Nat /\ Len(up') = Len(up) + 1 /\ up'[Len(up) + 1] = a
        /\ \A k \in 1..Len(up) : up'[k] = up[k]
        /\ DOMAIN up' = 1..(Len(up) + 1) /\ DOMAIN up = 1..Len(up)
    BY <1>1, AppendProperties, LenProperties
  <1>3. Served' = Served
    BY DEF Served
  <1>4. \A t : \A k \in 0..Len(up) : Sub(t, k)' <=> Sub(t, k)
    BY <1>2, <1>3 DEF Sub
  <1>5. \A t : \A k \in 1..Len(up) : Unsub(t, k)' <=> Unsub(t, k)
    BY <1>2 DEF Unsub
  <1>6. ASSUME NEW t, NEW k \in {Len(up) + 1}
        PROVE  /\ Sub(t, k)' <=> (a.type = "subscribe" /\ a.topic = t /\ ~a.newline)
               /\ Unsub(t, k)' <=> (a.type = "unsubscribe" /\ a.topic = t /\ ~a.newline)
    <2>1. k # 0 /\ up'[k] = a
      BY <1>2
    <2> QED BY <2>1 DEF Sub, Unsub
  <1> QED BY <1>2, <1>4, <1>5, <1>6

LEMMA KeptByMore ==
    ASSUME TypeOK, NEW a \in Action, up' = Append(up, a), slots' = slots,
           NEW t, \/ Kept(t) /\ ~(a.type = "unsubscribe" /\ a.topic = t)
                  \/ a.type = "subscribe" /\ a.topic = t /\ ~a.newline
    PROVE  Kept(t)'
  <1>1. CASE Kept(t) /\ ~(a.type = "unsubscribe" /\ a.topic = t)
    <2>1. PICK j \in 0..Len(up) : Sub(t, j) /\ \A i \in (j + 1)..Len(up) : ~Unsub(t, i)
      BY <1>1 DEF Kept
    <2>2. Sub(t, j)' /\ j \in 0..Len(up')
      BY <2>1, OneMore
    <2>3. ASSUME NEW i \in (j + 1)..Len(up') PROVE ~Unsub(t, i)'
      <3>1. i \in 1..(Len(up) + 1)
        BY OneMore
      <3>2. CASE i = Len(up) + 1
        BY <1>1, <3>2, OneMore
      <3>3. CASE i # Len(up) + 1
        <4>1. i \in (j + 1)..Len(up) /\ i \in 1..Len(up)
          BY <3>1, <3>3, OneMore
        <4> QED BY <2>1, <4>1, OneMore
      <3> QED BY <3>2, <3>3
    <2> QED BY <2>2, <2>3 DEF Kept
  <1>2. CASE a.type = "subscribe" /\ a.topic = t /\ ~a.newline
    <2>1. PICK n \in Nat : n = Len(up) + 1
      BY OneMore
    <2>2. Sub(t, n)' /\ n \in 0..Len(up')
      BY <1>2, <2>1, OneMore
    <2>3. ~ \E i \in (n + 1)..Len(up') : TRUE
      BY <2>1, OneMore
    <2> QED BY <2>2, <2>3 DEF Kept
  <1> QED BY <1>1, <1>2

LEMMA ProperByMore ==
    ASSUME TypeOK, Proper, NEW a \in Action, up' = Append(up, a), slots' = slots,
           a.topic \in Topic, ~a.newline,
           \/ a.type = "subscribe" /\ a.topic \notin told /\ told' = told \cup {a.topic}
           \/ a.type = "unsubscribe" /\ told' = told \ {a.topic}
    PROVE  Proper'
  <1>1. PICK n \in Nat : n = Len(up)
    BY OneMore
  <1>2. /\ Len(up') = n + 1 /\ DOMAIN up' = 1..(n + 1) /\ DOMAIN up = 1..n /\ up'[n + 1] = a
        /\ \A k \in 1..n : up'[k] = up[k]
        /\ \A t : \A k \in 0..n : Sub(t, k)' <=> Sub(t, k)
        /\ \A t : \A k \in 1..n : Unsub(t, k)' <=> Unsub(t, k)
    BY <1>1, OneMore
  <1>3. \A t : /\ Sub(t, n + 1)' <=> (a.type = "subscribe" /\ a.topic = t)
               /\ Unsub(t, n + 1)' <=> (a.type = "unsubscribe" /\ a.topic = t)
    <2>1. PICK m \in {Len(up) + 1} : m = n + 1
      BY <1>1
    <2> QED BY <2>1, OneMore
  <1>4. \A k \in DOMAIN up' : up'[k].topic \in Topic /\ ~up'[k].newline
    <2>1. \A k \in 1..n : up[k].topic \in Topic /\ ~up[k].newline
      BY <1>2 DEF Proper
    <2> QED BY <1>2, <2>1
  <1>5. ASSUME NEW t \in Topic PROVE OneBetween(t)'
    <2>1. SUFFICES ASSUME NEW j \in 0..(n + 1), NEW k \in 0..(n + 1), j < k, Sub(t, j)', Sub(t, k)'
                   PROVE  \E i \in (j + 1)..(k - 1) : Unsub(t, i)'
      BY <1>2 DEF OneBetween
    <2>2. j \in 0..n
      BY <2>1
    <2>3. Sub(t, j)
      BY <1>2, <2>1, <2>2
    <2>4. CASE k \in 0..n
      <3>1. Sub(t, k)
        BY <1>2, <2>1, <2>4
      <3>2. PICK i \in (j + 1)..(k - 1) : Unsub(t, i)
        BY <1>1, <2>1, <2>2, <2>3, <2>4, <3>1 DEF Proper, OneBetween
      <3>3. i \in 1..n
        BY <2>2, <2>4, <3>2
      <3> QED BY <1>2, <3>2, <3>3
    <2>5. CASE k = n + 1
      <3>1. a.type = "subscribe" /\ a.topic = t
        BY <1>3, <2>1, <2>5
      <3>2. LeftBehind(t)
        BY <3>1 DEF Proper
      <3>3. PICK i \in (j + 1)..n : Unsub(t, i)
        BY <1>1, <2>2, <2>3, <3>2 DEF LeftBehind
      <3>4. i \in 1..n /\ i \in (j + 1)..(k - 1)
        BY <2>2, <2>5, <3>3
      <3> QED BY <1>2, <3>3, <3>4
    <2> QED BY <2>1, <2>4, <2>5
  <1>6. ASSUME NEW t \in Topic, t \notin told' PROVE LeftBehind(t)'
    <2>1. SUFFICES ASSUME NEW j \in 0..(n + 1), Sub(t, j)'
                   PROVE  \E i \in (j + 1)..(n + 1) : Unsub(t, i)'
      BY <1>2 DEF LeftBehind
    <2>2. CASE j = n + 1
      BY <1>3, <1>6, <2>1, <2>2
    <2>3. CASE j # n + 1 /\ a.type = "unsubscribe" /\ a.topic = t
      <3>1. n + 1 \in (j + 1)..(n + 1) /\ Unsub(t, n + 1)'
        BY <1>3, <2>1, <2>3
      <3> QED BY <3>1
    <2>4. CASE j # n + 1 /\ ~(a.type = "unsubscribe" /\ a.topic = t)
      <3>1. t \notin told /\ j \in 0..n
        BY <1>6, <2>1, <2>4
      <3>2. LeftBehind(t) /\ Sub(t, j)
        BY <1>2, <2>1, <3>1 DEF Proper
      <3>3. PICK i \in (j + 1)..n : Unsub(t, i)
        BY <1>1, <3>1, <3>2 DEF LeftBehind
      <3>4. i \in 1..n /\ i \in (j + 1)..(n + 1)
        BY <3>1, <3>3
      <3> QED BY <1>2, <3>3, <3>4
    <2> QED BY <2>2, <2>3, <2>4
  <1>7. \A t \in Topic : OneSlot(t)'
    BY DEF Proper, OneSlot
  <1>8. \A k \in DOMAIN slots' : slots'[k].topic \in Topic \/ slots'[k] = Blank
    BY DEF Proper
  <1> QED BY <1>4, <1>5, <1>6, <1>7, <1>8 DEF Proper, Blank

\* One action handled.
LEMMA OneLess ==
    ASSUME TypeOK, HandleAction
    PROVE  /\ Len(up) \in Nat \ {0} /\ Len(up') = Len(up) - 1
           /\ DOMAIN up = 1..Len(up) /\ DOMAIN up' = 1..(Len(up) - 1)
           /\ \A k \in 1..(Len(up) - 1) : up'[k] = up[k + 1]
           /\ \A t : \A k \in 1..(Len(up) - 1) : /\ Sub(t, k)' <=> Sub(t, k + 1)
                                                 /\ Unsub(t, k)' <=> Unsub(t, k + 1)
           /\ \A t : Sub(t, 1) => t \in Served'
           /\ \A t : Sub(t, 0) /\ ~Unsub(t, 1) => t \in Served'
           /\ \A t : t \in Served' /\ ~Sub(t, 1) => t \in Served
  <1>1. /\ Len(up) \in Nat \ {0} /\ up' = Tail(up) /\ Head(up) = up[1]
        /\ Len(up') = Len(up) - 1 /\ slots \in Seq(Slot) /\ slots' \in Seq(Slot)
        /\ \A k \in 1..(Len(up) - 1) : up'[k] = up[k + 1]
        /\ up \in Seq(Action) /\ up' \in Seq(Action)
    BY SlotsTyped, TypeParts DEF TerminalOK
  <1>2. DOMAIN up = 1..Len(up) /\ DOMAIN up' = 1..(Len(up) - 1)
    BY <1>1, LenProperties
  <1>3. ASSUME NEW t, NEW k \in 1..(Len(up) - 1)
        PROVE  (Sub(t, k)' <=> Sub(t, k + 1)) /\ (Unsub(t, k)' <=> Unsub(t, k + 1))
    <2>1. k # 0 /\ k + 1 # 0 /\ up'[k] = up[k + 1]
      BY <1>1
    <2> QED BY <2>1 DEF Sub, Unsub
  <1> DEFINE n == Len(slots)
  <1>4. n \in Nat /\ DOMAIN slots = 1..n /\ \A k \in 1..n : slots[k] \in Slot
    BY <1>1
  <1>5. CASE up[1].type = "unsubscribe"
    <2>1. slots' = [k \in 1..n |-> IF IsBlanked(k, up[1]) THEN Blank ELSE slots[k]]
      BY <1>1, <1>4, <1>5 DEF HandleAction
    <2>2. ASSUME NEW t, t \in Served, ~Unsub(t, 1) PROVE t \in Served'
      <3>1. PICK k \in DOMAIN slots : slots[k].topic = t /\ ~slots[k].newline
        BY <2>2, ServedMeans
      <3>2. ~IsBlanked(k, up[1])
        BY <1>5, <2>2, <3>1 DEF IsBlanked, named, Unsub
      <3>3. slots'[k] = slots[k] /\ k \in DOMAIN slots'
        BY <1>4, <2>1, <3>1, <3>2
      <3> QED BY <3>1, <3>3, ServedMeansNext
    <2>3. ASSUME NEW t, t \in Served' PROVE t \in Served
      <3>1. PICK k \in DOMAIN slots' : slots'[k].topic = t /\ ~slots'[k].newline
        BY <2>3, ServedMeansNext
      <3>2. slots'[k] # Blank
        BY <3>1 DEF Blank
      <3>3. slots'[k] = slots[k] /\ k \in DOMAIN slots
        BY <1>4, <2>1, <3>1, <3>2
      <3> QED BY <3>1, <3>3, ServedMeans
    <2>4. \A t : ~Sub(t, 1)
      BY <1>5 DEF Sub
    <2>5. \A t : Sub(t, 0) <=> t \in Served
      BY DEF Sub
    <2> HIDE DEF n
    <2> QED BY <1>1, <1>2, <1>3, <2>2, <2>3, <2>4, <2>5
  <1>6. CASE up[1].type # "unsubscribe"
    <2> DEFINE e == [topic |-> up[1].topic, newline |-> up[1].newline]
    <2>1. slots' = Append(slots, e)
      BY <1>1, <1>6 DEF HandleAction, added
    <2>2. e \in Slot
      <3>1. up[1] \in Action
        BY <1>1
      <3> QED BY <3>1 DEF Action, Slot
    <2>3. /\ DOMAIN slots' = 1..(n + 1) /\ slots'[n + 1] = e
          /\ \A k \in 1..n : slots'[k] = slots[k]
      BY <1>1, <1>4, <2>1, <2>2, AppendProperties, LenProperties
    <2>4. ASSUME NEW t, Sub(t, 1) PROVE t \in Served'
      <3>1. e.topic = t /\ ~e.newline
        BY <2>4 DEF Sub
      <3>2. n + 1 \in DOMAIN slots'
        BY <1>4, <2>3
      <3>3. slots'[n + 1].topic = t /\ ~slots'[n + 1].newline
        BY <2>3, <3>1
      <3> HIDE DEF n
      <3> QED BY <3>2, <3>3, ServedMeansNext
    <2>5. ASSUME NEW t, t \in Served PROVE t \in Served'
      <3>1. PICK k \in DOMAIN slots : slots[k].topic = t /\ ~slots[k].newline
        BY <2>5, ServedMeans
      <3>2. slots'[k] = slots[k] /\ k \in DOMAIN slots'
        BY <1>4, <2>3, <3>1
      <3> QED BY <3>1, <3>2, ServedMeansNext
    <2>6. ASSUME NEW t, t \in Served', ~Sub(t, 1) PROVE t \in Served
      <3>1. PICK k \in DOMAIN slots' : slots'[k].topic = t /\ ~slots'[k].newline
        BY <2>6, ServedMeansNext
      <3>2. up[1].type = "subscribe"
        <4>1. up[1] \in Action
          BY <1>1
        <4> QED BY <1>6, <4>1 DEF Action
      <3>3. ~(e.topic = t /\ ~e.newline)
        BY <2>6, <3>2 DEF Sub
      <3>4. k # n + 1
        BY <2>3, <3>1, <3>3
      <3>5. k \in 1..n
        BY <1>4, <2>3, <3>1, <3>4
      <3> QED BY <1>4, <2>3, <3>1, <3>5, ServedMeans
    <2>7. \A t : Sub(t, 0) <=> t \in Served
      BY DEF Sub
    <2> HIDE DEF n
    <2> QED BY <1>1, <1>2, <1>3, <2>4, <2>5, <2>6, <2>7
  <1> QED BY <1>5, <1>6

LEMMA KeptByLess ==
    ASSUME TypeOK, HandleAction, NEW t, Kept(t)
    PROVE  Kept(t)'
  <1>1. PICK n \in Nat : n = Len(up) /\ n # 0 /\ Len(up') = n - 1
    BY OneLess
  <1>2. PICK j \in 0..n : Sub(t, j) /\ \A i \in (j + 1)..n : ~Unsub(t, i)
    BY <1>1 DEF Kept
  <1>3. CASE j \in {0, 1}
    <2>1. t \in Served'
      <3>1. CASE j = 1
        BY <1>2, <3>1, OneLess
      <3>2. CASE j = 0
        <4>1. ~Unsub(t, 1)
          BY <1>1, <1>2, <3>2
        <4> QED BY <1>2, <3>2, <4>1, OneLess
      <3> QED BY <1>3, <3>1, <3>2
    <2>2. Sub(t, 0)' /\ 0 \in 0..(n - 1)
      BY <1>1, <2>1 DEF Sub
    <2>3. ASSUME NEW i \in 1..(n - 1) PROVE ~Unsub(t, i)'
      <3>1. i + 1 \in (j + 1)..n
        BY <1>1, <1>3, <2>3
      <3> QED BY <1>1, <1>2, <3>1, OneLess
    <2> QED BY <1>1, <2>2, <2>3 DEF Kept
  <1>4. CASE ~(j \in {0, 1})
    <2>1. PICK m \in 1..(n - 1) : j = m + 1
      <3>1. j - 1 \in 1..(n - 1) /\ j = (j - 1) + 1
        BY <1>1, <1>2, <1>4
      <3> QED BY <3>1
    <2>2. Sub(t, m)' /\ m \in 0..(n - 1)
      BY <1>1, <1>2, <2>1, OneLess
    <2>3. ASSUME NEW i \in (m + 1)..(n - 1) PROVE ~Unsub(t, i)'
      <3>1. i + 1 \in (j + 1)..n /\ i \in 1..(n - 1)
        BY <1>1, <2>1, <2>3
      <3> QED BY <1>1, <1>2, <3>1, OneLess
    <2> QED BY <1>1, <2>2, <2>3 DEF Kept
  <1> QED BY <1>3, <1>4

\* Where a subscription that remains was before.
LEMMA CameFrom ==
    ASSUME TypeOK, HandleAction, NEW t, OneBetween(t), OneSlot(t),
           NEW j \in 0..(Len(up) - 1), Sub(t, j)'
    PROVE  \E p \in 0..Len(up) :
              /\ Sub(t, p) /\ p <= j + 1 /\ (j > 0 => p = j + 1)
              /\ p = 0 => ~Unsub(t, 1)
  <1>1. PICK n \in Nat : n = Len(up) /\ n # 0
    BY OneLess
  <1>2. CASE j > 0
    <2>1. j \in 1..(n - 1) /\ j + 1 \in 0..n
      BY <1>1, <1>2
    <2>2. Sub(t, j + 1)
      BY <1>1, <2>1, OneLess
    <2> QED BY <1>1, <1>2, <2>1, <2>2
  <1>3. CASE j = 0
    <2>1. t \in Served'
      BY <1>3 DEF Sub
    <2>2. CASE Sub(t, 1)
      BY <1>1, <1>3, <2>2
    <2>3. CASE ~Sub(t, 1)
      <3>1. t \in Served
        BY <2>1, <2>3, OneLess
      <3>2. Sub(t, 0)
        BY <3>1 DEF Sub
      <3>3. ~Unsub(t, 1)
        <4>1. SUFFICES ASSUME Unsub(t, 1) PROVE FALSE
          OBVIOUS
        <4>2. PICK k \in DOMAIN slots' : slots'[k].topic = t /\ ~slots'[k].newline
          BY <2>1, ServedMeansNext
        <4>3. up[1] = Head(up) /\ Head(up).type = "unsubscribe"
          BY <4>1, SlotsTyped, TypeParts DEF Unsub
        <4>4. slots' = [i \in DOMAIN slots |->
                          IF IsBlanked(i, up[1]) THEN Blank ELSE slots[i]]
          BY <4>3 DEF HandleAction
        <4>5. k \in DOMAIN slots /\ slots'[k] = slots[k] /\ ~IsBlanked(k, up[1])
          BY <4>2, <4>4 DEF Blank
        <4>6. slots[k].newline \in BOOLEAN /\ up[1].newline \in BOOLEAN
              /\ DOMAIN slots = 1..Len(slots) /\ Len(slots) \in Nat
              /\ \A i \in DOMAIN slots : slots[i].newline \in BOOLEAN
          <5>1. slots \in Seq(Slot) /\ Head(up) \in Action
            BY SlotsTyped, TypeParts DEF TerminalOK
          <5>2. DOMAIN slots = 1..Len(slots) /\ Len(slots) \in Nat
                /\ \A i \in DOMAIN slots : slots[i] \in Slot
            BY <5>1
          <5> QED BY <4>3, <4>5, <5>1, <5>2 DEF Slot, Action
        <4>7. named(k, up[1])
          BY <4>1, <4>2, <4>5, <4>6 DEF named, Unsub
        <4>8. PICK i \in 1..(k - 1) : named(i, up[1])
          BY <4>5, <4>7 DEF IsBlanked
        <4>9. i \in DOMAIN slots /\ i # k
          BY <4>5, <4>6, <4>8
        <4>10. slots[i].topic = t /\ ~slots[i].newline
          BY <4>1, <4>6, <4>8, <4>9 DEF named, Unsub
        <4> QED BY <4>2, <4>5, <4>9, <4>10 DEF OneSlot
      <3> QED BY <1>1, <1>3, <3>2, <3>3
    <2> QED BY <2>2, <2>3
  <1> QED BY <1>1, <1>2, <1>3

LEMMA ProperByLess ==
    ASSUME TypeOK, Proper, HandleAction, told' = told
    PROVE  Proper'
  <1>1. PICK n \in Nat : n = Len(up) /\ n # 0 /\ Len(up') = n - 1
    BY OneLess
  <1>2. /\ \A k \in 1..(n - 1) : up'[k] = up[k + 1]
        /\ DOMAIN up = 1..n /\ DOMAIN up' = 1..(n - 1)
        /\ \A t : \A k \in 1..(n - 1) : /\ Sub(t, k)' <=> Sub(t, k + 1)
                                        /\ Unsub(t, k)' <=> Unsub(t, k + 1)
    BY <1>1, OneLess
  <1>3. \A k \in DOMAIN up' : up'[k].topic \in Topic /\ ~up'[k].newline
    <2>1. ASSUME NEW k \in 1..(n - 1) PROVE k + 1 \in 1..n
      BY <1>1
    <2> QED BY <1>2, <2>1 DEF Proper
  <1>4. up[1].topic \in Topic /\ ~up[1].newline /\ Head(up) = up[1] /\ Head(up) \in Action
    <2>1. 1 \in DOMAIN up
      BY <1>1, <1>2
    <2> QED BY <2>1, SlotsTyped, TypeParts DEF Proper
  <1>5. ASSUME NEW t \in Topic PROVE OneBetween(t)'
    <2>1. SUFFICES ASSUME NEW j \in 0..(n - 1), NEW k \in 0..(n - 1), j < k, Sub(t, j)', Sub(t, k)'
                   PROVE  \E i \in (j + 1)..(k - 1) : Unsub(t, i)'
      BY <1>1 DEF OneBetween
    <2>2. OneBetween(t) /\ OneSlot(t)
      BY DEF Proper
    <2>3. PICK p \in 0..n : /\ Sub(t, p) /\ p <= j + 1 /\ (j > 0 => p = j + 1)
                            /\ p = 0 => ~Unsub(t, 1)
      BY <1>1, <2>1, <2>2, CameFrom
    <2>4. Sub(t, k + 1) /\ k + 1 \in 0..n /\ p < k + 1
      BY <1>1, <1>2, <2>1, <2>3
    <2>5. PICK i \in (p + 1)..k : Unsub(t, i)
      <3>1. \E i \in (p + 1)..(k + 1 - 1) : Unsub(t, i)
        BY <1>1, <2>2, <2>3, <2>4 DEF OneBetween
      <3> QED BY <2>1, <3>1
    <2>6. i > j + 1
      <3>1. CASE p = 0
        <4>1. i # 1 /\ j = 0
          BY <2>1, <2>3, <2>5, <3>1
        <4> QED BY <2>5, <3>1, <4>1
      <3>2. CASE p # 0
        BY <2>1, <2>3, <2>5, <3>2
      <3> QED BY <3>1, <3>2
    <2>7. i - 1 \in (j + 1)..(k - 1) /\ i - 1 \in 1..(n - 1) /\ i = (i - 1) + 1
      BY <1>1, <2>1, <2>3, <2>5, <2>6
    <2> QED BY <1>2, <2>5, <2>7
  <1>6. ASSUME NEW t \in Topic, t \notin told' PROVE LeftBehind(t)'
    <2>1. SUFFICES ASSUME NEW j \in 0..(n - 1), Sub(t, j)'
                   PROVE  \E i \in (j + 1)..(n - 1) : Unsub(t, i)'
      BY <1>1 DEF LeftBehind
    <2>2. OneBetween(t) /\ OneSlot(t) /\ LeftBehind(t)
      BY <1>6 DEF Proper
    <2>3. PICK p \in 0..n : /\ Sub(t, p) /\ p <= j + 1 /\ (j > 0 => p = j + 1)
                            /\ p = 0 => ~Unsub(t, 1)
      BY <1>1, <2>1, <2>2, CameFrom
    <2>5. PICK i \in (p + 1)..n : Unsub(t, i)
      BY <1>1, <2>2, <2>3 DEF LeftBehind
    <2>6. i > j + 1
      <3>1. CASE p = 0
        <4>1. i # 1 /\ j = 0
          BY <2>1, <2>3, <2>5, <3>1
        <4> QED BY <2>5, <3>1, <4>1
      <3>2. CASE p # 0
        <4>1. p = j + 1 \/ (p = 1 /\ j = 0)
          BY <2>1, <2>3, <3>2
        <4> QED BY <2>1, <2>5, <4>1
      <3> QED BY <3>1, <3>2
    <2>7. i - 1 \in (j + 1)..(n - 1) /\ i - 1 \in 1..(n - 1) /\ i = (i - 1) + 1
      BY <1>1, <2>1, <2>3, <2>5, <2>6
    <2> QED BY <1>2, <2>5, <2>7
  <1> DEFINE m == Len(slots)
             e == [topic |-> up[1].topic, newline |-> up[1].newline]
  <1>7. m \in Nat /\ DOMAIN slots = 1..m /\ \A k \in 1..m : slots[k] \in Slot
    <2>1. slots \in Seq(Slot)
      BY TypeParts DEF TerminalOK
    <2> QED BY <2>1
  <1>8. CASE up[1].type = "unsubscribe"
    <2>1. slots' = [k \in 1..m |-> IF IsBlanked(k, up[1]) THEN Blank ELSE slots[k]]
      BY <1>4, <1>7, <1>8 DEF HandleAction
    <2>2. \A k \in DOMAIN slots' : slots'[k] = Blank \/ slots'[k] = slots[k]
      BY <2>1
    <2>3. DOMAIN slots' = DOMAIN slots
      BY <1>7, <2>1
    <2>4. \A k \in DOMAIN slots' : slots'[k].topic \in Topic \/ slots'[k] = Blank
      BY <2>2, <2>3 DEF Proper
    <2>5. ASSUME NEW t \in Topic PROVE OneSlot(t)'
      <3>1. \A k \in DOMAIN slots' : ~slots'[k].newline => slots'[k] = slots[k]
        BY <2>2 DEF Blank
      <3>2. OneSlot(t)
        BY DEF Proper
      <3> QED BY <2>3, <3>1, <3>2 DEF OneSlot
    <2> QED BY <1>3, <1>5, <1>6, <2>4, <2>5 DEF Proper, Blank
  <1>9. CASE up[1].type # "unsubscribe"
    <2>1. slots' = Append(slots, e) /\ up[1].type = "subscribe"
      BY <1>4, <1>9 DEF HandleAction, added, Action
    <2>2. e \in Slot /\ slots \in Seq(Slot)
      BY <1>4, TypeParts DEF TerminalOK, Action, Slot
    <2>3. /\ DOMAIN slots' = 1..(m + 1) /\ slots'[m + 1] = e
          /\ \A k \in 1..m : slots'[k] = slots[k]
      BY <1>7, <2>1, <2>2, AppendProperties, LenProperties
    <2>4. \A k \in DOMAIN slots' : slots'[k].topic \in Topic \/ slots'[k] = Blank
      <3>1. \A k \in 1..m : slots[k].topic \in Topic \/ slots[k] = Blank
        BY <1>7 DEF Proper
      <3>2. e.topic \in Topic
        BY <1>4
      <3> QED BY <1>7, <2>3, <3>1, <3>2
    <2>5. up[1].topic \notin Served
      <3>1. SUFFICES ASSUME up[1].topic \in Served PROVE FALSE
        OBVIOUS
      <3> DEFINE t == up[1].topic
      <3>2. Sub(t, 0) /\ Sub(t, 1) /\ OneBetween(t)
        BY <1>4, <2>1, <3>1 DEF Sub, Proper
      <3>3. \E i \in (0 + 1)..(1 - 1) : Unsub(t, i)
        BY <1>1, <3>2 DEF OneBetween
      <3> QED BY <3>3
    <2>6. ASSUME NEW t \in Topic PROVE OneSlot(t)'
      <3>1. SUFFICES ASSUME NEW j \in 1..(m + 1), NEW k \in 1..(m + 1),
                            slots'[j].topic = t, slots'[k].topic = t,
                            ~slots'[j].newline, ~slots'[k].newline
                     PROVE  j = k
        BY <2>3 DEF OneSlot
      <3>2. CASE t = up[1].topic
        <4>1. \A i \in 1..m : ~(slots[i].topic = t /\ ~slots[i].newline)
          BY <1>7, <2>5, <3>2, ServedMeans
        <4>2. j = m + 1 /\ k = m + 1
          BY <1>7, <2>3, <3>1, <4>1
        <4> QED BY <4>2
      <3>3. CASE t # up[1].topic
        <4>1. j \in 1..m /\ k \in 1..m
          <5>1. e.topic # t
            BY <3>3
          <5> QED BY <1>7, <2>3, <3>1, <5>1
        <4>2. OneSlot(t)
          BY DEF Proper
        <4> QED BY <1>7, <2>3, <3>1, <4>1, <4>2 DEF OneSlot
      <3> QED BY <3>2, <3>3
    <2> QED BY <1>3, <1>5, <1>6, <2>4, <2>6 DEF Proper, Blank
  <1> QED BY <1>8, <1>9

LEMMA ServedSame ==
    ASSUME ServedInv, told' = told, action' = action, up' = up, slots' = slots,
           habits' = habits, SubBase'
    PROVE  ServedInv'
  BY DEF ServedInv, ToldKept, Kept, Orderly, Proper, OneBetween, LeftBehind, OneSlot, Sub, Unsub,
         Served, Blank

LEMMA ServedNext ==
    ASSUME SubscriberAssumption, ServedInv, SubBase', Next
    PROVE  ServedInv'
  <1>1. TypeOK /\ Typed /\ SubBase
    BY DEF ServedInv, SubBase
  <1>2. CASE HandleAction
    <2>1. told' = told /\ action' = action /\ habits' = habits
      BY <1>2 DEF HandleAction, terminal
    <2>2. ToldKept'
      BY <1>1, <1>2, <2>1, KeptByLess DEF ServedInv, ToldKept
    <2>3. Orderly' => Proper'
      BY <1>1, <1>2, <2>1, ProperByLess DEF ServedInv, Orderly
    <2> QED BY <2>2, <2>3 DEF ServedInv
  <1>3. CASE ReadLine
    <2>1. slots' = slots /\ habits' = habits
      BY <1>3 DEF ReadLine
    <2>2. CASE line.type = "exit"
      BY <1>3, <2>1, <2>2, ServedSame DEF ReadLine
    <2>3. CASE line.type = "subscribe" \/ line.type = "unsubscribe"
      <3>1. /\ action' = line /\ line \in Action /\ up' = Append(up, line)
            /\ \/ line.type = "subscribe" /\ told' = told \cup {line.topic}
               \/ line.type = "unsubscribe" /\ told' = told \ {line.topic}
        BY <1>1, <1>3, <2>3, LineFacts DEF ReadLine, sends, TypeOK
      <3>2. ASSUME NEW t \in told' PROVE Kept(t)'
        <4>1. \/ Kept(t) /\ ~(line.type = "unsubscribe" /\ line.topic = t)
              \/ line.type = "subscribe" /\ line.topic = t /\ ~line.newline
          BY <1>1, <3>1, <3>2 DEF ServedInv, ToldKept, Typed
        <4> QED BY <1>1, <2>1, <3>1, <4>1, KeptByMore
      <3>3. ToldKept'
        BY <3>1, <3>2 DEF ToldKept
      <3>4. ASSUME Orderly PROVE Proper'
        <4>1. "again" \notin habits /\ "newline" \notin habits
          BY <3>4 DEF Orderly
        <4>2. line.topic \in Topic /\ ~line.newline
              /\ (line.type = "subscribe" => line.topic \notin told)
          BY <1>1, <2>3, <4>1 DEF Typed
        <4> QED BY <1>1, <2>1, <3>1, <3>4, <4>2, ProperByMore DEF ServedInv
      <3> QED BY <2>1, <3>3, <3>4 DEF ServedInv, Orderly
    <2>4. CASE line.type \in {"unknown", "eof"}
      <3>1. action' = action /\ told' = told /\ up' = Append(up, action) /\ action \in Action
        BY <1>1, <1>3, <2>4 DEF ReadLine, sends, TypeOK
      <3>2. ASSUME NEW t \in told' PROVE Kept(t)'
        <4>1. Kept(t) /\ ~(action.type = "unsubscribe" /\ action.topic = t)
          BY <3>1, <3>2 DEF ServedInv, ToldKept
        <4> QED BY <1>1, <2>1, <3>1, <4>1, KeptByMore
      <3>3. ~Orderly
        BY <1>1, <2>4 DEF Typed, Orderly
      <3> QED BY <2>1, <3>1, <3>2, <3>3 DEF ServedInv, ToldKept, Orderly
    <2> QED BY <1>3, <2>2, <2>3, <2>4 DEF ReadLine
  <1>4. CASE RecvSize \/ RecvPacket \/ RecvNothing \/ SendTcp \/ Close \/ Arrive \/ Type
    <2>1. told' = told /\ action' = action /\ up' = up /\ slots' = slots /\ habits' = habits
      BY <1>4 DEF RecvSize, RecvPacket, RecvNothing, SendTcp, Close, Arrive, Type, terminal
    <2> QED BY <2>1, ServedSame
  <1> QED BY <1>2, <1>3, <1>4 DEF Next, Subscriber

LEMMA ServedInit ==
    ASSUME SubscriberAssumption, Init
    PROVE  ServedInv
  <1>1. SubBase
    BY SubInit
  <1>2. told = {} /\ up = <<>> /\ slots = <<>> /\ action.type = "subscribe"
    BY DEF Init
  <1>3. Len(up) = 0 /\ DOMAIN up = {} /\ DOMAIN slots = {}
    BY <1>2
  <1>4. ToldKept
    BY <1>2 DEF ToldKept
  <1>5. \A t : ~Sub(t, 0)
    BY <1>3 DEF Sub, Served
  <1>6. \A t \in Topic : OneBetween(t) /\ OneSlot(t) /\ LeftBehind(t)
    <2>1. \A j \in 0..Len(up) : j = 0
      BY <1>3
    <2> QED BY <1>3, <1>5, <2>1 DEF OneBetween, OneSlot, LeftBehind
  <1> QED BY <1>1, <1>3, <1>4, <1>6 DEF ServedInv, Proper

\* When the server has handled what was sent, it serves every topic that the user
\* has been told about, and no other one unless something has been typed that is
\* no command in its order.
THEOREM ToldTopicsAreServed == Spec => []ToldIsServed
  <1> USE SubscriberAssumption
  <1>1. Init => ServedInv
    BY ServedInit
  <1>2. ServedInv /\ [Next]_vars => ServedInv'
    <2> SUFFICES ASSUME ServedInv, [Next]_vars PROVE ServedInv'
      OBVIOUS
    <2>1. SubBase'
      BY SubNext DEF ServedInv
    <2>2. CASE Next
      BY <2>1, <2>2, ServedNext
    <2>3. CASE UNCHANGED vars
      <3>1. told' = told /\ action' = action /\ up' = up /\ slots' = slots /\ habits' = habits
        BY <2>3 DEF vars, terminal
      <3> QED BY <2>1, <3>1, ServedSame
    <2> QED BY <2>2, <2>3
  <1>3. ServedInv => ToldIsServed
    BY KeptIsServed
  <1> QED BY <1>1, <1>2, <1>3, PTL DEF Spec

-----------------------------------------------------------------------------
(* What is printed.                                                          *)

\* The writes one after another: of each packet of sizes z the size field, then
\* the packet.  The byte that write s begins with, how many it has, and the write.
First(s)   == [n |-> (s + 1) \div 2, k |-> IF s % 2 = 1 THEN 1 ELSE HDR + 1]
Long(z, s) == IF s % 2 = 1 THEN HDR ELSE z[s \div 2]
Seg(z, s)  == [j \in 1..Long(z, s) |-> [n |-> First(s).n, k |-> First(s).k + j - 1]]

Written == 2 * Len(size)
Arrived == Written - Len(pending)
Read    == 2 * Len(printed) + (IF pc = "packet" THEN 1 ELSE 0)

\* Write s is in the socket from i on, and behind it comes the next or nothing.
SegAt(i, s) ==
    /\ s \in 1..Arrived
    /\ i + Long(size, s) <= Len(sock) + 1
    /\ \A j \in 1..Long(size, s) : sock[i + j - 1] = Seg(size, s)[j]
    /\ IF s = Arrived THEN i + Long(size, s) = Len(sock) + 1
       ELSE i + Long(size, s) <= Len(sock) /\ sock[i + Long(size, s)] = First(s + 1)

Whole == habits \cap {"split", "close"} = {}
InPieces == \A i \in DOMAIN sock : \A s \in Nat \ {0} : sock[i] = First(s) => SegAt(i, s)
InStep ==
    /\ Read <= Arrived
    /\ sock = <<>> => Read = Arrived
    /\ sock # <<>> => Read < Arrived /\ sock[1] = First(Read + 1)
OnTheirWay == \A i \in DOMAIN pending : pending[i] = Seg(size, Arrived + i)
Reading ==
    /\ ~closed /\ status # "undefined"
    /\ \A k \in DOMAIN printed : printed[k] = packet(k)
    /\ pc = "packet" => dim = size[Len(printed) + 1] /\ received = 0 /\ tcp_buff = <<>>

WholeInv == InPieces /\ InStep /\ OnTheirWay /\ Reading
PrintInv == SubBase /\ (Whole => WholeInv)

LEMMA Evenly == \A s \in Nat \ {0} : \E n \in Nat \ {0} : s = 2 * n - 1 \/ s = 2 * n
  <1>1. SUFFICES ASSUME NEW s \in Nat \ {0}
                 PROVE  \E n \in Nat \ {0} : s = 2 * n - 1 \/ s = 2 * n
    OBVIOUS
  <1>2. (s + 1) \div 2 \in Nat \ {0}
        /\ (s = 2 * ((s + 1) \div 2) - 1 \/ s = 2 * ((s + 1) \div 2))
    OBVIOUS
  <1> QED BY <1>2

LEMMA SegIs ==
    ASSUME NEW z, NEW n \in Nat \ {0}
    PROVE  /\ First(2 * n - 1) = [n |-> n, k |-> 1] /\ Long(z, 2 * n - 1) = HDR
           /\ First(2 * n) = [n |-> n, k |-> HDR + 1] /\ Long(z, 2 * n) = z[n]
  <1>1. /\ (2 * n - 1) % 2 = 1 /\ (2 * n - 1 + 1) \div 2 = n
        /\ (2 * n) % 2 = 0 /\ (2 * n + 1) \div 2 = n /\ (2 * n) \div 2 = n
    OBVIOUS
  <1> QED BY <1>1 DEF First, Long

\* A write of a packet that has been sent.
LEMMA SegFacts ==
    ASSUME SubscriberAssumption, NEW z \in Seq(Dims), NEW s \in 1..(2 * Len(z))
    PROVE  /\ Long(z, s) \in Nat \ {0} /\ Len(Seg(z, s)) = Long(z, s)
           /\ Len(z) <= MaxPackets => Seg(z, s) \in Seq(Byte)
           /\ Seg(z, s)[1] = First(s)
           /\ \A j \in 1..Long(z, s) : \A t \in Nat \ {0} :
                 Seg(z, s)[j] = First(t) => j = 1 /\ t = s
  <1>1. HDR \in Nat \ {0} /\ Len(z) \in Nat /\ \A n \in 1..Len(z) : z[n] \in Nat \ {0}
    <2>1. \A n \in 1..Len(z) : z[n] \in Dims
      BY ElementOfSeq
    <2>2. \A d \in Dims : d \in 1..TCP_SIZE
      BY Bounds
    <2>3. TCP_SIZE \in Nat /\ HDR \in Nat \ {0}
      BY Bounds
    <2>4. ASSUME NEW n \in 1..Len(z) PROVE z[n] \in Nat \ {0}
      <3>1. z[n] \in 1..TCP_SIZE
        BY <2>1, <2>2
      <3> QED BY <2>3, <3>1
    <2>5. Len(z) \in Nat
      BY LenProperties
    <2> QED BY <2>3, <2>4, <2>5
  <1>2. PICK n \in Nat \ {0} : s = 2 * n - 1 \/ s = 2 * n
    <2>1. s \in Nat \ {0}
      BY <1>1
    <2> QED BY <2>1, Evenly
  <1>3. n \in 1..Len(z)
    BY <1>1, <1>2
  <1> DEFINE h == First(s).k
             m == Long(z, s)
  <1>4. /\ m \in Nat \ {0} /\ First(s).n = n /\ First(s) = [n |-> n, k |-> h]
        /\ (s = 2 * n - 1 /\ h = 1 /\ m = HDR) \/ (s = 2 * n /\ h = HDR + 1 /\ m = z[n])
    <2>1. CASE s = 2 * n - 1
      <3>1. First(s) = [n |-> n, k |-> 1] /\ Long(z, s) = HDR
        BY <2>1, SegIs
      <3> QED BY <1>1, <2>1, <3>1
    <2>2. CASE s = 2 * n
      <3>1. First(s) = [n |-> n, k |-> HDR + 1] /\ Long(z, s) = z[n]
        BY <2>2, SegIs
      <3> QED BY SMTT(20), <1>1, <1>3, <2>2, <3>1
    <2> QED BY <1>2, <2>1, <2>2
  <1>5. h \in Nat \ {0}
    BY SMTT(20), <1>1, <1>4
  <1>6. Seg(z, s) = [j \in 1..m |-> [n |-> n, k |-> h + j - 1]]
    BY <1>4 DEF Seg
  <1>7. ASSUME NEW j \in 1..m, NEW t \in Nat \ {0}, Seg(z, s)[j] = First(t)
        PROVE  j = 1 /\ t = s
    <2>1. PICK o \in Nat \ {0} : t = 2 * o - 1 \/ t = 2 * o
      BY Evenly
    <2>2. \/ t = 2 * o - 1 /\ First(t) = [n |-> o, k |-> 1]
          \/ t = 2 * o /\ First(t) = [n |-> o, k |-> HDR + 1]
      BY <2>1, SegIs
    <2>3. Seg(z, s)[j] = [n |-> n, k |-> h + j - 1]
      BY <1>6
    <2> HIDE DEF h, m
    <2>4. o = n /\ ((t = 2 * o - 1 /\ h + j - 1 = 1) \/ (t = 2 * o /\ h + j - 1 = HDR + 1))
      <3>1. CASE t = 2 * o - 1 /\ First(t) = [n |-> o, k |-> 1]
        <4>1. [n |-> o, k |-> 1] = [n |-> n, k |-> h + j - 1]
          BY <1>7, <2>3, <3>1
        <4>2. o = n /\ h + j - 1 = 1
          BY ONLY <4>1
        <4> QED BY <3>1, <4>2
      <3>2. CASE t = 2 * o /\ First(t) = [n |-> o, k |-> HDR + 1]
        <4>1. [n |-> o, k |-> HDR + 1] = [n |-> n, k |-> h + j - 1]
          BY <1>7, <2>3, <3>2
        <4>2. o = n /\ h + j - 1 = HDR + 1
          BY ONLY <4>1
        <4> QED BY <3>2, <4>2
      <3> QED BY <2>2, <3>1, <3>2
    <2> QED BY <1>1, <1>4, <1>5, <2>4
  <1> HIDE DEF h, m
  <1>8. Seg(z, s)[1] = First(s)
    BY <1>1, <1>4, <1>5, <1>6
  <1>9. ASSUME Len(z) <= MaxPackets PROVE Seg(z, s) \in Seq(Byte)
    <2>1. MaxPackets \in Nat
      BY Bounds
    <2>2. n \in 1..MaxPackets
      BY <1>1, <1>3, <1>9, <2>1
    <2>3. \A j \in 1..m : h + j - 1 \in Nat \ {0}
      BY <1>4, <1>5
    <2>4. \A j \in 1..m : [n |-> n, k |-> h + j - 1] \in Byte
      BY <2>2, <2>3 DEF Byte
    <2> QED BY <1>4, <1>6, <2>4
  <1>10. Len(Seg(z, s)) = m
    BY <1>4, <1>6
  <1> QED BY <1>4, <1>7, <1>8, <1>9, <1>10 DEF m

LEMMA HeaderIs ==
    ASSUME SubscriberAssumption, NEW n \in Nat \ {0}
    PROVE  Seg(size, 2 * n - 1) = header(n) /\ Seg(size, 2 * n) = packet(n)
  <1>1. /\ First(2 * n - 1) = [n |-> n, k |-> 1] /\ Long(size, 2 * n - 1) = HDR
        /\ First(2 * n) = [n |-> n, k |-> HDR + 1] /\ Long(size, 2 * n) = size[n]
    BY SegIs
  <1>2. First(2 * n - 1).n = n /\ First(2 * n - 1).k = 1
        /\ First(2 * n).n = n /\ First(2 * n).k = HDR + 1
    BY <1>1
  <1>3. Seg(size, 2 * n - 1) = [j \in 1..HDR |-> [n |-> n, k |-> 1 + j - 1]]
    BY <1>1, <1>2 DEF Seg
  <1>4. Seg(size, 2 * n) = [j \in 1..size[n] |-> [n |-> n, k |-> HDR + 1 + j - 1]]
    BY <1>1, <1>2 DEF Seg
  <1>5. HDR \in Nat
    BY Bounds
  <1>6. \A j \in 1..HDR : 1 + j - 1 = j
    BY <1>5
  <1>7. \A j \in 1..size[n] : HDR + 1 + j - 1 = HDR + j
    BY <1>5
  <1> QED BY <1>3, <1>4, <1>6, <1>7 DEF header, packet, frame

LEMMA Counts ==
    ASSUME SubscriberAssumption, SubBase, WholeInv
    PROVE  /\ Len(size) \in Nat /\ Len(pending) \in Nat /\ Len(printed) \in Nat
           /\ Len(sock) \in Nat /\ DOMAIN sock = 1..Len(sock) /\ sock \in Seq(Byte)
           /\ DOMAIN pending = 1..Len(pending) /\ DOMAIN printed = 1..Len(printed)
           /\ size \in Seq(Dims) /\ DOMAIN size = 1..Len(size) /\ Len(size) <= MaxPackets
           /\ Arrived \in Nat /\ Arrived <= 2 * Len(size) /\ Read \in Nat /\ Read <= Arrived
           /\ Arrived + Len(pending) = 2 * Len(size)
           /\ sock # <<>> => Len(sock) >= 1
  <1>1. /\ size \in Seq(Dims) /\ pending \in Seq(Seq(Byte)) /\ printed \in Seq(Seq(Byte))
        /\ sock \in Seq(Byte) /\ Len(size) <= MaxPackets
    BY DEF SubBase, TypeOK
  <1>2. /\ Len(size) \in Nat /\ Len(pending) \in Nat /\ Len(printed) \in Nat
        /\ Len(sock) \in Nat /\ DOMAIN sock = 1..Len(sock)
        /\ DOMAIN pending = 1..Len(pending) /\ DOMAIN printed = 1..Len(printed)
        /\ DOMAIN size = 1..Len(size)
    BY <1>1, LenProperties
  <1>3. sock # <<>> => Len(sock) >= 1
    BY <1>1, EmptySeq
  <1>4. Read \in Nat
    BY <1>2 DEF Read
  <1>5. Read <= Arrived
    BY DEF WholeInv, InStep
  <1> QED BY <1>1, <1>2, <1>3, <1>4, <1>5 DEF Arrived, Written

\* recv() of one write takes it whole.
LEMMA TakesSeg ==
    ASSUME SubscriberAssumption, SubBase, WholeInv, sock # <<>>, NEW s, s = Read + 1,
           sock' = SubSeq(sock, took(Long(size, s)) + 1, Len(sock)),
           size' = size, pending' = pending
    PROVE  /\ took(Long(size, s)) = Long(size, s) /\ chunk(Long(size, s)) = Seg(size, s)
           /\ Long(size, s) \in Nat \ {0} /\ s \in 1..Arrived
           /\ sock' = <<>> => s = Arrived
           /\ sock' # <<>> => s < Arrived /\ sock'[1] = First(s + 1)
           /\ InPieces'
  <1> DEFINE m == Long(size, s)
             l == Len(sock)
             a == Arrived
  <1>1. l \in Nat /\ DOMAIN sock = 1..l /\ sock \in Seq(Byte) /\ l >= 1 /\ a \in Nat
        /\ a <= 2 * Len(size) /\ Len(size) \in Nat /\ size \in Seq(Dims) /\ Read \in Nat
    BY Counts
  <1>2. s \in Nat \ {0} /\ sock[1] = First(s) /\ s <= a
    BY <1>1 DEF WholeInv, InStep
  <1>3. SegAt(1, s)
    BY <1>1, <1>2 DEF WholeInv, InPieces
  <1>4. s \in 1..(2 * Len(size)) /\ s \in 1..a
    BY <1>1, <1>2
  <1>5. m \in Nat \ {0} /\ Len(Seg(size, s)) = m /\ Seg(size, s) = [j \in 1..m |-> Seg(size, s)[j]]
    <2>1. m \in Nat \ {0} /\ Len(Seg(size, s)) = m
      BY <1>1, <1>4, SegFacts
    <2> QED BY <2>1 DEF Seg
  <1>6. m <= l /\ \A j \in 1..m : sock[j] = Seg(size, s)[j]
    <2>1. 1 + m <= l + 1 /\ \A j \in 1..m : sock[1 + j - 1] = Seg(size, s)[j]
      BY <1>3 DEF SegAt
    <2> HIDE DEF m, l
    <2>2. \A j \in 1..m : 1 + j - 1 = j
      BY ONLY <1>5
    <2>3. m <= l
      BY ONLY <1>1, <1>5, <2>1
    <2> QED BY ONLY <2>1, <2>2, <2>3
  <1>7. /\ IF s = a THEN 1 + m = l + 1 ELSE 1 + m <= l /\ sock[1 + m] = First(s + 1)
    BY <1>3 DEF SegAt
  <1>8. took(m) = m
    <2>1. m <= l
      BY <1>6
    <2> HIDE DEF m
    <2> QED BY <1>1, <1>5, <2>1 DEF took
  <1>9. chunk(m) = Seg(size, s)
    <2>1. chunk(m) \in Seq(Byte) /\ Len(chunk(m)) = m /\ \A i \in 1..m : chunk(m)[i] = sock[i]
      BY <1>1, <1>5, <1>8, TakeFacts
    <2>2. chunk(m) = [j \in 1..m |-> chunk(m)[j]]
      BY <2>1, LenProperties
    <2> HIDE DEF m
    <2>3. [j \in 1..m |-> chunk(m)[j]] = [j \in 1..m |-> Seg(size, s)[j]]
      BY <1>6, <2>1
    <2> QED BY <1>5, <2>2, <2>3
  <1>10. /\ sock' \in Seq(Byte) /\ Len(sock') = l - m
         /\ \A i \in 1..(l - m) : sock'[i] = sock[m + i]
    <2>1. sock \in Seq(Byte) /\ m \in Nat /\ took(m) = m /\ l = Len(sock)
          /\ sock' = SubSeq(sock, took(m) + 1, Len(sock))
      BY <1>1, <1>5, <1>8
    <2>2. /\ SubSeq(sock, took(m) + 1, Len(sock)) \in Seq(Byte)
          /\ Len(SubSeq(sock, took(m) + 1, Len(sock))) = Len(sock) - took(m)
          /\ \A i \in 1..(Len(sock) - took(m)) :
                SubSeq(sock, took(m) + 1, Len(sock))[i] = sock[took(m) + i]
      BY ONLY <2>1, TakeFacts
    <2> HIDE DEF m, l
    <2> QED BY ONLY <2>1, <2>2
  <1>11. DOMAIN sock' = 1..(l - m) /\ Arrived' = a
    BY <1>10, LenProperties DEF Arrived, Written
  <1> HIDE DEF m, l, a
  <1>20. m \in Nat \ {0} /\ l \in Nat /\ a \in Nat /\ m <= l
    BY <1>1, <1>5, <1>6
  <1>12. sock' = <<>> => s = a
    <2>1. ASSUME sock' = <<>> PROVE l - m = 0
      <3>1. Len(sock') = 0
        BY ONLY <2>1
      <3> QED BY ONLY <1>10, <3>1
    <2>2. ASSUME sock' = <<>>, s # a PROVE FALSE
      <3>1. 1 + m <= l
        BY ONLY <1>7, <2>2
      <3>2. l - m = 0
        BY ONLY <2>1, <2>2
      <3> QED BY ONLY <1>20, <3>1, <3>2
    <2> QED BY ONLY <2>2
  <1>13. sock' # <<>> => s < a /\ sock'[1] = First(s + 1)
    <2>1. ASSUME sock' # <<>> PROVE l - m \in Nat \ {0}
      BY <1>10, <2>1, EmptySeq
    <2>2. ASSUME sock' # <<>>, s = a PROVE FALSE
      <3>1. 1 + m = l + 1
        BY ONLY <1>7, <2>2
      <3>2. l - m \in Nat \ {0}
        BY ONLY <2>1, <2>2
      <3> QED BY ONLY <1>20, <3>1, <3>2
    <2>3. ASSUME sock' # <<>> PROVE sock'[1] = sock[m + 1]
      BY <1>10, <2>1, <2>3
    <2>4. m + 1 = 1 + m
      BY <1>5
    <2>5. ASSUME sock' # <<>> PROVE sock'[1] = First(s + 1)
      BY <1>7, <2>2, <2>3, <2>4, <2>5
    <2>6. s <= a /\ s \in Nat
      BY <1>2
    <2>7. ASSUME sock' # <<>> PROVE s < a
      <3>1. s # a
        BY <2>2, <2>7
      <3> QED BY <1>20, <2>6, <3>1
    <2> QED BY <2>5, <2>7
  <1>14. ASSUME NEW i \in 1..(l - m), NEW t \in Nat \ {0}, sock'[i] = First(t)
         PROVE  SegAt(i, t)'
    <2>1. sock[m + i] = First(t) /\ m + i \in 1..l
      <3>1. m + i \in 1..l
        BY <1>20, <1>14
      <3> QED BY <1>10, <1>14, <3>1
    <2>2. SegAt(m + i, t)
      BY <1>1, <2>1 DEF WholeInv, InPieces, l
    <2> DEFINE e == Long(size, t)
    <2>3. /\ t \in 1..a /\ m + i + e <= l + 1
          /\ \A j \in 1..e : sock[m + i + j - 1] = Seg(size, t)[j]
          /\ IF t = a THEN m + i + e = l + 1
             ELSE m + i + e <= l /\ sock[m + i + e] = First(t + 1)
      BY <2>2 DEF SegAt, a, l
    <2>4. e \in Nat \ {0}
      <3>1. t \in 1..(2 * Len(size))
        BY <1>1, <2>3
      <3> QED BY <1>1, <3>1, SegFacts
    <2> HIDE DEF e
    <2>9. /\ m + i + e <= l + 1 /\ (t = a => m + i + e = l + 1)
          /\ (t # a => m + i + e <= l)
      BY <2>3
    <2>5. ASSUME NEW j \in 1..e PROVE sock'[i + j - 1] = Seg(size, t)[j]
      <3>1. i + j - 1 \in 1..(l - m) /\ m + (i + j - 1) = m + i + j - 1
        BY <1>20, <2>4, <2>9
      <3> QED BY <1>10, <2>3, <3>1
    <2>6. i + e <= (l - m) + 1
      BY <1>20, <2>4, <2>9
    <2>7. IF t = a THEN i + e = (l - m) + 1 ELSE i + e <= l - m /\ sock'[i + e] = First(t + 1)
      <3>1. CASE t = a
        BY <1>20, <2>4, <2>9, <3>1
      <3>2. CASE t # a
        <4>1. i + e \in 1..(l - m) /\ m + (i + e) = m + i + e
          BY <1>20, <2>4, <2>9, <3>2
        <4> QED BY SMTT(20), <1>10, <2>3, <3>2, <4>1
      <3> QED BY <3>1, <3>2
    <2>8. size' = size /\ Len(sock') = l - m /\ Arrived' = a
      BY <1>10, <1>11
    <2> QED BY <2>3, <2>5, <2>6, <2>7, <2>8 DEF SegAt, e
  <1>15. InPieces'
    BY <1>11, <1>14 DEF InPieces
  <1> QED BY <1>4, <1>5, <1>8, <1>9, <1>12, <1>13, <1>15 DEF m, a

LEMMA RecvSizePrints ==
    ASSUME SubscriberAssumption, SubBase, Whole, WholeInv, RecvSize
    PROVE  WholeInv'
  <1>1. PICK p \in Nat : p = Len(printed)
    BY Counts
  <1>2. /\ sock # <<>> /\ pc = "select" /\ dim' \in atoi(chunk(HDR)) /\ received' = 0
        /\ sock' = SubSeq(sock, took(HDR) + 1, Len(sock)) /\ tcp_buff' = <<>>
        /\ size' = size /\ pending' = pending /\ closed' = closed /\ status' = status
    BY DEF RecvSize, recv, network, cleared
  <1>3. Read = 2 * p /\ HDR \in Nat \ {0}
    BY <1>1, <1>2, Bounds DEF Read
  <1>4. PICK s \in Nat : s = 2 * p + 1 /\ s = Read + 1 /\ s = 2 * (p + 1) - 1 /\ s + 1 = 2 * (p + 1)
    BY <1>1, <1>3
  <1>5. Long(size, s) = HDR /\ Seg(size, s) = header(p + 1)
    <2>1. p + 1 \in Nat \ {0}
      BY <1>1
    <2> QED BY <1>4, <2>1, SegIs, HeaderIs
  <1>6. /\ took(HDR) = HDR /\ chunk(HDR) = header(p + 1) /\ s \in 1..Arrived
        /\ sock' = <<>> => s = Arrived
        /\ sock' # <<>> => s < Arrived /\ sock'[1] = First(s + 1)
        /\ InPieces'
    <2>1. sock' = SubSeq(sock, took(Long(size, s)) + 1, Len(sock))
      BY <1>2, <1>5
    <2>2. /\ took(Long(size, s)) = Long(size, s) /\ chunk(Long(size, s)) = Seg(size, s)
          /\ s \in 1..Arrived
          /\ sock' = <<>> => s = Arrived
          /\ sock' # <<>> => s < Arrived /\ sock'[1] = First(s + 1)
          /\ InPieces'
      BY <1>2, <1>4, <2>1, TakesSeg
    <2> QED BY <1>5, <2>2
  <1>7. p + 1 \in DOMAIN size /\ size[p + 1] \in 1..TCP_SIZE
    <2>1. p + 1 \in 1..Len(size)
      BY <1>4, <1>6, Counts
    <2>2. size[p + 1] \in Dims /\ DOMAIN size = 1..Len(size)
      BY <2>1, Counts, ElementOfSeq
    <2> QED BY <2>1, <2>2, Bounds
  <1>8. dim' = size[p + 1]
    <2>1. ASSUME NEW n \in DOMAIN size, header(p + 1) = header(n) PROVE n = p + 1
      <3>1. header(p + 1)[1] = [n |-> p + 1, k |-> 1] /\ header(n)[1] = [n |-> n, k |-> 1]
        BY <1>3 DEF header, frame
      <3>2. [n |-> p + 1, k |-> 1] = [n |-> n, k |-> 1]
        BY <2>1, <3>1
      <3> QED BY ONLY <3>2
    <2>2. \E n \in DOMAIN size : header(p + 1) = header(n)
      BY <1>7
    <2>3. dim' \in {size[n] : n \in {n \in DOMAIN size : header(p + 1) = header(n)}}
      BY <1>2, <1>6, <2>2 DEF atoi
    <2> QED BY <2>1, <2>3
  <1>9. pc' = "packet" /\ printed' = printed
    <2>1. Expects(0, dim')
      BY <1>7, <1>8 DEF Expects
    <2> QED BY <2>1 DEF RecvSize
  <1>10. Reading'
    <2>1. \A k \in DOMAIN printed : printed[k] = packet(k)
      BY DEF WholeInv, Reading
    <2>2. \A k \in DOMAIN printed : packet(k)' = packet(k)
      BY <1>2 DEF packet
    <2>3. Len(printed') + 1 = p + 1
      BY <1>1, <1>9
    <2> QED BY <1>2, <1>8, <1>9, <2>1, <2>2, <2>3 DEF WholeInv, Reading
  <1>11. OnTheirWay' /\ Arrived' = Arrived
    BY <1>2 DEF WholeInv, OnTheirWay, Arrived, Written
  <1>12. Read' = s
    <2>1. Read' = 2 * p + 1
      BY <1>1, <1>9 DEF Read
    <2> QED BY <1>4, <2>1
  <1>13. InStep'
    <2>1. s <= Arrived /\ s \in Nat
      BY <1>6
    <2> QED BY <1>6, <1>11, <1>12, <2>1 DEF InStep
  <1> QED BY <1>6, <1>10, <1>11, <1>13 DEF WholeInv

LEMMA RecvPacketPrints ==
    ASSUME SubscriberAssumption, SubBase, Whole, WholeInv, RecvPacket
    PROVE  WholeInv'
  <1>1. PICK p \in Nat : p = Len(printed)
    BY Counts
  <1>2. /\ sock # <<>> /\ pc = "packet" /\ received' = received + took(dim)
        /\ sock' = SubSeq(sock, took(dim) + 1, Len(sock))
        /\ tcp_buff' = over(chunk(dim), tcp_buff)
        /\ status' = IF took(dim) > TCP_SIZE THEN "undefined" ELSE "run"
        /\ size' = size /\ pending' = pending /\ closed' = closed
    BY DEF RecvPacket, recv, network
  <1>3. Read = 2 * p + 1 /\ dim = size[p + 1] /\ received = 0 /\ tcp_buff = <<>>
    BY <1>1, <1>2 DEF Read, WholeInv, Reading
  <1>4. PICK s \in Nat : s = 2 * p + 2 /\ s = Read + 1 /\ s = 2 * (p + 1)
    BY <1>1, <1>3
  <1>5. Long(size, s) = dim /\ Seg(size, s) = packet(p + 1)
    <2>1. p + 1 \in Nat \ {0}
      BY <1>1
    <2> QED BY <1>3, <1>4, <2>1, SegIs, HeaderIs
  <1>6. /\ took(dim) = dim /\ chunk(dim) = packet(p + 1) /\ s \in 1..Arrived
        /\ sock' = <<>> => s = Arrived
        /\ sock' # <<>> => s < Arrived /\ sock'[1] = First(s + 1)
        /\ InPieces'
    <2>1. sock' = SubSeq(sock, took(Long(size, s)) + 1, Len(sock))
      BY <1>2, <1>5
    <2>2. /\ took(Long(size, s)) = Long(size, s) /\ chunk(Long(size, s)) = Seg(size, s)
          /\ s \in 1..Arrived
          /\ sock' = <<>> => s = Arrived
          /\ sock' # <<>> => s < Arrived /\ sock'[1] = First(s + 1)
          /\ InPieces'
      BY <1>2, <1>4, <2>1, TakesSeg
    <2> QED BY <1>5, <2>2
  <1>7. dim \in 1..TCP_SIZE /\ TCP_SIZE \in Nat
    <2>1. p + 1 \in 1..Len(size)
      BY <1>4, <1>6, Counts
    <2>2. size[p + 1] \in Dims
      BY <2>1, Counts, ElementOfSeq
    <2> QED BY <1>3, <2>2, Bounds
  <1>8. status' = "run" /\ tcp_buff' = packet(p + 1) /\ received' = dim
    <2>1. ~(took(dim) > TCP_SIZE) /\ 0 + took(dim) = dim
      BY <1>6, <1>7
    <2>2. chunk(dim) \in Seq(Byte) /\ <<>> \in Seq(Byte)
      BY <1>7, TakeFacts, Counts
    <2>3. over(chunk(dim), <<>>) = chunk(dim)
      BY <2>2, OverFacts
    <2> QED BY <1>2, <1>3, <1>6, <2>1, <2>3
  <1>9. pc' = "select" /\ printed' = Append(printed, packet(p + 1))
    <2>1. ~Expects(received', dim)
      BY <1>7, <1>8 DEF Expects
    <2> QED BY <1>8, <2>1 DEF RecvPacket, print
  <1>10. /\ DOMAIN printed = 1..p /\ DOMAIN printed' = 1..(p + 1) /\ Len(printed') = p + 1
         /\ printed'[p + 1] = packet(p + 1) /\ \A k \in 1..p : printed'[k] = printed[k]
    <2>1. printed \in Seq(Seq(Byte)) /\ packet(p + 1) \in Seq(Byte)
      <3>1. chunk(dim) \in Seq(Byte)
        BY <1>7, TakeFacts, Counts
      <3> QED BY <1>6, <3>1 DEF SubBase, TypeOK
    <2> QED BY <1>1, <1>9, <2>1, AppendProperties, LenProperties
  <1>11. Reading'
    <2>1. \A k \in 1..p : printed[k] = packet(k)
      BY <1>10 DEF WholeInv, Reading
    <2>2. \A k \in 1..(p + 1) : packet(k)' = packet(k)
      BY <1>2 DEF packet
    <2>3. \A k \in 1..(p + 1) : k = p + 1 \/ k \in 1..p
      BY <1>1
    <2>4. \A k \in DOMAIN printed' : printed'[k] = packet(k)'
      BY <1>10, <2>1, <2>2, <2>3
    <2> QED BY <1>2, <1>8, <1>9, <2>4 DEF WholeInv, Reading
  <1>12. OnTheirWay' /\ Arrived' = Arrived
    BY <1>2 DEF WholeInv, OnTheirWay, Arrived, Written
  <1>13. Read' = s
    <2>1. Read' = 2 * (p + 1)
      BY <1>1, <1>9, <1>10 DEF Read
    <2> QED BY <1>4, <2>1
  <1>14. InStep'
    <2>1. s <= Arrived /\ s \in Nat
      BY <1>6
    <2> QED BY <1>6, <1>12, <1>13, <2>1 DEF InStep
  <1> QED BY <1>6, <1>11, <1>12, <1>14 DEF WholeInv

\* A write arrives behind what has arrived.
LEMMA ArriveKeeps ==
    ASSUME SubscriberAssumption, SubBase, Whole, WholeInv, Arrive
    PROVE  WholeInv'
  <1> DEFINE q == Len(pending)
             l == Len(sock)
             b == Arrived
  <1>1. /\ q \in Nat /\ l \in Nat /\ b \in Nat /\ b + q = 2 * Len(size) /\ Len(size) \in Nat
        /\ DOMAIN sock = 1..l /\ DOMAIN pending = 1..q /\ sock \in Seq(Byte)
        /\ size \in Seq(Dims) /\ Len(size) <= MaxPackets /\ Read \in Nat /\ Read <= b
    BY Counts
  <1>2. pending # <<>> /\ pending \in Seq(Seq(Byte)) /\ q >= 1
    BY EmptySeq DEF Arrive, SubBase, TypeOK
  <1>3. PICK h \in Seq(Byte) : h = Head(pending) /\ h = pending[1]
    BY <1>2, HeadTailProperties
  <1> DEFINE s == b + 1
             m == Long(size, s)
  <1>4. /\ h = Seg(size, s) /\ s \in 1..(2 * Len(size)) /\ s \in Nat \ {0}
    <2>1. 1 \in DOMAIN pending
      BY <1>1, <1>2
    <2>2. pending[1] = Seg(size, Arrived + 1)
      BY <2>1 DEF WholeInv, OnTheirWay
    <2>3. h = Seg(size, s)
      BY <1>3, <2>2
    <2> HIDE DEF q, b
    <2> QED BY <1>1, <1>2, <2>3
  <1>5. /\ m \in Nat \ {0} /\ Len(h) = m /\ h[1] = First(s)
        /\ \A j \in 1..m : \A t \in Nat \ {0} : h[j] = First(t) => j = 1 /\ t = s
        /\ DOMAIN h = 1..m
    BY <1>1, <1>3, <1>4, SegFacts, LenProperties
  <1>6. /\ size' = size /\ sock' = sock \o h /\ pending' = Tail(pending) /\ closed' = closed
        /\ status' = status /\ reader' = reader
    <2>1. PICK n \in 1..Len(Head(pending)) :
             /\ n = Len(Head(pending)) \/ "split" \in habits
             /\ sock' = sock \o SubSeq(Head(pending), 1, n)
             /\ pending' = IF n = Len(Head(pending)) THEN Tail(pending)
                           ELSE <<SubSeq(Head(pending), n + 1, Len(Head(pending)))>>
                                  \o Tail(pending)
      BY DEF Arrive
    <2>2. n = Len(h)
      BY <1>3, <2>1 DEF Whole
    <2>3. SubSeq(h, 1, Len(h)) = h
      BY SubSeqFull
    <2> QED BY <1>3, <2>1, <2>2, <2>3 DEF Arrive
  <1>7. /\ Len(sock') = l + m /\ DOMAIN sock' = 1..(l + m) /\ sock' \in Seq(Byte)
        /\ \A i \in 1..l : sock'[i] = sock[i]
        /\ \A i \in 1..m : sock'[l + i] = h[i]
    <2>1. /\ sock' \in Seq(Byte) /\ Len(sock') = Len(sock) + Len(h)
          /\ \A i \in 1..(Len(sock) + Len(h)) :
                sock'[i] = IF i <= Len(sock) THEN sock[i] ELSE h[i - Len(sock)]
      BY <1>1, <1>3, <1>6, ConcatProperties
    <2>2. DOMAIN sock' = 1..Len(sock')
      BY <2>1, LenProperties
    <2> HIDE DEF m, l
    <2>3. \A i \in 1..(l + m) : sock'[i] = IF i <= l THEN sock[i] ELSE h[i - l]
      BY <1>5, <2>1 DEF l
    <2>4. \A i \in 1..l : i \in 1..(l + m) /\ i <= l
      BY <1>1, <1>5
    <2>5. \A i \in 1..m : l + i \in 1..(l + m) /\ ~(l + i <= l) /\ (l + i) - l = i
      BY <1>1, <1>5
    <2> QED BY <1>5, <2>1, <2>2, <2>3, <2>4, <2>5 DEF l
  <1>8. /\ Len(pending') = q - 1 /\ DOMAIN pending' = 1..(q - 1)
        /\ \A i \in 1..(q - 1) : pending'[i] = pending[i + 1]
    <2>1. Tail(pending) \in Seq(Seq(Byte)) /\ Len(Tail(pending)) = q - 1
          /\ \A i \in 1..(q - 1) : Tail(pending)[i] = pending[i + 1]
      BY <1>2, HeadTailProperties
    <2> QED BY <1>6, <2>1, LenProperties
  <1>9. Arrived' = s
    <2>1. Arrived' = 2 * Len(size) - (q - 1)
      BY <1>6, <1>8 DEF Arrived, Written
    <2> HIDE DEF q, b
    <2> QED BY <1>1, <2>1
  <1> HIDE DEF q, l, b, m, s
  <1>10. s = b + 1 /\ s \in Nat \ {0}
    BY <1>1 DEF s
  <1>11. OnTheirWay'
    <2>1. ASSUME NEW i \in 1..(q - 1) PROVE pending'[i] = Seg(size, s + i)
      <3>1. i + 1 \in 1..q /\ b + (i + 1) = s + i
        BY <1>1, <1>10
      <3>2. pending[i + 1] = Seg(size, b + (i + 1))
        BY <1>1, <3>1 DEF WholeInv, OnTheirWay, b
      <3> QED BY <1>8, <3>1, <3>2
    <2> QED BY <1>6, <1>8, <1>9, <2>1 DEF OnTheirWay
  <1>12. ASSUME NEW i \in 1..l, NEW t \in Nat \ {0}, sock'[i] = First(t)
         PROVE  SegAt(i, t)'
    <2>1. sock[i] = First(t)
      BY <1>7, <1>12
    <2>2. SegAt(i, t)
      BY <1>1, <2>1 DEF WholeInv, InPieces
    <2> DEFINE e == Long(size, t)
    <2>3. /\ t \in 1..b /\ i + e <= l + 1
          /\ \A j \in 1..e : sock[i + j - 1] = Seg(size, t)[j]
          /\ IF t = b THEN i + e = l + 1 ELSE i + e <= l /\ sock[i + e] = First(t + 1)
      BY <2>2 DEF SegAt, b, l
    <2>4. e \in Nat \ {0}
      <3>1. t \in 1..(2 * Len(size))
        BY <1>1, <2>3
      <3> QED BY <1>1, <3>1, SegFacts
    <2> HIDE DEF e
    <2>5. i + e <= l + 1 /\ (t = b => i + e = l + 1) /\ (t # b => i + e <= l)
      BY <2>3
    <2>6. ASSUME NEW j \in 1..e PROVE sock'[i + j - 1] = Seg(size, t)[j]
      <3>1. i + j - 1 \in 1..l
        BY <1>1, <2>4, <2>5
      <3> QED BY <1>7, <2>3, <3>1
    <2>7. t \in 1..s /\ t # s
      BY <1>1, <1>10, <2>3
    <2>8. i + e <= (l + m) + 1 /\ i + e <= l + m
      BY <1>1, <1>5, <2>4, <2>5
    <2>9. sock'[i + e] = First(t + 1)
      <3>1. CASE t = b
        <4>1. sock'[l + 1] = h[1] /\ i + e = l + 1 /\ t + 1 = s
          <5>1. 1 \in 1..m
            BY <1>5
          <5> QED BY <1>7, <1>10, <2>5, <3>1, <5>1
        <4> QED BY <1>5, <4>1
      <3>2. CASE t # b
        <4>1. i + e \in 1..l
          BY <1>1, <2>4, <2>5, <3>2
        <4> QED BY <1>7, <2>3, <3>2, <4>1
      <3> QED BY <3>1, <3>2
    <2> QED BY <1>6, <1>7, <1>9, <2>6, <2>7, <2>8, <2>9 DEF SegAt, e
  <1>13. ASSUME NEW i \in (l + 1)..(l + m), NEW t \in Nat \ {0}, sock'[i] = First(t)
         PROVE  SegAt(i, t)'
    <2>1. PICK j \in 1..m : i = l + j
      <3>1. i - l \in 1..m /\ i = l + (i - l)
        BY <1>1, <1>5
      <3> QED BY <3>1
    <2>2. j = 1 /\ t = s
      BY <1>5, <1>7, <1>13, <2>1
    <2>3. ASSUME NEW k \in 1..m PROVE sock'[i + k - 1] = h[k]
      <3>1. i + k - 1 = l + k
        BY <1>1, <2>1, <2>2
      <3> QED BY <1>7, <3>1
    <2>4. i + m = (l + m) + 1 /\ s \in 1..s
      BY <1>1, <1>5, <1>10, <2>1, <2>2
    <2>5. i + m <= (l + m) + 1
      BY <1>1, <1>5, <2>4
    <2>6. /\ s \in 1..s /\ i + m <= Len(sock') + 1 /\ i + m = Len(sock') + 1
          /\ \A k \in 1..m : sock'[i + k - 1] = Seg(size, s)[k]
      BY <1>4, <1>7, <2>3, <2>4, <2>5 DEF s
    <2> QED BY <1>6, <1>9, <2>2, <2>6 DEF SegAt, m
  <1>14. InPieces'
    <2>1. ASSUME NEW i \in DOMAIN sock' PROVE i \in 1..l \/ i \in (l + 1)..(l + m)
      BY <1>1, <1>5, <1>7
    <2> QED BY <1>12, <1>13, <2>1 DEF InPieces
  <1>15. Read' = Read /\ Reading'
    <2>1. pc' = pc /\ dim' = dim /\ received' = received /\ tcp_buff' = tcp_buff
          /\ printed' = printed
      BY <1>6 DEF reader
    <2>2. \A k : packet(k)' = packet(k)
      BY <1>6 DEF packet
    <2> QED BY <1>6, <2>1, <2>2 DEF Read, Reading, WholeInv
  <1>16. InStep'
    <2>1. sock' # <<>> /\ Read < s /\ Read <= s
      <3>1. Len(sock') # 0
        BY <1>1, <1>5, <1>7
      <3>2. Len(<<>>) = 0
        OBVIOUS
      <3>3. Read < s /\ Read <= s
        BY <1>1, <1>10
      <3> QED BY <3>1, <3>2, <3>3
    <2>2. sock'[1] = First(Read + 1)
      <3>1. CASE sock = <<>>
        <4>1. l = 0 /\ Read = b
          BY <3>1 DEF WholeInv, InStep, l, b
        <4>2. 1 \in 1..m /\ l + 1 = 1 /\ Read + 1 = s
          BY <1>5, <1>10, <4>1
        <4>3. sock'[1] = h[1]
          BY <1>7, <4>2
        <4> QED BY <1>5, <4>2, <4>3
      <3>2. CASE sock # <<>>
        <4>1. sock[1] = First(Read + 1)
          BY <3>2 DEF WholeInv, InStep
        <4>2. 1 \in 1..l
          BY <1>1, <3>2, EmptySeq DEF l
        <4> QED BY <1>7, <4>1, <4>2
      <3> QED BY <3>1, <3>2
    <2> QED BY <1>9, <1>15, <2>1, <2>2 DEF InStep
  <1> QED BY <1>11, <1>14, <1>15, <1>16 DEF WholeInv

\* Two more writes, of a packet of d bytes.
LEMMA SendKeeps ==
    ASSUME SubscriberAssumption, SubBase, Whole, WholeInv, SendTcp
    PROVE  WholeInv'
  <1> DEFINE w == Len(size)
             q == Len(pending)
             b == Arrived
  <1>1. /\ w \in Nat /\ q \in Nat /\ b \in Nat /\ b + q = 2 * w /\ b <= 2 * w
        /\ DOMAIN pending = 1..q /\ size \in Seq(Dims) /\ DOMAIN size = 1..w
    BY Counts
  <1>2. PICK d \in Dims :
           /\ size' = Append(size, d)
           /\ pending' = pending \o
                <<frame(Len(size) + 1, HDR),
                  [k \in 1..d |-> [n |-> Len(size) + 1, k |-> HDR + k]]>>
    BY DEF SendTcp
  <1> DEFINE one == frame(w + 1, HDR)
             two == [k \in 1..d |-> [n |-> w + 1, k |-> HDR + k]]
  <1>3. one \in Seq(Byte) /\ two \in Seq(Byte)
    <2>1. w + 1 \in 1..MaxPackets /\ HDR \in Nat /\ d \in Nat
      BY <1>1, Bounds DEF SendTcp
    <2> QED BY <2>1, FrameFacts
  <1>4. /\ closed' = closed /\ sock' = sock /\ status' = status /\ reader' = reader
    BY DEF SendTcp
  <1>5. /\ Len(size') = w + 1 /\ size'[w + 1] = d /\ size' \in Seq(Dims)
        /\ \A n \in 1..w : size'[n] = size[n]
    BY <1>1, <1>2, AppendProperties
  <1>6. /\ Len(pending') = q + 2 /\ DOMAIN pending' = 1..(q + 2)
        /\ \A i \in 1..q : pending'[i] = pending[i]
        /\ pending'[q + 1] = one /\ pending'[q + 2] = two
    <2>1. pending \in Seq(Seq(Byte)) /\ pending' = pending \o <<one, two>>
      BY <1>2 DEF SubBase, TypeOK
    <2> HIDE DEF one, two
    <2>2. PICK r \in Seq(Seq(Byte)) : r = <<one, two>> /\ Len(r) = 2 /\ r[1] = one /\ r[2] = two
      <3> DEFINE r == <<one, two>>
      <3>1. r \in Seq(Seq(Byte)) /\ Len(r) = 2 /\ r[1] = one /\ r[2] = two
        BY <1>3
      <3> QED BY <3>1
    <2>3. /\ pending \o r \in Seq(Seq(Byte)) /\ Len(pending \o r) = q + 2
          /\ \A i \in 1..(q + 2) : (pending \o r)[i] = IF i <= q THEN pending[i] ELSE r[i - q]
      BY <2>1, <2>2, ConcatProperties
    <2>4. DOMAIN (pending \o r) = 1..(q + 2)
      BY <2>3, LenProperties
    <2> HIDE DEF q
    <2>5. /\ \A i \in 1..q : i \in 1..(q + 2) /\ i <= q
          /\ q + 1 \in 1..(q + 2) /\ q + 2 \in 1..(q + 2) /\ ~(q + 1 <= q) /\ ~(q + 2 <= q)
          /\ q + 1 - q = 1 /\ q + 2 - q = 2
      BY <1>1
    <2>6. \A i \in 1..q : (pending \o r)[i] = pending[i]
      BY <2>3, <2>5
    <2>7. (pending \o r)[q + 1] = one /\ (pending \o r)[q + 2] = two
      <3>3. ASSUME NEW i \in 1..(q + 2), ~(i <= q) PROVE (pending \o r)[i] = r[i - q]
        <4>1. (pending \o r)[i] = IF i <= q THEN pending[i] ELSE r[i - q]
          BY <2>3
        <4> QED BY <3>3, <4>1
      <3>1. \A j \in 1..(q + 2) : \A k \in {1, 2} : j = q + k => (pending \o r)[j] = r[k]
        <4>1. SUFFICES ASSUME NEW j \in 1..(q + 2), NEW k \in {1, 2}, j = q + k
                       PROVE  (pending \o r)[j] = r[k]
          OBVIOUS
        <4>2. ~(j <= q) /\ j - q = k
          BY <1>1, <4>1
        <4> QED BY <3>3, <4>2
      <3>2. q + 1 \in 1..(q + 2) /\ q + 2 \in 1..(q + 2)
        BY <2>5
      <3>4. (pending \o r)[q + 1] = r[1] /\ (pending \o r)[q + 2] = r[2]
        BY <3>1, <3>2
      <3> QED BY <2>2, <3>4
    <2>8. pending' = pending \o r
      BY <2>1, <2>2
    <2> QED BY <2>3, <2>4, <2>6, <2>7, <2>8
  <1>7. Arrived' = b
    BY <1>1, <1>5, <1>6 DEF Arrived, Written
  <1>8. ASSUME NEW s \in 1..(2 * w) PROVE Long(size', s) = Long(size, s) /\ Seg(size', s) = Seg(size, s)
    <2>1. PICK n \in Nat \ {0} : s = 2 * n - 1 \/ s = 2 * n
      <3>1. s \in Nat \ {0}
        BY <1>1
      <3> QED BY <3>1, Evenly
    <2>2. n \in 1..w
      BY <1>1, <2>1
    <2>3. Long(size', s) = Long(size, s)
      <3>1. CASE s = 2 * n - 1
        BY <3>1, SegIs
      <3>2. CASE s = 2 * n
        BY <1>5, <2>2, <3>2, SegIs
      <3> QED BY <2>1, <3>1, <3>2
    <2> QED BY <2>3 DEF Seg
  <1>9. Seg(size', 2 * w + 1) = one /\ Seg(size', 2 * w + 2) = two
    <2>1. PICK n \in Nat \ {0} : n = w + 1 /\ 2 * w + 1 = 2 * n - 1 /\ 2 * w + 2 = 2 * n
      <3>1. w + 1 \in Nat \ {0} /\ 2 * w + 1 = 2 * (w + 1) - 1 /\ 2 * w + 2 = 2 * (w + 1)
        BY <1>1
      <3> QED BY <3>1
    <2>2. /\ First(2 * n - 1) = [n |-> n, k |-> 1] /\ Long(size', 2 * n - 1) = HDR
          /\ First(2 * n) = [n |-> n, k |-> HDR + 1] /\ Long(size', 2 * n) = d
      BY <1>5, <2>1, SegIs
    <2>3. First(2 * n - 1).n = n /\ First(2 * n - 1).k = 1
          /\ First(2 * n).n = n /\ First(2 * n).k = HDR + 1
      BY <2>2
    <2>4. HDR \in Nat /\ d \in Nat
      BY Bounds
    <2>5. (\A j \in 1..HDR : 1 + j - 1 = j) /\ (\A j \in 1..d : HDR + 1 + j - 1 = HDR + j)
      BY <2>4
    <2>6. Seg(size', 2 * n - 1) = [j \in 1..HDR |-> [n |-> n, k |-> 1 + j - 1]]
      BY <2>2, <2>3 DEF Seg
    <2>7. Seg(size', 2 * n) = [j \in 1..d |-> [n |-> n, k |-> HDR + 1 + j - 1]]
      BY <2>2, <2>3 DEF Seg
    <2>8. Seg(size', 2 * n - 1) = [j \in 1..HDR |-> [n |-> n, k |-> j]]
      BY <2>5, <2>6
    <2>9. Seg(size', 2 * n) = [j \in 1..d |-> [n |-> n, k |-> HDR + j]]
      BY <2>5, <2>7
    <2> QED BY <2>1, <2>8, <2>9 DEF frame
  <1> HIDE DEF w, q, b, one, two
  <1>10. OnTheirWay'
    <2>1. ASSUME NEW i \in 1..(q + 2) PROVE pending'[i] = Seg(size', b + i)
      <3>1. CASE i \in 1..q
        <4>1. b + i \in 1..(2 * w)
          BY <1>1, <3>1
        <4>2. pending[i] = Seg(size, b + i)
          BY <1>1, <3>1 DEF WholeInv, OnTheirWay, b
        <4> QED BY <1>6, <1>8, <3>1, <4>1, <4>2
      <3>2. CASE i = q + 1
        <4>1. b + i = 2 * w + 1
          BY <1>1, <3>2
        <4> QED BY <1>6, <1>9, <3>2, <4>1
      <3>3. CASE i = q + 2
        <4>1. b + i = 2 * w + 2
          BY <1>1, <3>3
        <4> QED BY <1>6, <1>9, <3>3, <4>1
      <3>4. i \in 1..q \/ i = q + 1 \/ i = q + 2
        BY <1>1
      <3> QED BY <3>1, <3>2, <3>3, <3>4
    <2> QED BY <1>6, <1>7, <2>1 DEF OnTheirWay
  <1>11. ASSUME NEW i \in DOMAIN sock, NEW t \in Nat \ {0}, sock[i] = First(t)
         PROVE  SegAt(i, t)'
    <2>1. SegAt(i, t)
      BY <1>11 DEF WholeInv, InPieces
    <2>2. t \in 1..(2 * w)
      <3>1. t \in 1..b
        BY <2>1 DEF SegAt, b
      <3> QED BY <1>1, <3>1
    <2> QED BY <1>4, <1>7, <1>8, <2>1, <2>2 DEF SegAt, b
  <1>12. InPieces'
    BY <1>4, <1>11 DEF InPieces
  <1>13. pc' = pc /\ dim' = dim /\ received' = received /\ tcp_buff' = tcp_buff
         /\ printed' = printed /\ Read' = Read
    BY <1>4 DEF reader, Read
  <1>14. InStep'
    BY <1>4, <1>7, <1>13 DEF InStep, WholeInv, b
  <1>15. Reading'
    <2> DEFINE p == Len(printed)
    <2>1. p \in Nat /\ DOMAIN printed = 1..p /\ Read <= b
      BY Counts DEF b
    <2>2. p <= w /\ (pc = "packet" => p + 1 <= w)
      <3>1. Read = 2 * p + (IF pc = "packet" THEN 1 ELSE 0)
        BY DEF Read
      <3> HIDE DEF p
      <3> QED BY <1>1, <2>1, <3>1
    <2>3. ASSUME NEW k \in 1..p PROVE printed'[k] = packet(k)'
      <3>1. k \in 1..w
        BY <1>1, <2>1, <2>2
      <3>2. printed[k] = packet(k)
        BY <2>1 DEF WholeInv, Reading
      <3>3. packet(k)' = packet(k)
        BY <1>5, <3>1 DEF packet
      <3> QED BY <1>13, <3>2, <3>3
    <2>4. pc = "packet" => size'[p + 1] = size[p + 1]
      <3>1. ASSUME pc = "packet" PROVE p + 1 \in 1..w
        <4> HIDE DEF p
        <4> QED BY <1>1, <2>1, <2>2, <3>1
      <3> QED BY <1>5, <3>1
    <2> QED BY <1>4, <1>13, <2>1, <2>3, <2>4 DEF Reading, WholeInv
  <1> QED BY <1>10, <1>12, <1>14, <1>15 DEF WholeInv

LEMMA PrintNext ==
    ASSUME SubscriberAssumption, PrintInv, SubBase', Next
    PROVE  PrintInv'
  <1>1. SUFFICES ASSUME Whole' PROVE WholeInv'
    BY DEF PrintInv
  <1>2. habits' = habits /\ SubBase
    BY DEF PrintInv, Next, Subscriber, ReadLine, RecvSize, RecvPacket, RecvNothing, HandleAction,
           SendTcp, Close, Arrive, Type
  <1>3. Whole /\ WholeInv
    BY <1>1, <1>2 DEF Whole, PrintInv
  <1>4. CASE RecvSize
    BY <1>2, <1>3, <1>4, RecvSizePrints
  <1>5. CASE RecvPacket
    BY <1>2, <1>3, <1>5, RecvPacketPrints
  <1>6. CASE RecvNothing \/ Close
    <2>1. ~closed /\ "close" \notin habits
      BY <1>3 DEF WholeInv, Reading, Whole
    <2> QED BY <1>6, <2>1 DEF RecvNothing, Close
  <1>7. CASE SendTcp
    BY <1>2, <1>3, <1>7, SendKeeps
  <1>8. CASE Arrive
    BY <1>2, <1>3, <1>8, ArriveKeeps
  <1>9. CASE ReadLine \/ HandleAction \/ Type
    <2>1. /\ size' = size /\ pending' = pending /\ closed' = closed /\ sock' = sock
          /\ pc' = pc /\ dim' = dim /\ received' = received /\ tcp_buff' = tcp_buff
          /\ printed' = printed /\ (status' = status \/ status' = "exit")
      BY <1>9 DEF ReadLine, HandleAction, Type, network, reader
    <2>2. \A k : packet(k)' = packet(k)
      BY <2>1 DEF packet
    <2> QED BY <1>3, <2>1, <2>2 DEF WholeInv, InPieces, InStep, OnTheirWay, Reading, SegAt, Arrived,
                                    Written, Read
  <1> QED BY <1>4, <1>5, <1>6, <1>7, <1>8, <1>9 DEF Next, Subscriber

LEMMA PrintInit ==
    ASSUME SubscriberAssumption, Init
    PROVE  PrintInv
  <1>1. SubBase
    BY SubInit
  <1>2. /\ size = <<>> /\ pending = <<>> /\ sock = <<>> /\ closed = FALSE /\ pc = "select"
        /\ printed = <<>> /\ status = "run"
    BY DEF Init
  <1>3. /\ Len(size) = 0 /\ Len(pending) = 0 /\ Len(printed) = 0
        /\ DOMAIN pending = {} /\ DOMAIN sock = {} /\ DOMAIN printed = {}
    BY <1>2
  <1>4. Arrived = 0 /\ Read = 0
    BY <1>2, <1>3 DEF Arrived, Written, Read
  <1>5. InPieces /\ OnTheirWay /\ Reading
    BY <1>2, <1>3 DEF InPieces, OnTheirWay, Reading
  <1>6. InStep
    BY <1>2, <1>4 DEF InStep
  <1> QED BY <1>1, <1>5, <1>6 DEF PrintInv, WholeInv

\* When what is written arrives as it was, every packet that is printed is the one
\* the server wrote, each once and in order, and no recv() goes over its buffer.
THEOREM PacketsAsWritten == Spec => []PrintsPackets
  <1> USE SubscriberAssumption
  <1>1. Init => PrintInv
    BY PrintInit
  <1>2. PrintInv /\ [Next]_vars => PrintInv'
    <2> SUFFICES ASSUME PrintInv, [Next]_vars PROVE PrintInv'
      OBVIOUS
    <2>1. SubBase'
      BY SubNext DEF PrintInv
    <2>2. CASE Next
      BY <2>1, <2>2, PrintNext
    <2>3. CASE UNCHANGED vars
      <3>1. /\ size' = size /\ pending' = pending /\ closed' = closed /\ sock' = sock
            /\ pc' = pc /\ dim' = dim /\ received' = received /\ tcp_buff' = tcp_buff
            /\ printed' = printed /\ status' = status /\ habits' = habits
        BY <2>3 DEF vars, network, reader
      <3>2. \A k : packet(k)' = packet(k)
        BY <3>1 DEF packet
      <3> QED BY <2>1, <3>1, <3>2 DEF PrintInv, Whole, WholeInv, InPieces, InStep, OnTheirWay,
                                      Reading, SegAt, Arrived, Written, Read
    <2> QED BY <2>2, <2>3
  <1>3. PrintInv => PrintsPackets
    BY DEF PrintInv, Whole, WholeInv, Reading, PrintsPackets
  <1> QED BY <1>1, <1>2, <1>3, PTL DEF Spec
=============================================================================
