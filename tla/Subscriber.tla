----------------------------- MODULE Subscriber -----------------------------
(***************************************************************************)
(* The subscriber: the loop of subscriber.c over terminal and socket, with *)
(* what server.c does about the actions of this one connection (for the    *)
(* server with many of them see Broker, where a packet is written as one   *)
(* unit and read by somebody who cares).                                   *)
(*                                                                         *)
(* What the server writes is a stream of bytes: for each packet the field  *)
(* with its size, then that many bytes.  Nothing in the stream marks where *)
(* a packet begins.  recv() returns what has arrived, as far as there is   *)
(* room for it.                                                            *)
(***************************************************************************)
EXTENDS Integers, Sequences

CONSTANTS
    Topic, Junk,    \* topics, and what uninitialized memory has for one
    HDR,            \* bytes of the size field (10)
    Dims,           \* sizes of packets
    TCP_SIZE,       \* room for a packet
    Habits,         \* what may happen: sets of "again" (a topic is subscribed
                    \* to twice), "unknown" (a line that is no command),
                    \* "newline" (unsubscribe without a blank at the end),
                    \* "eof" (the terminal is closed), "split" (TCP delivers
                    \* parts of what was written), "close" (the server leaves)
    MaxLines, MaxActions, MaxPackets    \* bounds: of lines typed, of actions
                                        \* sent, of packets written

ASSUME SubscriberAssumption ==
    /\ Junk \notin Topic
    /\ HDR \in Nat \ {0} /\ TCP_SIZE \in Nat /\ Dims \subseteq 1..TCP_SIZE
    /\ Habits \subseteq SUBSET {"again", "unknown", "newline", "eof", "split", "close"}
    /\ MaxLines \in Nat /\ MaxActions \in Nat /\ MaxPackets \in Nat

\* The struct Action; newline: the topic has one at its end.
Action == [type : {"subscribe", "unsubscribe"}, topic : Topic \cup {Junk},
           newline : BOOLEAN]
Line   == Action \cup {[type |-> t] : t \in {"exit", "unknown", "eof"}}
NoLine == [type |-> "none"]
\* A byte: which it is of which packet, its size field included.
Byte   == [n : 1..MaxPackets, k : Nat \ {0}]

VARIABLES
    line, typed,        \* the terminal: line to be read, lines so far
    told,               \* topics the user has been told to be subscribed to
    action, acts,       \* the structure, actions sent
    up, slots,          \* to the server; topics of the client there
    size,               \* the packets the server has written
    pending, sock, closed,      \* writes that have not arrived; bytes that have
    pc, dim, received, tcp_buff, printed, status,
    habits

terminal == <<line, typed, told, action, acts>>
network  == <<size, pending, closed>>
reader   == <<pc, dim, received, tcp_buff, printed>>
vars     == <<terminal, up, slots, network, sock, reader, status, habits>>

frame(n, j) == [k \in 1..j |-> [n |-> n, k |-> k]]
header(n)   == frame(n, HDR)
packet(n)   == [k \in 1..size[n] |-> [n |-> n, k |-> HDR + k]]

Init ==
    /\ line = NoLine /\ typed = 0 /\ told = {}
    /\ action = [type |-> "subscribe", topic |-> Junk, newline |-> FALSE]
    /\ acts = 0 /\ up = <<>> /\ slots = <<>>
    /\ size = <<>> /\ pending = <<>> /\ sock = <<>> /\ closed = FALSE
    /\ pc = "select" /\ dim = 0 /\ received = 0 /\ tcp_buff = <<>>
    /\ printed = <<>> /\ status = "run"
    /\ habits \in Habits

-----------------------------------------------------------------------------
(* The terminal, which is looked at first.                                  *)

\* Variant: the line is sent, not the structure.
sendsLine(l) == acts' = acts + 1 /\ up' = Append(up, l)
sends(l) == acts' = acts + 1 /\ up' = Append(up, action')

ReadLine ==
    /\ pc = "select" /\ line # NoLine /\ acts < MaxActions
    /\ line' = IF line.type = "eof" THEN line ELSE NoLine
    /\ \/ /\ line.type = "exit"
          /\ status' = "exit" /\ UNCHANGED <<action, told, acts, up>>
       \/ /\ line.type = "subscribe"
          /\ action' = line /\ told' = told \cup {line.topic}
          /\ sends(line) /\ UNCHANGED status
       \/ /\ line.type = "unsubscribe"
          /\ action' = line /\ told' = told \ {line.topic}
          /\ sends(line) /\ UNCHANGED status
       \/ /\ line.type \in {"unknown", "eof"}
          /\ UNCHANGED <<action, told, status>> /\ sends(line)
    /\ UNCHANGED <<typed, slots, network, sock, reader, habits>>

-----------------------------------------------------------------------------
(* The socket.                                                              *)

\* recv() of at most n bytes, to the beginning of a buffer.
took(n) == IF Len(sock) < n THEN Len(sock) ELSE n
over(c, b) == [k \in 1..(IF Len(c) > Len(b) THEN Len(c) ELSE Len(b)) |->
                  IF k <= Len(c) THEN c[k] ELSE b[k]]
chunk(n) == SubSeq(sock, 1, took(n))
recv(n) == sock # <<>> /\ sock' = SubSeq(sock, took(n) + 1, Len(sock))

\* What parts of a size field, or bytes that are none, are taken to be.
atoi(b) ==
    {size[n] : n \in {n \in DOMAIN size : b = header(n)}}
    \cup (IF \E n \in DOMAIN size : b = header(n) THEN {} ELSE 0..(TCP_SIZE + 1))

\* Variant: the loop goes on when everything is there.
ExpectsMore(got, d) == got <= d
Expects(got, d) == got < d

\* Variant: the buffer keeps what the last packet has left.
clearedNot == tcp_buff
cleared == <<>>

print(b) == printed' = Append(printed, b) /\ pc' = "select"

\* The size, with one recv(), unless there is a line.
RecvSize ==
    /\ pc = "select" /\ line = NoLine /\ recv(HDR)
    /\ dim' \in atoi(chunk(HDR)) /\ received' = 0 /\ tcp_buff' = cleared
    /\ \/ Expects(0, dim') /\ pc' = "packet" /\ UNCHANGED printed
       \/ ~Expects(0, dim') /\ print(<<>>)
    /\ UNCHANGED <<terminal, up, slots, network, status, habits>>

\* Each recv() asks for the whole packet, and puts it at the beginning.
RecvPacket ==
    /\ pc = "packet" /\ recv(dim)
    /\ received' = received + took(dim)
    /\ tcp_buff' = over(chunk(dim), tcp_buff)
    /\ status' = IF took(dim) > TCP_SIZE THEN "undefined" ELSE "run"
    /\ \/ Expects(received', dim) /\ UNCHANGED <<pc, printed>>
       \/ ~Expects(received', dim) /\ print(tcp_buff')
    /\ UNCHANGED <<terminal, up, slots, network, dim, habits>>

\* recv() returns 0: the program ends, or prints what it has.
RecvNothing ==
    /\ sock = <<>> /\ pending = <<>> /\ closed
    /\ \/ /\ pc = "select" /\ line = NoLine
          /\ status' = "exit" /\ UNCHANGED <<pc, printed>>
       \/ pc = "packet" /\ print(tcp_buff) /\ UNCHANGED status
    /\ UNCHANGED <<terminal, up, slots, network, sock, dim, received, tcp_buff,
                   habits>>

Subscriber == ReadLine \/ RecvSize \/ RecvPacket \/ RecvNothing

-----------------------------------------------------------------------------
(* The server, as far as this client is concerned, and the connection.      *)

named(k, a) == slots[k].topic = a.topic /\ slots[k].newline = a.newline
\* Variant: the last slot is not looked at.
IsBlankedButLast(k, a) ==
    k < Len(slots) /\ named(k, a) /\ \A j \in 1..(k - 1) : ~named(j, a)
IsBlanked(k, a) == named(k, a) /\ \A j \in 1..(k - 1) : ~named(j, a)

Blank == [topic |-> Junk, newline |-> TRUE]

added(a) == Append(slots, [topic |-> a.topic, newline |-> a.newline])

\* Whatever is not "unsubscribe" is a subscription.
HandleAction ==
    /\ up # <<>> /\ up' = Tail(up)
    /\ slots' = IF Head(up).type = "unsubscribe"
                THEN [k \in DOMAIN slots |->
                        IF IsBlanked(k, Head(up)) THEN Blank ELSE slots[k]]
                ELSE added(Head(up))
    /\ UNCHANGED <<terminal, network, sock, reader, status, habits>>

\* Two writes for a packet.
SendTcp ==
    /\ ~closed /\ Len(size) < MaxPackets
    /\ \E d \in Dims :
          /\ size' = Append(size, d)
          /\ pending' = pending \o
               <<frame(Len(size) + 1, HDR),
                 [k \in 1..d |-> [n |-> Len(size) + 1, k |-> HDR + k]]>>
    /\ UNCHANGED <<terminal, up, slots, closed, sock, reader, status, habits>>

Close ==
    /\ "close" \in habits /\ ~closed /\ closed' = TRUE
    /\ UNCHANGED <<terminal, up, slots, size, pending, sock, reader, status, habits>>

\* What has been written arrives, as it was or in parts.
Arrive ==
    /\ pending # <<>>
    /\ \E n \in 1..Len(Head(pending)) :
          /\ n = Len(Head(pending)) \/ "split" \in habits
          /\ sock' = sock \o SubSeq(Head(pending), 1, n)
          /\ pending' = IF n = Len(Head(pending)) THEN Tail(pending)
                        ELSE <<SubSeq(Head(pending), n + 1, Len(Head(pending)))>>
                               \o Tail(pending)
    /\ UNCHANGED <<terminal, up, slots, size, closed, reader, status, habits>>

\* Lines of a user with the habits of this run.
Type ==
    /\ line = NoLine /\ typed < MaxLines /\ typed' = typed + 1
    /\ line' \in Line
    /\ line'.type = "subscribe" =>
          /\ line'.topic \in Topic /\ ~line'.newline
          /\ "again" \in habits \/ line'.topic \notin told
    /\ line'.type = "unsubscribe" =>
          line'.topic \in Topic /\ (line'.newline => "newline" \in habits)
    /\ line'.type \in {"unknown", "eof"} => line'.type \in habits
    /\ UNCHANGED <<told, action, acts, up, slots, network, sock, reader, status,
                   habits>>

Next ==
    /\ status = "run"
    /\ Subscriber \/ HandleAction \/ SendTcp \/ Close \/ Arrive \/ Type

Spec == Init /\ [][Next]_vars

\* The program runs, what is written arrives.  Users type, and the server
\* writes, as they like.
Fairness ==
    WF_vars(status = "run" /\ Subscriber) /\ WF_vars(status = "run" /\ Arrive)
FairSpec == Spec /\ Fairness

-----------------------------------------------------------------------------
(* Properties                                                               *)

TypeOK ==
    /\ line \in Line \cup {NoLine} /\ typed \in 0..MaxLines
    /\ told \subseteq Topic /\ action \in Action /\ acts \in 0..MaxActions
    /\ up \in Seq(Action)
    /\ slots \in Seq([topic : Topic \cup {Junk}, newline : BOOLEAN])
    /\ size \in Seq(Dims) /\ Len(size) <= MaxPackets
    /\ pending \in Seq(Seq(Byte)) /\ sock \in Seq(Byte) /\ closed \in BOOLEAN
    /\ pc \in {"select", "packet"} /\ dim \in 0..(TCP_SIZE + 1) /\ received \in Nat
    /\ tcp_buff \in Seq(Byte) /\ printed \in Seq(Seq(Byte))
    /\ status \in {"run", "exit", "undefined"} /\ habits \in Habits

Served == {slots[k].topic : k \in {k \in DOMAIN slots : ~slots[k].newline}}

\* Once the server has handled what was sent, every topic that the user has been
\* told about is one it sends packets of, whatever has been typed; and no other is,
\* if nothing is typed but commands, in order.
ToldIsServed ==
    up = <<>> =>
        /\ told \subseteq Served
        /\ habits \subseteq {"split", "close"} => Served = told

\* When TCP delivers what was written in one piece, the packets are printed as
\* they are, each of them once, however many wait and whatever is typed, and the
\* buffer is not overrun.
PrintsPackets ==
    habits \cap {"split", "close"} = {} =>
        /\ \A k \in DOMAIN printed : printed[k] = packet(k)
        /\ status # "undefined"

\* And all of them are, unless the terminal's end keeps the program busy.
PrintsAll ==
    \A n \in 1..MaxPackets :
        (Len(size) >= n /\ habits \cap {"split", "close", "eof"} = {})
            ~> (Len(printed) >= n \/ status # "run")
=============================================================================
