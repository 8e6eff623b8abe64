---------------------------- MODULE BrokerProofs ----------------------------
(* Proofs about Broker, for every number of IDs, connections, topics,        *)
(* descriptors, packets and actions.                                         *)
EXTENDS Broker, FiniteSetTheorems, SequenceTheorems, TLAPS

USE BrokerAssumption

-----------------------------------------------------------------------------
(* The operators on slots.                                                   *)

\* A sequence rebuilt element by element, as the loops over an array do.
LEMMA RemapIsSeq ==
    ASSUME NEW S, NEW T, NEW q \in Seq(S), NEW f \in [DOMAIN q -> T]
    PROVE  f \in Seq(T) /\ Len(f) = Len(q) /\ DOMAIN f = DOMAIN q
  BY SMT

\* What a subscriber writes names a topic, or in the ID's case none.
LEMMA ActionFields ==
    ASSUME NEW a \in Action \cup {Hello}
    PROVE  a.topic \in TopicName /\ a.sf \in BOOLEAN
  <1>1. CASE a = Hello
    BY <1>1 DEF Hello, TopicName
  <1>2. CASE a \in [type : {"subscribe"}, topic : Topic, sf : BOOLEAN]
    BY <1>2 DEF TopicName
  <1>3. CASE a \in [type : {"unsubscribe"}, topic : Topic, sf : {FALSE}]
    BY <1>3 DEF TopicName
  <1> QED BY <1>1, <1>2, <1>3 DEF Action

\* Each operation on a slot returns a slot.
LEMMA SlotTypes ==
    ASSUME NEW sl \in Slot, NEW m \in Packet, NEW a \in Action \cup {Hello}
    PROVE  /\ Stored(sl, m) \in Slot
           /\ Shelved(sl) \in Slot
           /\ Emptied(sl) \in Slot
           /\ new_topic(a) \in Slot
           /\ [sl EXCEPT !.topic = Blank] \in Slot
  <1>1. sl.tcps \in Seq(Packet) /\ sl.cap \in Nat /\ sl.sf \in BOOLEAN
        /\ sl.topic \in TopicName /\ sl.array \in {"null", "live", "freed"}
    BY DEF Slot
  <1>2. Append(sl.tcps, m) \in Seq(Packet) /\ Len(sl.tcps) \in Nat
    BY <1>1
  <1>3. Stored(sl, m) \in Slot
    BY <1>1, <1>2 DEF Slot, Stored
  <1>4. Shelved(sl) \in Slot /\ Emptied(sl) \in Slot
    BY <1>1 DEF Slot, Shelved, Emptied
  <1>a. a.topic \in TopicName /\ a.sf \in BOOLEAN
    BY ActionFields
  <1>b. <<>> \in Seq(Packet)
    OBVIOUS
  <1>5. new_topic(a) \in Slot
    BY <1>a, <1>b DEF Slot, new_topic
  <1>6. [sl EXCEPT !.topic = Blank] \in Slot
    BY DEF Slot, TopicName
  <1> QED BY <1>3, <1>4, <1>5, <1>6

\* The numbers of the packets in a slot are numbers of datagrams.
LEMMA PacketsInType ==
    ASSUME NEW sl \in Slot
    PROVE  PacketsIn(sl) \subseteq 1..MaxMsgs
  <1>1. sl.tcps \in Seq(Packet)
    BY DEF Slot
  <1>2. \A p \in DOMAIN sl.tcps : sl.tcps[p] \in Packet
    BY <1>1
  <1> QED BY <1>2 DEF PacketsIn, Packet

-----------------------------------------------------------------------------
(* Type correctness.                                                         *)

\* What the current round rests on: a descriptor in it still has what select()
\* saw, and the connection the accept handler works on is open.
Round == status = "run" =>
    /\ tcp_socket \in tmp_fds => backlog # <<>>
    /\ udp_socket \in tmp_fds => udpq # <<>>
    /\ read_fds \cap ClientFd \subseteq OpenFd
    /\ tmp_fds \subseteq read_fds
    /\ pc = "loop" => newtcp_socket = NoFd
    /\ pc # "loop" => newtcp_socket \in OpenFd \ tmp_fds

\* How many clients a packet is written to over one connection is a number.
LEMMA CopiesType ==
    ASSUME NEW P \in SUBSET ClientId
    PROVE  Cardinality(P) \in Nat
  <1>1. IsFiniteSet(ClientId)
    BY FS_AddElement DEF BrokerAssumption, ClientId
  <1> QED BY <1>1, FS_Subset, FS_CardinalityType

LEMMA InitStructure == Init => TypeOK /\ Round
  BY DEF Init, TypeOK, Round, OpenFd, ClientFd, Fd, ClientId, NoFd, tcp_socket,
         udp_socket, stdin_fd, BrokerAssumption

\* send_tcp keeps the types of what it changes.
LEMMA SendTcpType ==
    ASSUME TypeOK, NEW m \in Packet, send_tcp(m)
    PROVE  /\ topics' \in [ClientId -> Seq(Slot)]
           /\ got' \in [Session -> Seq(Packet)]
           /\ peer' \in [Session -> {"none", "connecting", "open", "fin", "rst",
                                     "refused"}]
           /\ status' \in {"run", "stopped", "died", "undefined"}
  <1>1. topics' \in [ClientId -> Seq(Slot)]
    <2>1. ASSUME NEW c \in ClientId
          PROVE  [k \in DOMAIN topics[c] |->
                    IF StoresAt(c, k, m) THEN Stored(topics[c][k], m)
                                         ELSE topics[c][k]] \in Seq(Slot)
      <3>1. topics[c] \in Seq(Slot)
        BY DEF TypeOK
      <3>2. \A k \in DOMAIN topics[c] : topics[c][k] \in Slot
        BY <3>1
      <3>3. \A k \in DOMAIN topics[c] : Stored(topics[c][k], m) \in Slot
        BY <3>2, SlotTypes
      <3> QED BY <3>1, <3>2, <3>3, RemapIsSeq
    <2> QED BY <2>1 DEF send_tcp
  <1>2. got' \in [Session -> Seq(Packet)]
    <2> DEFINE to == {c \in Receivers(m) : conn[socket[c]] # NoSession}
               copies(s) == Cardinality({c \in to : conn[socket[c]] = s})
    <2>1. to \subseteq ClientId
      BY DEF Receivers, Registered, TypeOK
    <2>2. ASSUME NEW s \in Session
          PROVE  got[s] \o [j \in 1..copies(s) |-> m] \in Seq(Packet)
      <3>1. copies(s) \in Nat
        BY <2>1, CopiesType
      <3> HIDE DEF copies
      <3>2. [j \in 1..copies(s) |-> m] \in Seq(Packet)
        BY <3>1
      <3> QED BY <3>2 DEF TypeOK
    <2>3. got' = [s \in Session |-> got[s] \o [j \in 1..copies(s) |-> m]]
      BY DEF send_tcp
    <2> QED BY <2>2, <2>3
  <1>3. peer' \in [Session -> {"none", "connecting", "open", "fin", "rst",
                               "refused"}]
    BY DEF send_tcp, SendSurvives, TypeOK
  <1> QED BY <1>1, <1>2, <1>3 DEF send_tcp

\* Every step keeps the types and the round.
LEMMA StepStructure ==
    ASSUME TypeOK, Round, [Next]_vars
    PROVE  TypeOK' /\ Round'
  <1> USE DEF heap, rest, kernel
  <1>1. CASE UNCHANGED vars
    BY <1>1 DEF vars, TypeOK, Round, OpenFd
  <1> SUFFICES ASSUME status = "run", ServerStep \/ Environment
               PROVE  TypeOK' /\ Round'
    BY <1>1 DEF Next
  <1>2. CASE Select
    <2>1. /\ pc = "loop" /\ tmp_fds' \subseteq read_fds
          /\ \A f \in tmp_fds' : Ready(f)
          /\ UNCHANGED <<heap, rest, read_fds, fdmax, pc, newtcp_socket, client,
                         slot, status, conn, peer, got, udpq, console>>
      BY <1>2 DEF Select
    <2>2. TypeOK'
      BY <2>1 DEF TypeOK
    <2>3. Ready(tcp_socket) => backlog # <<>>
      BY DEF Ready, ClientFd, tcp_socket, stdin_fd, udp_socket, BrokerAssumption
    <2>4. Ready(udp_socket) => udpq # <<>>
      BY DEF Ready, ClientFd, tcp_socket, stdin_fd, udp_socket, BrokerAssumption
    <2> QED BY <2>1, <2>2, <2>3, <2>4 DEF Round, OpenFd
  <1>3. CASE Accept
    <2>1. CASE Dies
      BY <1>3, <2>1 DEF Dies, TypeOK, Round, OpenFd
    <2>2. ASSUME NEW f \in ClientFd, conn[f] = NoSession, tcp_socket \in tmp_fds,
                 tmp_fds' = tmp_fds \ {tcp_socket},
                 read_fds' = read_fds \cup {f},
                 fdmax' = IF f > fdmax THEN f ELSE fdmax,
                 conn' = [conn EXCEPT ![f] = Head(backlog)],
                 backlog' = Tail(backlog), newtcp_socket' = f, pc' = "recvid",
                 UNCHANGED <<heap, client, slot, status, peer, up, got, udpq,
                             sent, acts, console>>
          PROVE  TypeOK' /\ Round'
      <3>1. Head(backlog) \in Session /\ Tail(backlog) \in Seq(Session)
        BY <2>2 DEF TypeOK, Round
      <3>2. TypeOK'
        BY <2>2, <3>1 DEF TypeOK, Fd
      <3>3. Round'
        BY <2>2, <3>1 DEF TypeOK, Round, OpenFd, ClientFd, tcp_socket, udp_socket,
                          BrokerAssumption
      <3> QED BY <3>2, <3>3
    <2> QED BY <1>3, <2>1, <2>2 DEF Accept, Turn
  <1>4. CASE RecvId
    <2> DEFINE f  == newtcp_socket
               s  == conn[f]
               id == IF up[s] = <<>> THEN NoId ELSE SessId[s]
    <2>1. f \in ClientFd /\ s \in Session /\ id \in ClientId /\ f \notin tmp_fds
      BY <1>4 DEF RecvId, Round, OpenFd, TypeOK, ClientId, BrokerAssumption
    <2>2. up' = [up EXCEPT ![s] = <<>>]
          /\ UNCHANGED <<freed, tmp_fds, status, backlog, got, udpq, sent, acts,
                         console>>
      BY <1>4 DEF RecvId
    <2>3. up' \in [Session -> Seq(Action \cup {Hello})]
      BY <2>1, <2>2 DEF TypeOK
    <2>4. CASE /\ add_new_client(id, f)
               /\ pc' = "loop" /\ newtcp_socket' = NoFd
               /\ UNCHANGED <<read_fds, fdmax, conn, client, slot, peer>>
      BY SMTT(20), <2>1, <2>2, <2>3, <2>4 DEF add_new_client, TypeOK, Round, OpenFd
    <2>5. CASE /\ CloseFd(f)
               /\ peer' = [peer EXCEPT ![s] = IF @ = "open" THEN "refused" ELSE @]
               /\ pc' = "loop" /\ newtcp_socket' = NoFd
               /\ UNCHANGED <<clients, connected, socket, topics, client, slot>>
      BY <2>1, <2>2, <2>3, <2>5 DEF CloseFd, TypeOK, Round, OpenFd
    <2>6. CASE /\ begin_reconnect(id, f)
               /\ pc' = "flush"
               /\ UNCHANGED <<clients, connected, topics, read_fds, fdmax, conn,
                              newtcp_socket, peer>>
      BY <1>4, <2>1, <2>2, <2>3, <2>6 DEF RecvId, begin_reconnect, TypeOK, Round,
                                          OpenFd
    <2> QED BY <1>4, <2>4, <2>5, <2>6 DEF RecvId
  <1>5. CASE FlushSlot
    <2> DEFINE s  == conn[newtcp_socket]
               sl == topics[client][slot]
    <2>0. topics[client] \in Seq(Slot) /\ slot \in DOMAIN topics[client]
      BY <1>5 DEF FlushSlot, TypeOK
    <2>1. sl \in Slot /\ sl.tcps \in Seq(Packet)
      <3>1. sl \in Slot
        BY <2>0
      <3> QED BY <3>1 DEF Slot
    <2>a. s \in Session
      BY <1>5 DEF FlushSlot, Round, OpenFd, TypeOK
    <2>2. got' \in [Session -> Seq(Packet)]
      <3>1. got' = got \/ got' = [got EXCEPT ![s] = @ \o sl.tcps]
        BY <1>5 DEF FlushSlot
      <3>2. got[s] \o sl.tcps \in Seq(Packet)
        BY <2>1, <2>a DEF TypeOK
      <3> QED BY <3>1, <3>2, <2>a DEF TypeOK
    <2>3. peer' \in [Session -> {"none", "connecting", "open", "fin", "rst",
                                 "refused"}]
      <3>1. peer' = peer \/ SendSurvives({s})
        BY <1>5 DEF FlushSlot
      <3> QED BY <3>1 DEF SendSurvives, TypeOK
    <2>4. slot' \in Nat /\ status' \in {"run", "stopped", "died", "undefined"}
      <3>1. slot' \in {slot, slot + 1} /\ status' \in {status, "died", "undefined"}
        BY <1>5 DEF FlushSlot
      <3> QED BY <3>1 DEF TypeOK
    <2>5. UNCHANGED <<heap, rest, read_fds, tmp_fds, fdmax, pc, newtcp_socket,
                      client, conn, udpq, console>>
      BY <1>5 DEF FlushSlot
    <2> QED BY <2>2, <2>3, <2>4, <2>5 DEF TypeOK, Round, OpenFd
  <1>6. CASE EndReconnect
    <2>1. client \in ClientId /\ topics[client] \in Seq(Slot)
      BY DEF TypeOK
    <2>2. \A k \in DOMAIN topics[client] :
             /\ topics[client][k] \in Slot
             /\ Emptied(topics[client][k]) \in Slot
             /\ PacketsIn(topics[client][k]) \subseteq 1..MaxMsgs
      <3>1. \A k \in DOMAIN topics[client] : topics[client][k] \in Slot
        BY <2>1
      <3>2. <<>> \in Seq(Packet)
        OBVIOUS
      <3>3. \A sl \in Slot : Emptied(sl) \in Slot
        BY <3>2 DEF Slot, Emptied
      <3> QED BY <3>1, <3>3, PacketsInType
    <2>3. [k \in DOMAIN topics[client] |-> Emptied(topics[client][k])] \in Seq(Slot)
      BY <2>1, <2>2, RemapIsSeq
    <2>4. topics' \in [ClientId -> Seq(Slot)]
      BY <1>6, <2>1, <2>3 DEF EndReconnect, TypeOK
    <2>5. freed' \subseteq 1..MaxMsgs
      BY <1>6, <2>2 DEF EndReconnect, TypeOK
    <2> QED
      BY <1>6, <2>1, <2>4, <2>5 DEF EndReconnect, TypeOK, Round, OpenFd, ClientId
  <1>7. CASE ReceiveDatagram
    <2> DEFINE m   == Head(udpq)
               pkt == udp_to_tcp(m)
    <2>1. CASE Dies
      BY <2>1 DEF Dies, TypeOK, Round, OpenFd
    <2>2. CASE /\ udpq' = Tail(udpq)
               /\ send_tcp(pkt)
               /\ tmp_fds' = tmp_fds \ {udp_socket}
               /\ UNCHANGED <<clients, connected, socket, freed, rest, read_fds,
                              fdmax, pc, newtcp_socket, client, slot, conn,
                              console>>
      <3>1. udpq \in Seq(Datagram) /\ udpq # <<>>
        BY <1>7 DEF ReceiveDatagram, Turn, Round, TypeOK
      <3>2. m \in Datagram /\ Tail(udpq) \in Seq(Datagram)
        BY <3>1
      <3>3. pkt \in Packet
        BY <3>2 DEF udp_to_tcp, Datagram, Packet
      <3> HIDE DEF pkt
      <3>4. /\ topics' \in [ClientId -> Seq(Slot)]
            /\ got' \in [Session -> Seq(Packet)]
            /\ peer' \in [Session -> {"none", "connecting", "open", "fin", "rst",
                                      "refused"}]
            /\ status' \in {"run", "stopped", "died", "undefined"}
        BY <2>2, <3>3, SendTcpType
      <3> QED BY <2>2, <3>2, <3>4 DEF TypeOK, Round, OpenFd, ClientFd, tcp_socket,
                                      udp_socket
    <2> QED BY <1>7, <2>1, <2>2 DEF ReceiveDatagram
  <1>8. CASE ReadConsole
    <2>1. conn' \in [ClientFd -> Session \cup {NoSession}]
      BY <1>8 DEF ReadConsole, close_sockets, TypeOK
    <2>2. \A f \in ClientFd : conn'[f] \in {conn[f], NoSession}
      BY <1>8 DEF ReadConsole, close_sockets, TypeOK
    <2>3. /\ tmp_fds' \in SUBSET tmp_fds
          /\ console' \in {console, "none"}
          /\ status' = "run" => conn' = conn
          /\ status' \in {"run", "stopped", "undefined"}
          /\ UNCHANGED <<heap, rest, read_fds, fdmax, pc, newtcp_socket, client,
                         slot, peer, got, udpq>>
      BY <1>8 DEF ReadConsole
    <2>4. TypeOK'
      BY <2>1, <2>3 DEF TypeOK
    <2>5. Round'
      BY <2>3 DEF Round, OpenFd
    <2> QED BY <2>4, <2>5
  <1>9. ASSUME NEW i \in ClientFd, ReceiveAction(i) PROVE TypeOK' /\ Round'
    <2> DEFINE s == conn[i]
               a == Head(up[s])
    <2>1. s \in Session
      BY <1>9 DEF ReceiveAction, Turn, Round, OpenFd, TypeOK
    <2>2. up[s] \in Seq(Action \cup {Hello}) /\ up[s] # <<>>
      BY <1>9, <2>1 DEF ReceiveAction, TypeOK
    <2>3. a \in Action \cup {Hello} /\ Tail(up[s]) \in Seq(Action \cup {Hello})
      BY <2>2
    <2>4. up' \in [Session -> Seq(Action \cup {Hello})]
      BY <1>9, <2>1, <2>3 DEF ReceiveAction, TypeOK
    <2>5. new_topic(a) \in Slot /\ \A sl \in Slot : [sl EXCEPT !.topic = Blank] \in Slot
      <3>1. a.topic \in TopicName /\ a.sf \in BOOLEAN
        BY <2>3, ActionFields
      <3>2. <<>> \in Seq(Packet)
        OBVIOUS
      <3> HIDE DEF a
      <3> QED BY <3>1, <3>2 DEF new_topic, Slot, TopicName
    <2> HIDE DEF a, s
    <2>6. CASE subscribe_to_topic(a, i)
      <3>1. topics' \in [ClientId -> Seq(Slot)]
        BY <2>5, <2>6 DEF subscribe_to_topic, TypeOK
      <3> QED BY <1>9, <2>4, <3>1 DEF ReceiveAction, TypeOK, Round, OpenFd
    <2>7. CASE unsubscribe(a, i)
      <3>1. ASSUME NEW c \in ClientId
            PROVE  [k \in DOMAIN topics[c] |->
                      IF IsUnsubscribed(c, k, a.topic, i)
                      THEN [topics[c][k] EXCEPT !.topic = Blank]
                      ELSE topics[c][k]] \in Seq(Slot)
        <4>1. topics[c] \in Seq(Slot)
          BY DEF TypeOK
        <4>2. \A k \in DOMAIN topics[c] : topics[c][k] \in Slot
          BY <4>1
        <4> QED BY <2>5, <4>1, <4>2, RemapIsSeq
      <3>2. topics' \in [ClientId -> Seq(Slot)]
        BY <2>7, <3>1 DEF unsubscribe
      <3> QED BY <1>9, <2>4, <3>2 DEF ReceiveAction, TypeOK, Round, OpenFd
    <2> QED BY <1>9, <2>6, <2>7 DEF ReceiveAction, a, s
  <1>10. ASSUME NEW i \in ClientFd, ReceiveEnd(i) PROVE TypeOK' /\ Round'
    <2>1. CASE Dies
      BY <2>1 DEF Dies, TypeOK, Round, OpenFd
    <2>2. CASE /\ disconnect_subscriber(i)
               /\ CloseFd(i)
               /\ tmp_fds' = tmp_fds \ {i}
               /\ UNCHANGED <<clients, socket, freed, rest, pc, newtcp_socket,
                              client, slot, status, peer, got, udpq, console>>
      <3>1. ASSUME NEW c \in ClientId
            PROVE  [k \in DOMAIN topics[c] |->
                      IF IsOwner(c, i) THEN Shelved(topics[c][k])
                                       ELSE topics[c][k]] \in Seq(Slot)
        <4>1. topics[c] \in Seq(Slot)
          BY DEF TypeOK
        <4>2. \A k \in DOMAIN topics[c] : topics[c][k] \in Slot
          BY <4>1
        <4>3. <<>> \in Seq(Packet)
          OBVIOUS
        <4>4. \A sl \in Slot : Shelved(sl) \in Slot
          BY <4>3, BrokerAssumption DEF Slot, Shelved
        <4> QED BY <4>1, <4>2, <4>4, RemapIsSeq
      <3>2. topics' \in [ClientId -> Seq(Slot)]
        BY <2>2, <3>1 DEF disconnect_subscriber
      <3>3. connected' \in [ClientId -> BOOLEAN]
        BY <2>2 DEF disconnect_subscriber, TypeOK
      <3>4. pc = "loop"
        BY <1>10 DEF ReceiveEnd, Turn
      <3> QED BY <2>2, <3>2, <3>3, <3>4 DEF CloseFd, TypeOK, Round, OpenFd
    <2> QED BY <1>10, <2>1, <2>2 DEF ReceiveEnd
  <1>11. ASSUME NEW s \in Session, Connect(s) PROVE TypeOK' /\ Round'
    <2>1. Append(backlog, s) \in Seq(Session) /\ Append(backlog, s) # <<>>
      <3>1. backlog \in Seq(Session)
        BY DEF TypeOK
      <3> QED BY <3>1, AppendProperties
    <2> QED BY <1>11, <2>1 DEF Connect, TypeOK, Round, OpenFd
  <1>12. ASSUME NEW s \in Session, SendId(s) PROVE TypeOK' /\ Round'
    <2>1. up' \in [Session -> Seq(Action \cup {Hello})]
      BY <1>12 DEF SendId, TypeOK
    <2>2. peer' \in [Session -> {"none", "connecting", "open", "fin", "rst", "refused"}]
      BY <1>12 DEF SendId, TypeOK
    <2>3. TypeOK'
      BY <1>12, <2>1, <2>2 DEF SendId, TypeOK
    <2>4. Round'
      BY <1>12 DEF SendId, Round, OpenFd
    <2> QED BY <2>3, <2>4
  <1>13. ASSUME NEW s \in Session, Leave(s) PROVE TypeOK' /\ Round'
    BY <1>13 DEF Leave, TypeOK, Round, OpenFd
  <1>14. ASSUME NEW s \in Session, NEW a \in SentActions, SendAction(s, a)
         PROVE  TypeOK' /\ Round'
    <2>1. up' \in [Session -> Seq(Action \cup {Hello})]
      BY <1>14 DEF SendAction, TypeOK, BrokerAssumption
    <2>2. acts' \in 0..MaxActions
      BY <1>14 DEF SendAction, TypeOK, BrokerAssumption
    <2>3. TypeOK'
      BY <1>14, <2>1, <2>2 DEF SendAction, TypeOK
    <2>4. Round'
      BY <1>14 DEF SendAction, Round, OpenFd
    <2> QED BY <2>3, <2>4
  <1>15. ASSUME NEW t \in PubTopic, NEW ok \in BOOLEAN, Publish(t, ok)
         PROVE  TypeOK' /\ Round'
    <2> DEFINE d == [n |-> sent + 1, topic |-> t, ok |-> ok]
    <2>1. d \in Datagram /\ sent + 1 \in 0..MaxMsgs
      BY <1>15 DEF Publish, TypeOK, Datagram, TopicName, BrokerAssumption
    <2> HIDE DEF d
    <2>2. Append(udpq, d) \in Seq(Datagram) /\ Append(udpq, d) # <<>>
      <3>1. udpq \in Seq(Datagram)
        BY DEF TypeOK
      <3> QED BY <2>1, <3>1, AppendProperties
    <2>3. udpq' = Append(udpq, d) /\ sent' = sent + 1
      BY <1>15 DEF Publish, d
    <2> QED BY <1>15, <2>1, <2>2, <2>3 DEF Publish, TypeOK, Round, OpenFd
  <1>16. ASSUME NEW line \in Lines, TypeLine(line) PROVE TypeOK' /\ Round'
    BY <1>16 DEF TypeLine, TypeOK, Round, OpenFd
  <1> QED
    BY <1>2, <1>3, <1>4, <1>5, <1>6, <1>7, <1>8, <1>9, <1>10, <1>11, <1>12,
       <1>13, <1>14, <1>15, <1>16 DEF ServerStep, Environment

\* Every variable keeps its type, and no step works on a connection that is
\* closed or reads from an empty queue (TypeOK and what it rests on).
THEOREM TypeCorrect == Spec => [](TypeOK /\ Round)
  <1>1. Init => TypeOK /\ Round
    BY InitStructure
  <1>2. TypeOK /\ Round /\ [Next]_vars => TypeOK' /\ Round'
    BY StepStructure
  <1> QED BY <1>1, <1>2, PTL DEF Spec

-----------------------------------------------------------------------------
(* The books on descriptors.                                                 *)

\* A connection is in the backlog or behind one descriptor, never twice, and
\* never before its subscriber has called connect().
Placed ==
    /\ \A j, k \in DOMAIN backlog : backlog[j] = backlog[k] => j = k
    /\ \A j \in DOMAIN backlog : peer[backlog[j]] # "none"
    /\ \A f \in OpenFd : peer[conn[f]] # "none"
    /\ \A f \in OpenFd : \A j \in DOMAIN backlog : backlog[j] # conn[f]
    /\ \A f, g \in OpenFd : conn[f] = conn[g] => f = g

Books == Descriptors /\ Placed

LEMMA InitBooks == Init => Books /\ AllClosedAtStop
  BY DEF Init, Books, Placed, Descriptors, AllClosedAtStop, OpenFd, ClientFd, Fd,
         tcp_socket, udp_socket, stdin_fd

\* A step that opens, closes and connects nothing keeps the books.
LEMMA QuietBooks ==
    ASSUME TypeOK, TypeOK', Books, status = "run",
           UNCHANGED <<read_fds, fdmax, conn, backlog>>,
           tmp_fds' \subseteq read_fds,
           \A s \in Session : peer[s] # "none" => peer'[s] # "none"
    PROVE  Books'
  <1>1. OpenFd' = OpenFd
    BY DEF OpenFd
  <1>2. Descriptors'
    BY <1>1 DEF Books, Descriptors
  <1>3. \A j \in DOMAIN backlog : backlog[j] \in Session
    BY SMTT(20) DEF TypeOK
  <1>4. \A f \in OpenFd : conn[f] \in Session
    BY DEF TypeOK, OpenFd
  <1>5. Placed'
    BY <1>1, <1>3, <1>4 DEF Books, Placed
  <1> QED BY <1>2, <1>5 DEF Books

\* Closing an open descriptor that the rest of the round does not need.
LEMMA CloseFdBooks ==
    ASSUME TypeOK, TypeOK', Books, status = "run", NEW f \in OpenFd,
           CloseFd(f), tmp_fds' \subseteq tmp_fds \ {f}, backlog' = backlog,
           \A s \in Session : peer[s] # "none" => peer'[s] # "none"
    PROVE  Books'
  <1>1. OpenFd' = OpenFd \ {f}
    BY DEF CloseFd, OpenFd, TypeOK
  <1>2. /\ read_fds' = read_fds \ {f} /\ fdmax' \in read_fds'
        /\ fdmax' <= fdmax /\ \A j \in read_fds' : j <= fdmax => j <= fdmax'
    BY DEF CloseFd, ScanStopsAt
  <1>3. \A j \in read_fds : j <= fdmax
    BY DEF Books, Descriptors
  <1>5. \A g \in OpenFd' : conn'[g] = conn[g] /\ conn[g] \in Session
    BY <1>1 DEF CloseFd, TypeOK, OpenFd
  <1>4. Descriptors'
    <2>1. f \notin {stdin_fd, tcp_socket, udp_socket}
      BY DEF OpenFd, ClientFd, stdin_fd, tcp_socket, udp_socket, BrokerAssumption
    <2>2. read_fds' = {stdin_fd, tcp_socket, udp_socket} \cup OpenFd'
      BY <1>1, <1>2, <2>1 DEF Books, Descriptors
    <2>3. tmp_fds' \subseteq read_fds'
      BY <1>2 DEF Books, Descriptors
    <2>4. \A j \in read_fds' : j <= fdmax'
      BY <1>2, <1>3
    <2>5. \A g, h \in OpenFd' : conn'[g] = conn'[h] => g = h
      BY <1>1, <1>5 DEF Books, Placed
    <2> QED BY ONLY <1>2, <2>2, <2>3, <2>4, <2>5 DEF Descriptors
  <1>6. \A j \in DOMAIN backlog : backlog[j] \in Session
    <2>1. backlog \in Seq(Session)
      BY DEF TypeOK
    <2> QED BY ONLY <2>1
  <1>7. Placed'
    BY <1>1, <1>5, <1>6 DEF Books, Placed
  <1> QED BY <1>4, <1>7 DEF Books

\* accept(): the first connection of the backlog gets a free descriptor.
LEMMA AcceptBooks ==
    ASSUME TypeOK, TypeOK', Books, status = "run", backlog # <<>>,
           NEW f \in ClientFd, conn[f] = NoSession,
           tmp_fds' = tmp_fds \ {tcp_socket},
           read_fds' = read_fds \cup {f},
           fdmax' = IF f > fdmax THEN f ELSE fdmax,
           conn' = [conn EXCEPT ![f] = Head(backlog)],
           backlog' = Tail(backlog), peer' = peer
    PROVE  Books'
  <1>1. /\ Head(backlog) = backlog[1] /\ 1 \in DOMAIN backlog
        /\ Head(backlog) \in Session
        /\ \A j \in DOMAIN backlog' : /\ j + 1 \in DOMAIN backlog
                                      /\ backlog'[j] = backlog[j + 1]
                                      /\ j \in Nat \ {0}
    <2>1. backlog \in Seq(Session)
      BY DEF TypeOK
    <2>2. Head(backlog) = backlog[1] /\ 1 \in DOMAIN backlog
          /\ Head(backlog) \in Session
      BY <2>1
    <2>3. /\ Len(backlog') = Len(backlog) - 1 /\ DOMAIN backlog' = 1..Len(backlog')
          /\ \A j \in 1..Len(backlog') : backlog'[j] = backlog[j + 1]
      BY <2>1, HeadTailProperties
    <2>4. DOMAIN backlog = 1..Len(backlog) /\ Len(backlog) \in Nat
      BY <2>1
    <2> QED BY <2>2, <2>3, <2>4
  <1>2. OpenFd' = OpenFd \cup {f} /\ f \notin OpenFd
    <2>1. Head(backlog) # NoSession
      BY <1>1 DEF BrokerAssumption
    <2>2. conn \in [ClientFd -> Session \cup {NoSession}]
      BY DEF TypeOK
    <2>3. \A g \in ClientFd : conn'[g] = IF g = f THEN Head(backlog) ELSE conn[g]
      BY <2>2
    <2>4. f \notin OpenFd
      BY DEF OpenFd
    <2>5. \A g \in ClientFd : conn'[g] # NoSession <=> conn[g] # NoSession \/ g = f
      BY <2>1, <2>3
    <2> QED BY <2>4, <2>5 DEF OpenFd
  <1>3. \A g \in OpenFd : conn'[g] = conn[g]
    BY <1>2 DEF TypeOK, OpenFd
  <1>4. conn'[f] = Head(backlog)
    BY DEF TypeOK
  <1>5. Placed'
    BY <1>1, <1>2, <1>3, <1>4 DEF Books, Placed
  <1>6. \A g \in OpenFd : g <= fdmax
    BY DEF Books, Descriptors
  <1>7. fdmax \in Nat /\ f \in Nat /\ f > 4
    BY DEF TypeOK, Fd, ClientFd, stdin_fd, tcp_socket, udp_socket,
           BrokerAssumption
  <1>8. fdmax' \in read_fds' /\ \A g \in read_fds' : g <= fdmax'
    <2>1. read_fds' = {stdin_fd, tcp_socket, udp_socket} \cup OpenFd \cup {f}
      BY DEF Books, Descriptors
    <2>2. f <= fdmax' /\ fdmax <= fdmax' /\ 4 < fdmax'
      BY <1>7
    <2>3. \A g \in read_fds' : g <= fdmax'
      <3>1. \A g \in OpenFd : g \in Nat
        BY DEF OpenFd, ClientFd
      <3> QED BY <1>6, <1>7, <2>1, <2>2, <3>1 DEF stdin_fd, tcp_socket, udp_socket
    <2>4. CASE f > fdmax
      BY <2>1, <2>3, <2>4
    <2>5. CASE ~(f > fdmax)
      BY <1>7, <2>1, <2>3, <2>5 DEF Books, Descriptors, tcp_socket
    <2> QED BY <2>4, <2>5
  <1>9. Descriptors'
    <2>1. read_fds' = {stdin_fd, tcp_socket, udp_socket} \cup OpenFd'
          /\ tmp_fds' \subseteq read_fds'
      BY <1>2 DEF Books, Descriptors
    <2> QED BY <1>5, <1>8, <2>1 DEF Descriptors, Placed
  <1> QED BY <1>5, <1>9 DEF Books

\* Every step keeps the books.
LEMMA StepBooks ==
    ASSUME TypeOK, TypeOK', Round, Books, AllClosedAtStop, [Next]_vars
    PROVE  Books' /\ AllClosedAtStop'
  <1> USE DEF heap, rest, kernel
  <1>1. CASE UNCHANGED vars
    BY <1>1 DEF vars, Books, Placed, Descriptors, AllClosedAtStop, OpenFd
  <1> SUFFICES ASSUME status = "run", ServerStep \/ Environment
               PROVE  Books' /\ AllClosedAtStop'
    BY <1>1 DEF Next
  <1>a. tmp_fds \subseteq read_fds
    BY DEF Books, Descriptors
  <1>b. (status' # "stopped") => AllClosedAtStop'
    BY DEF AllClosedAtStop
  <1>c. CASE Dies
    <2>1. UNCHANGED <<read_fds, tmp_fds, fdmax, conn, backlog, peer>>
          /\ status' = "died"
      BY <1>c DEF Dies
    <2> QED BY <1>a, <1>b, <2>1, QuietBooks
  <1>2. CASE Select
    <2>1. tmp_fds' \subseteq read_fds
          /\ UNCHANGED <<read_fds, fdmax, conn, backlog, peer, status>>
      BY <1>2 DEF Select
    <2> QED BY <1>b, <2>1, QuietBooks
  <1>3. CASE Accept
    <2>1. ASSUME NEW f \in ClientFd, conn[f] = NoSession, tcp_socket \in tmp_fds,
                 tmp_fds' = tmp_fds \ {tcp_socket},
                 read_fds' = read_fds \cup {f},
                 fdmax' = IF f > fdmax THEN f ELSE fdmax,
                 conn' = [conn EXCEPT ![f] = Head(backlog)],
                 backlog' = Tail(backlog), UNCHANGED <<status, peer>>
          PROVE  Books' /\ AllClosedAtStop'
      <3>1. backlog # <<>>
        BY <2>1 DEF Round
      <3> QED BY <1>b, <2>1, <3>1, AcceptBooks
    <2> QED BY <1>3, <1>c, <2>1 DEF Accept, Turn
  <1>4. CASE RecvId
    <2>0. newtcp_socket \in OpenFd \ tmp_fds /\ UNCHANGED <<tmp_fds, status, backlog>>
      BY <1>4 DEF RecvId, Round
    <2>1. CASE CloseFd(newtcp_socket) /\ peer' = [peer EXCEPT ![conn[newtcp_socket]] =
                                           IF @ = "open" THEN "refused" ELSE @]
      <3>1. \A s \in Session : peer[s] # "none" => peer'[s] # "none"
        BY <2>1 DEF TypeOK
      <3> QED BY <1>b, <2>0, <2>1, <3>1, CloseFdBooks
    <2>2. CASE UNCHANGED <<read_fds, fdmax, conn, peer>>
      BY <1>a, <1>b, <2>0, <2>2, QuietBooks
    <2> QED BY <1>4, <2>1, <2>2 DEF RecvId
  <1>5. CASE FlushSlot
    <2>1. UNCHANGED <<read_fds, tmp_fds, fdmax, conn, backlog>>
          /\ status' # "stopped"
      BY <1>5 DEF FlushSlot
    <2>2. \A s \in Session : peer[s] # "none" => peer'[s] # "none"
      <3>1. peer' = peer \/ SendSurvives({conn[newtcp_socket]})
        BY <1>5 DEF FlushSlot
      <3> QED BY <3>1 DEF SendSurvives
    <2> QED BY <1>a, <1>b, <2>1, <2>2, QuietBooks
  <1>6. CASE EndReconnect
    <2>1. UNCHANGED <<read_fds, tmp_fds, fdmax, conn, backlog, peer, status>>
      BY <1>6 DEF EndReconnect
    <2> QED BY <1>a, <1>b, <2>1, QuietBooks
  <1>7. CASE ReceiveDatagram
    <2> SUFFICES ASSUME NEW m, send_tcp(m), tmp_fds' = tmp_fds \ {udp_socket},
                        UNCHANGED <<rest, read_fds, fdmax, conn>>
                 PROVE  Books' /\ AllClosedAtStop'
      BY <1>7, <1>c DEF ReceiveDatagram
    <2>1. \A s \in Session : peer[s] # "none" => peer'[s] # "none"
      BY DEF send_tcp, SendSurvives
    <2>2. status' # "stopped"
      BY DEF send_tcp
    <2> QED BY <1>a, <1>b, <2>1, <2>2, QuietBooks
  <1>8. CASE ReadConsole
    <2>1. CASE close_sockets /\ tmp_fds' = tmp_fds /\ status' \in {"stopped", "undefined"}
      <3>1. \A f \in ClientFd : conn'[f] = IF f \in read_fds /\ f <= fdmax
                                           THEN NoSession ELSE conn[f]
        BY <2>1 DEF close_sockets
      <3>2. \A f \in OpenFd : f \in read_fds /\ f <= fdmax
        BY DEF Books, Descriptors
      <3>3. OpenFd' = {}
        BY <3>1, <3>2 DEF OpenFd
      <3>4. UNCHANGED <<read_fds, fdmax, backlog, peer>>
        BY <1>8 DEF ReadConsole
      <3> QED BY <2>1, <3>3, <3>4 DEF Books, Placed, Descriptors, AllClosedAtStop
    <2>2. CASE /\ tmp_fds' \subseteq tmp_fds
               /\ UNCHANGED <<status, conn, read_fds, fdmax, backlog, peer>>
      BY <1>a, <1>b, <2>2, QuietBooks
    <2> QED BY <1>8, <2>1, <2>2 DEF ReadConsole
  <1>9. ASSUME NEW i \in ClientFd, ReceiveAction(i)
        PROVE  Books' /\ AllClosedAtStop'
    <2>1. UNCHANGED <<read_fds, fdmax, conn, backlog, peer, status>>
          /\ tmp_fds' \subseteq tmp_fds
      BY <1>9 DEF ReceiveAction
    <2> QED BY <1>a, <1>b, <2>1, QuietBooks
  <1>10. ASSUME NEW i \in ClientFd, ReceiveEnd(i) PROVE Books' /\ AllClosedAtStop'
    <2> SUFFICES ASSUME Turn(i), CloseFd(i), tmp_fds' = tmp_fds \ {i},
                        UNCHANGED <<rest, status, peer>>
                 PROVE  Books' /\ AllClosedAtStop'
      BY <1>10, <1>c DEF ReceiveEnd
    <2>1. i \in OpenFd
      BY DEF Turn, Round
    <2> QED BY <1>b, <2>1, CloseFdBooks
  <1>11. ASSUME NEW s \in Session, Connect(s) PROVE Books' /\ AllClosedAtStop'
    <2>1. /\ backlog \in Seq(Session) /\ backlog' = Append(backlog, s)
          /\ peer[s] = "none" /\ peer' = [peer EXCEPT ![s] = "connecting"]
          /\ UNCHANGED <<read_fds, tmp_fds, fdmax, conn, status>>
      BY <1>11 DEF Connect, TypeOK
    <2>2. /\ DOMAIN backlog' = DOMAIN backlog \cup {Len(backlog) + 1}
          /\ Len(backlog) + 1 \notin DOMAIN backlog
          /\ backlog'[Len(backlog) + 1] = s
          /\ \A j \in DOMAIN backlog : backlog'[j] = backlog[j] /\ backlog[j] \in Session
      BY <2>1, AppendProperties
    <2>3. OpenFd' = OpenFd /\ \A f \in OpenFd : conn[f] \in Session
      BY <2>1 DEF OpenFd, TypeOK
    <2>4. \A r \in Session : peer[r] # "none" => peer'[r] # "none"
      BY <2>1 DEF TypeOK
    <2>5. peer'[s] # "none"
      BY <2>1 DEF TypeOK
    <2>6. Placed'
      BY <2>1, <2>2, <2>3, <2>4, <2>5 DEF Books, Placed
    <2>7. Descriptors'
      BY <2>1, <2>3 DEF Books, Descriptors
    <2> QED BY <1>b, <2>1, <2>6, <2>7 DEF Books
  <1>12. ASSUME NEW s \in Session, SendId(s) \/ Leave(s)
         PROVE  Books' /\ AllClosedAtStop'
    <2>1. /\ UNCHANGED <<read_fds, tmp_fds, fdmax, conn, backlog, status>>
          /\ \A r \in Session : peer[r] # "none" => peer'[r] # "none"
      BY <1>12 DEF SendId, Leave, TypeOK
    <2> QED BY <1>a, <1>b, <2>1, QuietBooks
  <1>13. CASE UNCHANGED <<read_fds, tmp_fds, fdmax, conn, backlog, status, peer>>
    BY <1>a, <1>b, <1>13, QuietBooks
  <1> QED
    BY <1>2, <1>3, <1>4, <1>5, <1>6, <1>7, <1>8, <1>9, <1>10, <1>11, <1>12, <1>13
       DEF ServerStep, Environment, SendAction, Publish, TypeLine

\* The kernel's descriptor table, read_fds, tmp_fds and fdmax agree throughout.
THEOREM BooksAgree == Spec => []Descriptors
  <1>1. Init => TypeOK /\ Round /\ Books /\ AllClosedAtStop
    BY InitStructure, InitBooks
  <1>2. /\ TypeOK /\ Round /\ Books /\ AllClosedAtStop /\ [Next]_vars
        => (TypeOK /\ Round /\ Books /\ AllClosedAtStop)'
    BY StepStructure, StepBooks
  <1>3. Books => Descriptors
    BY DEF Books
  <1> QED BY <1>1, <1>2, <1>3, PTL DEF Spec

\* A server that has stopped has left no connection open.
THEOREM StopCloses == Spec => []AllClosedAtStop
  <1>1. Init => TypeOK /\ Round /\ Books /\ AllClosedAtStop
    BY InitStructure, InitBooks
  <1>2. /\ TypeOK /\ Round /\ Books /\ AllClosedAtStop /\ [Next]_vars
        => (TypeOK /\ Round /\ Books /\ AllClosedAtStop)'
    BY StepStructure, StepBooks
  <1> QED BY <1>1, <1>2, PTL DEF Spec

-----------------------------------------------------------------------------
(* Connected clients and live connections.                                   *)

\* While slots are flushed, the client is still down as disconnected, under its
\* new descriptor.
Flushing ==
    pc = "flush" =>
        /\ client \in Registered /\ ~connected[client]
        /\ socket[client] = newtcp_socket

\* A live subscriber is connected under the ID it was started with.
Hailed ==
    /\ \A s \in Session : peer[s] \in {"none", "connecting"} => up[s] = <<>>
    /\ \A f \in OpenFd \ {newtcp_socket} :
          /\ peer[conn[f]] # "connecting"
          /\ peer[conn[f]] = "open" => /\ connected[SessId[conn[f]]]
                                       /\ socket[SessId[conn[f]]] = f
    /\ pc = "flush" => /\ peer[conn[newtcp_socket]] # "connecting"
                       /\ peer[conn[newtcp_socket]] = "open"
                          => client = SessId[conn[newtcp_socket]]

\* A connected client is in the array of clients and has nothing stored.
EmptyHanded ==
    \A c \in ClientId : connected[c] =>
        /\ c \in Registered
        /\ \A k \in DOMAIN topics[c] : topics[c][k].tcps = <<>>

Served == LiveIsConnected /\ Flushing /\ Hailed /\ EmptyHanded

LEMMA InitServed == Init => Served
  BY DEF Init, Served, LiveIsConnected, Flushing, Hailed, EmptyHanded, OpenFd

\* A step that leaves clients and descriptors alone and at most hears that a
\* peer is gone keeps what is known about them.
LEMMA QuietServed ==
    ASSUME TypeOK, Served, pc = "flush" => newtcp_socket \in OpenFd,
           UNCHANGED <<clients, connected, socket, topics, conn, newtcp_socket, pc,
                       client, up>>,
           \A s \in Session : peer'[s] = peer[s] \/ peer'[s] \in {"fin", "rst"}
    PROVE  Served'
  <1>1. OpenFd' = OpenFd /\ \A f \in OpenFd : conn[f] \in Session
    BY DEF OpenFd, TypeOK
  <1>2. Registered' = Registered
    BY DEF Registered
  <1>3. LiveIsConnected' /\ Flushing' /\ EmptyHanded'
    BY <1>1, <1>2 DEF Served, LiveIsConnected, Flushing, EmptyHanded
  <1>4. \A f \in OpenFd : peer'[conn[f]] \in {peer[conn[f]], "fin", "rst"}
    BY <1>1
  <1>5. Hailed'
    <2>1. \A s \in Session : peer'[s] \in {"none", "connecting"} => up'[s] = <<>>
      BY DEF Served, Hailed
    <2>2. ASSUME NEW f \in OpenFd \ {newtcp_socket}
          PROVE  /\ peer'[conn[f]] # "connecting"
                 /\ peer'[conn[f]] = "open" => /\ connected[SessId[conn[f]]]
                                               /\ socket[SessId[conn[f]]] = f
      BY <1>4, <2>2 DEF Served, Hailed
    <2>3. pc = "flush" => /\ peer'[conn[newtcp_socket]] # "connecting"
                          /\ peer'[conn[newtcp_socket]] = "open"
                             => client = SessId[conn[newtcp_socket]]
      BY <1>4 DEF Served, Hailed
    <2> QED BY <1>1, <2>1, <2>2, <2>3 DEF Hailed
  <1> QED BY <1>3, <1>5 DEF Served

\* A closed descriptor drops out of what has to be served.
LEMMA CloseFdOpen ==
    ASSUME TypeOK, NEW i \in OpenFd, CloseFd(i)
    PROVE  OpenFd' = OpenFd \ {i} /\ \A f \in OpenFd' : conn'[f] = conn[f]
  BY DEF CloseFd, OpenFd, TypeOK

\* The ID has been read: the subscriber is new, refused, or back.
LEMMA RecvIdServed ==
    ASSUME TypeOK, TypeOK', Round, Served, status = "run", RecvId
    PROVE  Served'
  <1> DEFINE f  == newtcp_socket
             s  == conn[f]
             id == IF up[s] = <<>> THEN NoId ELSE SessId[s]
  <1>1. f \in OpenFd /\ f \in ClientFd /\ s \in Session /\ id \in ClientId
    BY DEF RecvId, Round, OpenFd, TypeOK, ClientId, BrokerAssumption
  <1>2. peer[s] \notin {"none", "connecting"}
    BY <1>1 DEF RecvId, Served, Hailed
  <1>3. peer[s] = "open" => id = SessId[s]
    BY DEF RecvId
  <1>4. up' = [up EXCEPT ![s] = <<>>] /\ pc = "recvid"
    BY DEF RecvId
  <1>5. \A g \in OpenFd \ {f} : conn[g] \in Session /\ SessId[conn[g]] \in ClientId
    BY DEF OpenFd, TypeOK, ClientId, BrokerAssumption
  <1>6. \A r \in Session : up'[r] = up[r] \/ up'[r] = <<>>
    BY <1>4 DEF TypeOK
  <1> HIDE DEF id
  <1>7. CASE /\ id \notin Registered /\ add_new_client(id, f)
             /\ pc' = "loop" /\ newtcp_socket' = NoFd
             /\ UNCHANGED <<read_fds, fdmax, conn, client, slot, peer>>
    <2>1. Registered' = Registered \cup {id}
      <3>1. clients \in Seq(ClientId) /\ clients' = Append(clients, id)
        BY <1>7 DEF TypeOK, add_new_client
      <3> QED BY <1>1, <3>1, AppendProperties DEF Registered
    <2>2. /\ connected' = [connected EXCEPT ![id] = TRUE]
          /\ socket' = [socket EXCEPT ![id] = f]
          /\ topics' = [topics EXCEPT ![id] = <<>>]
      BY <1>7 DEF add_new_client
    <2>3. OpenFd' = OpenFd
      BY <1>7 DEF OpenFd
    <2>4. LiveIsConnected'
      <3>1. ASSUME NEW g \in OpenFd
            PROVE  \E c \in Registered' : connected'[c] /\ socket'[c] = g
        <4>1. CASE g = f
          BY <1>1, <2>1, <2>2, <4>1 DEF TypeOK
        <4>2. CASE g # f
          <5>1. PICK c \in Registered : connected[c] /\ socket[c] = g
            BY <4>2 DEF Served, LiveIsConnected
          <5>2. c # id /\ c \in ClientId
            BY <1>7, <5>1 DEF Registered, TypeOK
          <5> QED BY <2>1, <2>2, <5>1, <5>2 DEF TypeOK
        <4> QED BY <4>1, <4>2
      <3> QED BY <2>3, <3>1 DEF LiveIsConnected
    <2>5. Hailed'
      <3>1. ASSUME NEW g \in OpenFd, peer[conn[g]] = "open"
            PROVE  connected'[SessId[conn[g]]] /\ socket'[SessId[conn[g]]] = g
        <4>1. CASE g = f
          BY <1>1, <1>3, <2>2, <3>1, <4>1 DEF TypeOK
        <4>2. CASE g # f
          <5>1. connected[SessId[conn[g]]] /\ socket[SessId[conn[g]]] = g
            BY <3>1, <4>2 DEF Served, Hailed
          <5>2. SessId[conn[g]] # id
            BY <1>5, <1>7, <4>2, <5>1 DEF Served, EmptyHanded
          <5> QED BY <1>5, <2>2, <4>2, <5>1, <5>2 DEF TypeOK
        <4> QED BY <4>1, <4>2
      <3>2. \A g \in OpenFd : peer[conn[g]] # "connecting"
        BY <1>2 DEF Served, Hailed
      <3>3. \A r \in Session : peer[r] \in {"none", "connecting"} => up'[r] = <<>>
        BY <1>6 DEF Served, Hailed
      <3> QED BY <1>7, <2>3, <3>1, <3>2, <3>3 DEF Hailed
    <2>6. Flushing'
      BY <1>7 DEF Flushing
    <2>7. EmptyHanded'
      BY <2>1, <2>2 DEF Served, EmptyHanded, TypeOK
    <2> QED BY <2>4, <2>5, <2>6, <2>7 DEF Served
  <1>8. CASE /\ CloseFd(f)
             /\ peer' = [peer EXCEPT ![s] = IF @ = "open" THEN "refused" ELSE @]
             /\ pc' = "loop" /\ newtcp_socket' = NoFd
             /\ UNCHANGED <<clients, connected, socket, topics, client, slot>>
    <2>1. OpenFd' = OpenFd \ {f} /\ \A g \in OpenFd' : conn'[g] = conn[g]
      BY <1>1, <1>8, CloseFdOpen
    <2>2. \A r \in Session : peer'[r] = peer[r] \/ peer'[r] = "refused"
      BY <1>8 DEF TypeOK
    <2>3. LiveIsConnected' /\ Flushing' /\ EmptyHanded'
      BY <1>8, <2>1 DEF Served, LiveIsConnected, Flushing, EmptyHanded, Registered
    <2>4. Hailed'
      BY <1>5, <1>6, <1>8, <2>1, <2>2 DEF Served, Hailed
    <2> QED BY <2>3, <2>4 DEF Served
  <1>9. CASE /\ id \in Registered /\ ~connected[id]
             /\ begin_reconnect(id, f) /\ pc' = "flush"
             /\ UNCHANGED <<clients, connected, topics, read_fds, fdmax, conn,
                            newtcp_socket, peer>>
    <2>1. socket' = [socket EXCEPT ![id] = f] /\ client' = id
      BY <1>9 DEF begin_reconnect
    <2>2. OpenFd' = OpenFd /\ Registered' = Registered
      BY <1>9 DEF OpenFd, Registered
    <2>3. \A c \in ClientId : connected[c] => socket'[c] = socket[c]
      BY <1>9, <2>1 DEF TypeOK
    <2>4. LiveIsConnected'
      <3>1. Registered \subseteq ClientId
        BY DEF Registered, TypeOK
      <3>2. connected' = connected /\ newtcp_socket' = newtcp_socket
        BY <1>9
      <3>3. LiveIsConnected
        BY DEF Served
      <3> QED BY ONLY <2>2, <2>3, <3>1, <3>2, <3>3 DEF LiveIsConnected
    <2>5. Flushing'
      BY <1>1, <1>9, <2>1, <2>2 DEF Flushing, TypeOK
    <2>6. Hailed'
      <3>1. \A g \in OpenFd \ {f} : peer[conn[g]] = "open" =>
               connected[SessId[conn[g]]] /\ socket'[SessId[conn[g]]] = g
        BY <1>5, <2>3 DEF Served, Hailed
      <3> QED BY <1>2, <1>3, <1>6, <1>9, <2>1, <2>2, <3>1 DEF Served, Hailed
    <2>7. EmptyHanded'
      BY <1>9, <2>2 DEF Served, EmptyHanded
    <2> QED BY <2>4, <2>5, <2>6, <2>7 DEF Served
  <1> QED BY <1>7, <1>8, <1>9 DEF RecvId, id

\* Every step keeps what is known about connections and clients.
LEMMA StepServed ==
    ASSUME TypeOK, TypeOK', Round, Books, Served, [Next]_vars
    PROVE  Served'
  <1> USE DEF heap, rest, kernel
  <1>1. CASE UNCHANGED vars
    BY <1>1 DEF vars, Served, LiveIsConnected, Flushing, Hailed, EmptyHanded,
                OpenFd, Registered
  <1> SUFFICES ASSUME status = "run", ServerStep \/ Environment
               PROVE  Served'
    BY <1>1 DEF Next
  <1>a. pc = "flush" => newtcp_socket \in OpenFd
    BY DEF Round
  <1>b. \A f \in OpenFd : conn[f] \in Session /\ SessId[conn[f]] \in ClientId
    BY DEF OpenFd, TypeOK, ClientId, BrokerAssumption
  <1>c. CASE Dies
    BY <1>a, <1>c, QuietServed DEF Dies
  <1>2. CASE Select
    BY <1>a, <1>2, QuietServed DEF Select
  <1>3. CASE Accept
    <2> SUFFICES ASSUME pc = "loop", NEW f \in ClientFd, conn[f] = NoSession,
                        conn' = [conn EXCEPT ![f] = Head(backlog)],
                        newtcp_socket' = f, pc' = "recvid",
                        UNCHANGED <<heap, client, peer, up>>
                 PROVE  Served'
      BY <1>3, <1>c DEF Accept, Turn
    <2>1. newtcp_socket = NoFd /\ NoFd \notin ClientFd
      BY DEF Round, NoFd, ClientFd, BrokerAssumption
    <2>2. OpenFd' \ {f} \subseteq OpenFd /\ \A g \in OpenFd' \ {f} : conn'[g] = conn[g]
      BY DEF OpenFd, TypeOK
    <2>3. \A g \in OpenFd : g # newtcp_socket
      BY <2>1 DEF OpenFd
    <2>4. LiveIsConnected' /\ Flushing' /\ EmptyHanded'
      BY <2>2, <2>3 DEF Served, LiveIsConnected, Flushing, EmptyHanded, Registered
    <2>5. Hailed'
      BY <2>2, <2>3 DEF Served, Hailed
    <2> QED BY <2>4, <2>5 DEF Served
  <1>4. CASE RecvId
    BY <1>4, RecvIdServed
  <1>5. CASE FlushSlot
    <2>1. peer' = peer \/ SendSurvives({conn[newtcp_socket]})
      BY <1>5 DEF FlushSlot
    <2>2. \A s \in Session : peer'[s] = peer[s] \/ peer'[s] \in {"fin", "rst"}
      BY <2>1 DEF SendSurvives
    <2> QED BY <1>a, <1>5, <2>2, QuietServed DEF FlushSlot
  <1>6. CASE EndReconnect
    <2>1. /\ connected' = [connected EXCEPT ![client] = TRUE]
          /\ topics' = [topics EXCEPT ![client] =
                          [k \in DOMAIN @ |-> Emptied(@[k])]]
          /\ pc = "flush" /\ pc' = "loop" /\ newtcp_socket' = NoFd
          /\ UNCHANGED <<clients, socket, conn, peer, up>>
      BY <1>6 DEF EndReconnect
    <2>2. OpenFd' = OpenFd /\ Registered' = Registered /\ client \in ClientId
      BY <2>1 DEF OpenFd, Registered, TypeOK
    <2>3. client \in Registered /\ socket[client] = newtcp_socket
      BY <2>1 DEF Served, Flushing
    <2>4. \A c \in ClientId : connected[c] => connected'[c]
      BY <2>1 DEF TypeOK
    <2>5. connected'[client]
      BY <2>1, <2>2 DEF TypeOK
    <2>6. LiveIsConnected'
      <3>1. Registered \subseteq ClientId
        BY SMTT(20) DEF Registered, TypeOK
      <3> QED BY <2>1, <2>2, <2>3, <2>4, <2>5, <3>1 DEF Served, LiveIsConnected
    <2>7. Hailed'
      <3>1. ASSUME NEW f \in OpenFd, peer[conn[f]] = "open"
            PROVE  connected'[SessId[conn[f]]] /\ socket[SessId[conn[f]]] = f
        <4>1. CASE f = newtcp_socket
          BY <2>1, <2>3, <2>5, <3>1, <4>1 DEF Served, Hailed
        <4>2. CASE f # newtcp_socket
          BY <1>b, <2>4, <3>1, <4>2 DEF Served, Hailed
        <4> QED BY <4>1, <4>2
      <3>2. \A f \in OpenFd : peer[conn[f]] # "connecting"
        BY <2>1 DEF Served, Hailed
      <3>3. \A r \in Session : peer'[r] \in {"none", "connecting"} => up'[r] = <<>>
        BY <2>1 DEF Served, Hailed
      <3> QED BY <2>1, <2>2, <3>1, <3>2, <3>3 DEF Hailed
    <2>8. EmptyHanded'
      <3>1. \A k \in DOMAIN topics'[client] : topics'[client][k].tcps = <<>>
        BY <2>1, <2>2 DEF Emptied, TypeOK
      <3>2. \A c \in ClientId : c # client =>
               topics'[c] = topics[c] /\ connected'[c] = connected[c]
        BY <2>1 DEF TypeOK
      <3>3. EmptyHanded
        BY DEF Served
      <3> QED BY ONLY <2>2, <2>3, <3>1, <3>2, <3>3 DEF EmptyHanded
    <2>9. Flushing'
      BY <2>1 DEF Flushing
    <2> QED BY <2>6, <2>7, <2>8, <2>9 DEF Served
  <1>7. CASE ReceiveDatagram
    <2> SUFFICES ASSUME NEW m, send_tcp(m),
                        UNCHANGED <<clients, connected, socket, rest, pc,
                                    newtcp_socket, client, conn>>
                 PROVE  Served'
      BY <1>7, <1>c DEF ReceiveDatagram
    <2>1. \A s \in Session : peer'[s] = peer[s] \/ peer'[s] \in {"fin", "rst"}
      BY DEF send_tcp, SendSurvives
    <2>2. \A c \in ClientId : connected[c] => topics'[c] = topics[c]
      <3>1. ASSUME NEW c \in ClientId, connected[c]
            PROVE  topics'[c] = topics[c]
        <4>1. \A k \in DOMAIN topics[c] : ~StoresAt(c, k, m)
          BY <3>1 DEF StoresAt
        <4>2. topics'[c] = [k \in DOMAIN topics[c] |-> topics[c][k]]
          BY <4>1 DEF send_tcp
        <4>3. topics[c] \in Seq(Slot)
          BY DEF TypeOK
        <4> QED BY <4>2, <4>3
      <3> QED BY <3>1
    <2>3. OpenFd' = OpenFd /\ Registered' = Registered
      BY DEF OpenFd, Registered
    <2>4. LiveIsConnected' /\ Flushing' /\ EmptyHanded'
      BY <2>2, <2>3 DEF Served, LiveIsConnected, Flushing, EmptyHanded
    <2>5. pc = "loop"
      BY <1>7 DEF ReceiveDatagram, Turn
    <2>6. Hailed'
      BY <1>b, <2>1, <2>3, <2>5 DEF Served, Hailed
    <2> QED BY <2>4, <2>6 DEF Served
  <1>8. CASE ReadConsole
    <2>1. UNCHANGED <<clients, connected, socket, topics, newtcp_socket, pc, client,
                      up, peer>>
      BY <1>8 DEF ReadConsole
    <2>2. pc = "loop" /\ \A f \in ClientFd : conn'[f] \in {conn[f], NoSession}
      BY <1>8 DEF ReadConsole, close_sockets, Turn, TypeOK
    <2>3. OpenFd' \subseteq OpenFd /\ \A f \in OpenFd' : conn'[f] = conn[f]
      BY <2>2 DEF OpenFd
    <2> QED BY <2>1, <2>2, <2>3 DEF Served, LiveIsConnected, Flushing, Hailed,
                                    EmptyHanded, Registered
  <1>9. ASSUME NEW i \in ClientFd, ReceiveAction(i) PROVE Served'
    <2> DEFINE s == conn[i]
               a == Head(up[s])
    <2>1. /\ up[s] # <<>> /\ up' = [up EXCEPT ![s] = Tail(@)] /\ pc = "loop"
          /\ UNCHANGED <<clients, connected, socket, conn, newtcp_socket, pc, client,
                         peer>>
          /\ subscribe_to_topic(a, i) \/ unsubscribe(a, i)
      BY <1>9 DEF ReceiveAction, Turn
    <2>2. OpenFd' = OpenFd /\ Registered' = Registered
      BY <2>1 DEF OpenFd, Registered
    <2>3. LiveIsConnected' /\ Flushing'
      BY <2>1, <2>2 DEF Served, LiveIsConnected, Flushing
    <2>4. \A r \in Session : up[r] = <<>> => up'[r] = <<>>
      BY <2>1 DEF TypeOK
    <2>5. Hailed'
      BY <2>1, <2>2, <2>4 DEF Served, Hailed
    <2>6. EmptyHanded'
      <3>1. ASSUME NEW c \in ClientId, connected[c], NEW k \in DOMAIN topics'[c]
            PROVE  topics'[c][k].tcps = <<>>
        <4>1. topics[c] \in Seq(Slot)
              /\ \A j \in DOMAIN topics[c] : topics[c][j].tcps = <<>>
          BY <3>1 DEF Served, EmptyHanded, TypeOK
        <4>2. CASE subscribe_to_topic(a, i)
          <5>1. topics'[c] = topics[c] \/ topics'[c] = Append(topics[c], new_topic(a))
            BY <4>2 DEF subscribe_to_topic
          <5>2. new_topic(a).tcps = <<>>
            BY DEF new_topic
          <5> HIDE DEF a
          <5> QED BY <3>1, <4>1, <5>1, <5>2
        <4>3. CASE unsubscribe(a, i)
          <5>1. DOMAIN topics'[c] = DOMAIN topics[c]
            BY <4>3 DEF unsubscribe
          <5>2. \/ topics'[c][k] = topics[c][k]
                \/ topics'[c][k] = [topics[c][k] EXCEPT !.topic = Blank]
            BY <3>1, <4>3, <5>1 DEF unsubscribe
          <5>3. topics[c][k] \in Slot
            BY <3>1, <4>1, <5>1
          <5> QED BY <3>1, <4>1, <5>1, <5>2, <5>3 DEF Slot
        <4> QED BY <2>1, <4>2, <4>3
      <3> QED BY <2>1, <2>2, <3>1 DEF Served, EmptyHanded
    <2> QED BY <2>3, <2>5, <2>6 DEF Served
  <1>10. ASSUME NEW i \in ClientFd, ReceiveEnd(i) PROVE Served'
    <2> SUFFICES ASSUME Turn(i), disconnect_subscriber(i), CloseFd(i),
                        UNCHANGED <<clients, socket, rest, pc, newtcp_socket, client,
                                    peer>>
                 PROVE  Served'
      BY <1>10, <1>c DEF ReceiveEnd
    <2>1. i \in OpenFd /\ pc = "loop"
      BY DEF Turn, Round
    <2>2. OpenFd' = OpenFd \ {i} /\ \A f \in OpenFd' : conn'[f] = conn[f]
      BY <2>1, CloseFdOpen
    <2>3. \A c \in ClientId : /\ connected'[c] => connected[c]
                              /\ socket[c] # i => connected'[c] = connected[c]
      BY DEF disconnect_subscriber, IsOwner, TypeOK
    <2>4. Registered' = Registered /\ Registered \subseteq ClientId
      BY DEF Registered, TypeOK
    <2>5. LiveIsConnected'
      BY <2>2, <2>3, <2>4 DEF Served, LiveIsConnected
    <2>6. Hailed'
      BY <1>b, <2>1, <2>2, <2>3 DEF Served, Hailed
    <2>7. EmptyHanded'
      <3>1. ASSUME NEW c \in ClientId, connected'[c], NEW k \in DOMAIN topics'[c]
            PROVE  topics'[c][k].tcps = <<>>
        <4>1. ~IsOwner(c, i)
          BY <3>1 DEF disconnect_subscriber
        <4>2. topics'[c] = [j \in DOMAIN topics[c] |-> topics[c][j]]
          BY <4>1 DEF disconnect_subscriber
        <4>3. k \in DOMAIN topics[c] /\ topics'[c][k] = topics[c][k]
          BY <3>1, <4>2
        <4>4. connected[c]
          BY <2>3, <3>1
        <4> QED BY <4>3, <4>4 DEF Served, EmptyHanded
      <3>2. \A c \in ClientId : connected'[c] => c \in Registered'
        BY <2>3, <2>4 DEF Served, EmptyHanded
      <3> QED BY <3>1, <3>2 DEF EmptyHanded
    <2>8. Flushing'
      BY <2>1 DEF Flushing
    <2> QED BY <2>5, <2>6, <2>7, <2>8 DEF Served
  <1>11. ASSUME NEW s \in Session, Connect(s) PROVE Served'
    <2>1. /\ peer[s] = "none" /\ peer' = [peer EXCEPT ![s] = "connecting"]
          /\ UNCHANGED <<clients, connected, socket, topics, conn, newtcp_socket, pc,
                         client, up>>
      BY <1>11 DEF Connect
    <2>2. \A f \in OpenFd : conn[f] # s
      BY <2>1 DEF Books, Placed
    <2>3. OpenFd' = OpenFd /\ Registered' = Registered
      BY <2>1 DEF OpenFd, Registered
    <2>4. LiveIsConnected' /\ Flushing' /\ EmptyHanded'
      BY <2>1, <2>3 DEF Served, LiveIsConnected, Flushing, EmptyHanded
    <2>5. \A f \in OpenFd : peer'[conn[f]] = peer[conn[f]]
      BY <1>b, <2>1, <2>2 DEF TypeOK
    <2>6. \A r \in Session : peer'[r] \in {"none", "connecting"} => up[r] = <<>>
      BY <2>1 DEF Served, Hailed, TypeOK
    <2>7. Hailed'
      BY <1>a, <2>1, <2>3, <2>5, <2>6 DEF Served, Hailed
    <2> QED BY <2>4, <2>7 DEF Served
  <1>12. ASSUME NEW s \in Session, SendId(s) PROVE Served'
    <2>1. /\ peer[s] = "connecting" /\ peer' = [peer EXCEPT ![s] = "open"]
          /\ up' = [up EXCEPT ![s] = Append(@, Hello)]
          /\ UNCHANGED <<clients, connected, socket, topics, conn, newtcp_socket, pc,
                         client>>
      BY <1>12 DEF SendId
    <2>2. \A f \in OpenFd \ {newtcp_socket} : conn[f] # s
      BY <2>1 DEF Served, Hailed
    <2>3. OpenFd' = OpenFd /\ Registered' = Registered
      BY <2>1 DEF OpenFd, Registered
    <2>4. LiveIsConnected' /\ Flushing' /\ EmptyHanded'
      BY <2>1, <2>3 DEF Served, LiveIsConnected, Flushing, EmptyHanded
    <2>5. \A f \in OpenFd \ {newtcp_socket} : peer'[conn[f]] = peer[conn[f]]
      BY <1>b, <2>1, <2>2 DEF TypeOK
    <2>6. pc = "flush" => conn[newtcp_socket] # s
      BY <2>1 DEF Served, Hailed
    <2>7. pc = "flush" => peer'[conn[newtcp_socket]] = peer[conn[newtcp_socket]]
      BY <1>a, <1>b, <2>1, <2>6 DEF TypeOK
    <2>8. \A r \in Session : peer'[r] \in {"none", "connecting"} => up'[r] = <<>>
      BY <2>1 DEF Served, Hailed, TypeOK
    <2>9. Hailed'
      BY <2>1, <2>3, <2>5, <2>7, <2>8 DEF Served, Hailed
    <2> QED BY <2>4, <2>9 DEF Served
  <1>13. ASSUME NEW s \in Session, Leave(s) PROVE Served'
    <2>1. \A r \in Session : peer'[r] = peer[r] \/ peer'[r] \in {"fin", "rst"}
      BY <1>13 DEF Leave, TypeOK
    <2> QED BY <1>a, <1>13, <2>1, QuietServed DEF Leave
  <1>14. ASSUME NEW s \in Session, NEW a \in SentActions, SendAction(s, a)
         PROVE  Served'
    <2>1. /\ peer[s] = "open" /\ up' = [up EXCEPT ![s] = Append(@, a)]
          /\ UNCHANGED <<clients, connected, socket, topics, conn, newtcp_socket, pc,
                         client, peer>>
      BY <1>14 DEF SendAction
    <2>2. OpenFd' = OpenFd /\ Registered' = Registered
      BY <2>1 DEF OpenFd, Registered
    <2>3. \A r \in Session : peer[r] \in {"none", "connecting"} => up'[r] = <<>>
      BY <2>1 DEF Served, Hailed, TypeOK
    <2> QED BY <2>1, <2>2, <2>3 DEF Served, LiveIsConnected, Flushing, Hailed,
                                    EmptyHanded
  <1>15. CASE UNCHANGED <<clients, connected, socket, topics, conn, newtcp_socket,
                          pc, client, up, peer>>
    BY <1>a, <1>15, QuietServed
  <1> QED
    BY <1>2, <1>3, <1>4, <1>5, <1>6, <1>7, <1>8, <1>9, <1>10, <1>11, <1>12,
       <1>13, <1>14, <1>15 DEF ServerStep, Environment, Publish, TypeLine

\* All that holds throughout, in one inductive invariant.
IInv == TypeOK /\ Round /\ Books /\ AllClosedAtStop /\ Served

THEOREM Inductive == Spec => []IInv
  <1>1. Init => IInv
    BY InitStructure, InitBooks, InitServed DEF IInv
  <1>2. IInv /\ [Next]_vars => IInv'
    BY StepStructure, StepBooks, StepServed DEF IInv
  <1> QED BY <1>1, <1>2, PTL DEF Spec

\* No live subscriber is ever taken for one that has left: an accepted connection
\* stays recorded as that of a connected client until it is closed.
THEOREM LiveStaysConnected == Spec => []LiveIsConnected
  <1>1. IInv => LiveIsConnected
    BY DEF IInv, Served
  <1> QED BY <1>1, Inductive, PTL

\* "Client already connected": never two live connections with one ID.
THEOREM OneConnectionPerId == Spec => []OneLiveConnectionPerId
  <1>1. IInv => OneLiveConnectionPerId
    <2> SUFFICES ASSUME Hailed, NEW f \in OpenFd, NEW g \in OpenFd,
                        newtcp_socket \notin {f, g},
                        SessId[conn[f]] = SessId[conn[g]],
                        peer[conn[f]] = "open", peer[conn[g]] = "open"
                 PROVE  f = g
      BY DEF IInv, Served, OneLiveConnectionPerId
    <2>1. socket[SessId[conn[f]]] = f /\ socket[SessId[conn[g]]] = g
      BY DEF Hailed
    <2> QED BY <2>1
  <1> QED BY <1>1, Inductive, PTL

\* Packets are stored for disconnected clients only, and all of them have been
\* taken out when the client counts as connected again.
THEOREM StoreIsForAbsent == Spec => []NoStoreWhileConnected
  <1>1. IInv => NoStoreWhileConnected
    BY DEF IInv, Served, EmptyHanded, NoStoreWhileConnected, TypeOK, Registered
  <1> QED BY <1>1, Inductive, PTL

-----------------------------------------------------------------------------
(* The order of what is written, topic by topic.                             *)

\* The number of the last datagram handled; those that wait have the next ones.
Handled  == sent - Len(udpq)
Numbered ==
    Handled \in Nat /\ \A k \in 1..Len(udpq) : udpq[k].n = Handled + k

\* Packets x and then y of a topic are in order.
Follows(x, y) == x.topic = y.topic /\ x.topic # Blank => x.n <= y.n

\* What has been written over a connection.
InOrder(q) == \A j, k \in DOMAIN q : j < k => Follows(q[j], q[k])
NoneAfter(q, h) == \A k \in DOMAIN q : q[k].n <= h

\* What a client's slots hold is in order from slot to slot, as send_tcp stores in the
\* first slot that has the topic and slots are added at the end.
SlotsInOrder(ts) ==
    /\ \A k \in DOMAIN ts : InOrder(ts[k].tcps)
    /\ \A j, k \in DOMAIN ts : j < k =>
         \A p \in DOMAIN ts[j].tcps, q \in DOMAIN ts[k].tcps :
            Follows(ts[j].tcps[p], ts[k].tcps[q])
Foremost(ts) ==
    \A k \in DOMAIN ts : \A q \in DOMAIN ts[k].tcps : \A j \in DOMAIN ts :
        j < k /\ ts[j].sf /\ ts[k].tcps[q].topic # Blank
            => ts[j].topic # ts[k].tcps[q].topic
Shelves(ts, h) ==
    /\ \A k \in DOMAIN ts : NoneAfter(ts[k].tcps, h)
    /\ SlotsInOrder(ts) /\ Foremost(ts)

\* Nothing is written before the ID has been read.
Silent ==
    /\ \A s \in Session : peer[s] = "none" => got[s] = <<>>
    /\ \A j \in DOMAIN backlog : got[backlog[j]] = <<>>
    /\ pc = "recvid" => got[conn[newtcp_socket]] = <<>>

\* What a client that comes back has been sent is older than what it still has to be.
FlushesInOrder ==
    pc = "flush" =>
        \A k \in DOMAIN topics[client] : slot <= k =>
            \A j \in DOMAIN got[conn[newtcp_socket]], p \in DOMAIN topics[client][k].tcps :
                Follows(got[conn[newtcp_socket]][j], topics[client][k].tcps[p])

\* What is written, and what is still to be written, are in order.
OrderInv ==
    /\ Numbered /\ Silent /\ FlushesInOrder
    /\ \A s \in Session : InOrder(got[s]) /\ NoneAfter(got[s], Handled)
    /\ \A c \in ClientId : Shelves(topics[c], Handled)

\* Sequences of packets, as they are written one behind the other.
LEMMA JoinedInOrder ==
    ASSUME NEW p \in Seq(Packet), NEW q \in Seq(Packet), InOrder(p), InOrder(q),
           \A j \in DOMAIN p, k \in DOMAIN q : Follows(p[j], q[k])
    PROVE  InOrder(p \o q)
  <1> DEFINE r == p \o q
  <1>1. /\ Len(p) \in Nat /\ Len(q) \in Nat
        /\ DOMAIN p = 1..Len(p) /\ DOMAIN q = 1..Len(q)
    OBVIOUS
  <1>2. DOMAIN r = 1..(Len(p) + Len(q))
        /\ \A k \in DOMAIN r : r[k] = IF k <= Len(p) THEN p[k] ELSE q[k - Len(p)]
    <2>1. r \in Seq(Packet) /\ Len(r) = Len(p) + Len(q)
      BY ConcatProperties
    <2>2. DOMAIN r = 1..Len(r)
      BY <2>1
    <2> QED BY <2>1, <2>2, ConcatProperties
  <1> HIDE DEF r
  <1>3. ASSUME NEW j \in DOMAIN r, NEW k \in DOMAIN r, j < k
        PROVE  Follows(r[j], r[k])
    <2>1. CASE k <= Len(p)
      <3>1. j \in DOMAIN p /\ k \in DOMAIN p /\ r[j] = p[j] /\ r[k] = p[k]
        BY <1>1, <1>2, <1>3, <2>1
      <3> QED BY <1>3, <3>1 DEF InOrder
    <2>2. CASE j <= Len(p) /\ ~(k <= Len(p))
      <3>1. /\ j \in DOMAIN p /\ k - Len(p) \in DOMAIN q
            /\ r[j] = p[j] /\ r[k] = q[k - Len(p)]
        BY <1>1, <1>2, <1>3, <2>2
      <3> QED BY <3>1
    <2>3. CASE ~(j <= Len(p)) /\ ~(k <= Len(p))
      <3>1. /\ j - Len(p) \in DOMAIN q /\ k - Len(p) \in DOMAIN q
            /\ r[j] = q[j - Len(p)] /\ r[k] = q[k - Len(p)]
            /\ j - Len(p) < k - Len(p)
        BY <1>1, <1>2, <1>3, <2>3
      <3> QED BY <3>1 DEF InOrder
    <2> QED BY <1>1, <1>2, <1>3, <2>1, <2>2, <2>3
  <1>4. InOrder(r)
    BY <1>3 DEF InOrder
  <1> QED BY <1>4 DEF r

LEMMA JoinedNoneAfter ==
    ASSUME NEW p \in Seq(Packet), NEW q \in Seq(Packet), NEW h \in Nat,
           NoneAfter(p, h), NoneAfter(q, h)
    PROVE  NoneAfter(p \o q, h)
  <1> DEFINE r == p \o q
  <1>1. /\ Len(p) \in Nat /\ Len(q) \in Nat
        /\ DOMAIN p = 1..Len(p) /\ DOMAIN q = 1..Len(q)
    OBVIOUS
  <1>2. DOMAIN r = 1..(Len(p) + Len(q))
        /\ \A k \in DOMAIN r : r[k] = IF k <= Len(p) THEN p[k] ELSE q[k - Len(p)]
    <2>1. r \in Seq(Packet) /\ Len(r) = Len(p) + Len(q)
      BY ConcatProperties
    <2>2. DOMAIN r = 1..Len(r)
      BY <2>1
    <2> QED BY <2>1, <2>2, ConcatProperties
  <1> HIDE DEF r
  <1>3. ASSUME NEW k \in DOMAIN r PROVE r[k].n <= h
    <2>1. k <= Len(p) => k \in DOMAIN p /\ r[k] = p[k]
      BY <1>1, <1>2
    <2>2. ~(k <= Len(p)) => k - Len(p) \in DOMAIN q /\ r[k] = q[k - Len(p)]
      BY <1>1, <1>2
    <2> QED BY <2>1, <2>2 DEF NoneAfter
  <1> QED BY <1>3 DEF NoneAfter, r

\* What has been written stays behind a later packet.
LEMMA LaterFollows ==
    ASSUME NEW q \in Seq(Packet), NEW h \in Nat, NEW g \in Nat, h <= g, NoneAfter(q, h)
    PROVE  /\ NoneAfter(q, g)
           /\ \A m \in Packet : m.n = h + 1 => \A k \in DOMAIN q : Follows(q[k], m)
  <1>1. \A k \in DOMAIN q : q[k].n \in Nat /\ q[k].n <= h
    <2>1. \A k \in DOMAIN q : q[k] \in Packet
      OBVIOUS
    <2> QED BY <2>1 DEF NoneAfter, Packet, BrokerAssumption
  <1> QED BY <1>1 DEF NoneAfter, Follows

\* A client's slots that keep or lose what they store, with new ones behind them.
LEMMA ShelvesShrink ==
    ASSUME NEW ts \in Seq(Slot), NEW us \in Seq(Slot), NEW h \in Nat, NEW g \in Nat,
           h <= g, Shelves(ts, h), Len(ts) <= Len(us),
           \A k \in DOMAIN us :
              \/ us[k].tcps = <<>> /\ k > Len(ts)
              \/ /\ k \in DOMAIN ts /\ us[k].sf = ts[k].sf
                 /\ us[k].topic \in {ts[k].topic, Blank}
                 /\ us[k].tcps \in {ts[k].tcps, <<>>}
    PROVE  Shelves(us, g)
  <1>1. /\ DOMAIN us = 1..Len(us) /\ DOMAIN ts = 1..Len(ts)
        /\ Len(us) \in Nat /\ Len(ts) \in Nat
    OBVIOUS
  <1>2. \A k \in DOMAIN us : \A q \in DOMAIN us[k].tcps :
           k \in DOMAIN ts /\ us[k].tcps = ts[k].tcps
    OBVIOUS
  <1>3. \A k \in DOMAIN ts : ts[k].tcps \in Seq(Packet)
    <2>1. \A k \in DOMAIN ts : ts[k] \in Slot
      OBVIOUS
    <2> QED BY <2>1 DEF Slot
  <1>4. \A k \in DOMAIN us : NoneAfter(us[k].tcps, g)
    <2>1. \A k \in DOMAIN ts : NoneAfter(ts[k].tcps, g)
      BY <1>3, LaterFollows DEF Shelves
    <2> QED BY <1>2, <2>1 DEF NoneAfter
  <1>5. SlotsInOrder(us)
    <2>1. \A k \in DOMAIN us : InOrder(us[k].tcps)
      BY <1>2 DEF Shelves, SlotsInOrder, InOrder
    <2> QED BY <1>2, <2>1 DEF Shelves, SlotsInOrder
  <1>6. Foremost(us)
    <2> SUFFICES ASSUME NEW k \in DOMAIN us, NEW q \in DOMAIN us[k].tcps,
                        NEW j \in DOMAIN us, j < k, us[j].sf,
                        us[k].tcps[q].topic # Blank
                 PROVE  us[j].topic # us[k].tcps[q].topic
      BY DEF Foremost
    <2>1. k \in DOMAIN ts /\ us[k].tcps = ts[k].tcps
      BY <1>2
    <2>2. j \in DOMAIN ts /\ ~(j > Len(ts))
      BY <1>1, <2>1
    <2>3. us[j].sf = ts[j].sf /\ us[j].topic \in {ts[j].topic, Blank}
      BY <2>2
    <2>4. ts[j].topic # ts[k].tcps[q].topic
      BY <2>1, <2>2, <2>3 DEF Shelves, Foremost
    <2> QED BY <2>1, <2>3, <2>4
  <1> QED BY <1>4, <1>5, <1>6 DEF Shelves

\* send_tcp stores the next packet in the first slot that has its topic.
LEMMA ShelvesStore ==
    ASSUME NEW ts \in Seq(Slot), NEW K \in SUBSET DOMAIN ts, NEW h \in Nat,
           NEW m \in Packet, m.n = h + 1, Shelves(ts, h),
           \A k \in K : ts[k].topic = m.topic /\ ts[k].sf,
           \A k \in K : \A j \in 1..(k - 1) : ~(ts[j].topic = m.topic /\ ts[j].sf)
    PROVE  Shelves([k \in DOMAIN ts |-> IF k \in K THEN Stored(ts[k], m) ELSE ts[k]],
                   h + 1)
  <1> DEFINE us == [k \in DOMAIN ts |-> IF k \in K THEN Stored(ts[k], m) ELSE ts[k]]
             new(k, p) == k \in K /\ us[k].tcps[p] = m
             old(k, p) == p \in DOMAIN ts[k].tcps /\ us[k].tcps[p] = ts[k].tcps[p]
  <1>1. DOMAIN us = DOMAIN ts /\ DOMAIN ts = 1..Len(ts) /\ Len(ts) \in Nat
    OBVIOUS
  <1>2. \A k \in DOMAIN ts : /\ ts[k].tcps \in Seq(Packet)
                             /\ us[k].sf = ts[k].sf /\ us[k].topic = ts[k].topic
    <2>1. \A k \in DOMAIN ts : ts[k] \in Slot
      OBVIOUS
    <2> QED BY <2>1 DEF Slot, Stored
  <1>3. \A k \in DOMAIN ts : us[k].tcps = IF k \in K THEN Append(ts[k].tcps, m)
                                                    ELSE ts[k].tcps
    BY DEF Stored
  <1> HIDE DEF us
  <1>4. ASSUME NEW k \in DOMAIN ts
        PROVE  /\ \A p \in DOMAIN us[k].tcps :
                     \/ old(k, p)
                     \/ new(k, p) /\ p = Len(ts[k].tcps) + 1
               /\ DOMAIN ts[k].tcps = 1..Len(ts[k].tcps) /\ Len(ts[k].tcps) \in Nat
    <2> DEFINE q == ts[k].tcps
    <2>1. q \in Seq(Packet) /\ DOMAIN q = 1..Len(q) /\ Len(q) \in Nat
      BY <1>2
    <2>2. CASE k \notin K
      BY <1>3, <2>1, <2>2
    <2>3. CASE k \in K
      <3>1. us[k].tcps = Append(q, m)
        BY <1>3, <2>3
      <3> HIDE DEF q
      <3>2. /\ DOMAIN Append(q, m) = 1..(Len(q) + 1) /\ Append(q, m)[Len(q) + 1] = m
            /\ \A p \in 1..Len(q) : Append(q, m)[p] = q[p]
        BY <2>1, AppendProperties
      <3>3. \A p \in 1..(Len(q) + 1) : p \in 1..Len(q) \/ p = Len(q) + 1
        BY <2>1
      <3> QED BY <2>1, <2>3, <3>1, <3>2, <3>3 DEF q
    <2> QED BY <2>2, <2>3, <2>1
  <1>5. \A k \in DOMAIN ts : \A p \in DOMAIN ts[k].tcps :
           Follows(ts[k].tcps[p], m) /\ ts[k].tcps[p].n <= h + 1
    <2>1. \A k \in DOMAIN ts : /\ NoneAfter(ts[k].tcps, h + 1)
                               /\ \A p \in DOMAIN ts[k].tcps : Follows(ts[k].tcps[p], m)
      BY <1>2, LaterFollows DEF Shelves
    <2> QED BY <2>1 DEF NoneAfter
  <1>6. m.n \in Nat /\ Follows(m, m)
    BY DEF Packet, Follows, BrokerAssumption
  <1>7. \A k \in DOMAIN ts : NoneAfter(us[k].tcps, h + 1)
    BY <1>4, <1>5, <1>6 DEF NoneAfter
  <1>8. ASSUME NEW k \in DOMAIN ts PROVE InOrder(us[k].tcps)
    <2> SUFFICES ASSUME NEW p \in DOMAIN us[k].tcps, NEW q \in DOMAIN us[k].tcps, p < q
                 PROVE  Follows(us[k].tcps[p], us[k].tcps[q])
      BY DEF InOrder
    <2>1. old(k, p)
      BY SMTT(20), <1>4
    <2>2. CASE old(k, q)
      <3>1. InOrder(ts[k].tcps)
        BY DEF Shelves, SlotsInOrder
      <3>2. Follows(ts[k].tcps[p], ts[k].tcps[q])
        BY <2>1, <2>2, <3>1 DEF InOrder
      <3> QED BY <2>1, <2>2, <3>2
    <2>3. CASE new(k, q)
      BY <1>5, <2>1, <2>3
    <2> QED BY <1>4, <2>2, <2>3
  <1>9. ASSUME NEW j \in DOMAIN ts, NEW k \in DOMAIN ts, j < k,
               NEW p \in DOMAIN us[j].tcps, NEW q \in DOMAIN us[k].tcps
        PROVE  Follows(us[j].tcps[p], us[k].tcps[q])
    <2>1. CASE old(j, p) /\ old(k, q)
      BY <1>9, <2>1 DEF Shelves, SlotsInOrder
    <2>2. CASE old(j, p) /\ new(k, q)
      BY <1>5, <2>2
    <2>3. CASE new(j, p) /\ old(k, q)
      <3>1. ts[j].sf /\ ts[j].topic = m.topic
        BY <2>3
      <3>2. ts[k].tcps[q].topic # Blank => m.topic # ts[k].tcps[q].topic
        BY <1>9, <2>3, <3>1 DEF Shelves, Foremost
      <3> QED BY <2>3, <3>2 DEF Follows
    <2>4. CASE new(j, p) /\ new(k, q)
      BY <1>6, <2>4
    <2> QED BY <1>4, <2>1, <2>2, <2>3, <2>4
  <1>10. Foremost(us)
    <2> SUFFICES ASSUME NEW k \in DOMAIN ts, NEW q \in DOMAIN us[k].tcps,
                        NEW j \in DOMAIN ts, j < k, us[j].sf,
                        us[k].tcps[q].topic # Blank
                 PROVE  us[j].topic # us[k].tcps[q].topic
      BY <1>1 DEF Foremost
    <2>1. CASE old(k, q)
      BY <1>2, <2>1 DEF Shelves, Foremost
    <2>2. CASE new(k, q)
      <3>1. j \in 1..(k - 1)
        BY <1>1
      <3> QED BY <1>2, <2>2, <3>1
    <2> QED BY <1>4, <2>1, <2>2
  <1>11. SlotsInOrder(us)
    BY <1>1, <1>8, <1>9 DEF SlotsInOrder
  <1>12. Shelves(us, h + 1)
    BY <1>1, <1>7, <1>10, <1>11 DEF Shelves
  <1> QED BY <1>12 DEF us

\* Who is in the array of clients has been recorded under a descriptor.
Recorded == \A c \in Registered : socket[c] \in ClientFd

LEMMA StepRecorded ==
    ASSUME TypeOK, Round, Recorded, [Next]_vars
    PROVE  Recorded'
  <1> USE DEF heap, rest, kernel
  <1>1. CASE UNCHANGED <<clients, socket>>
    BY <1>1 DEF Recorded, Registered
  <1>2. CASE status = "run" /\ RecvId
    <2> DEFINE f  == newtcp_socket
               s  == conn[f]
               id == IF up[s] = <<>> THEN NoId ELSE SessId[s]
    <2>1. f \in ClientFd /\ id \in ClientId
      BY <1>2 DEF RecvId, Round, OpenFd, TypeOK, ClientId, BrokerAssumption
    <2> HIDE DEF id
    <2>2. CASE add_new_client(id, f)
      <3>1. Registered' = Registered \cup {id}
        <4>1. clients \in Seq(ClientId) /\ clients' = Append(clients, id)
          BY <2>2 DEF TypeOK, add_new_client
        <4> QED BY <2>1, <4>1, AppendProperties DEF Registered
      <3>2. socket' = [socket EXCEPT ![id] = f]
        BY <2>2 DEF add_new_client
      <3>3. Registered \subseteq ClientId
        BY DEF Registered, TypeOK
      <3> QED BY <2>1, <3>1, <3>2, <3>3 DEF Recorded, TypeOK
    <2>3. CASE begin_reconnect(id, f) /\ UNCHANGED clients
      <3>1. Registered \subseteq ClientId /\ Registered' = Registered
        BY <2>3 DEF Registered, TypeOK
      <3> QED BY <2>1, <2>3, <3>1 DEF begin_reconnect, Recorded, TypeOK
    <2> QED BY <1>1, <1>2, <2>2, <2>3 DEF RecvId, id
  <1>3. CASE status = "run" /\ Environment
    <2>1. UNCHANGED <<clients, socket>>
      BY <1>3 DEF Environment, Connect, SendId, Leave, SendAction, Publish, TypeLine
    <2> QED BY <1>1, <2>1
  <1>4. CASE status = "run" /\ ServerStep /\ ~RecvId
    <2>1. Dies => UNCHANGED <<clients, socket>>
      BY DEF Dies
    <2>2. CASE \E i \in ClientFd : ReceiveAction(i) \/ ReceiveEnd(i)
      BY <1>1, <2>1, <2>2 DEF ReceiveAction, ReceiveEnd
    <2>3. CASE Select \/ Accept \/ FlushSlot
      BY <1>1, <2>1, <2>3 DEF Select, Accept, FlushSlot
    <2>4. CASE EndReconnect \/ ReceiveDatagram \/ ReadConsole
      BY <1>1, <2>1, <2>4 DEF EndReconnect, ReceiveDatagram, ReadConsole
    <2> QED BY <1>4, <2>2, <2>3, <2>4 DEF ServerStep
  <1>5. CASE UNCHANGED vars
    BY <1>1, <1>5 DEF vars
  <1> QED BY <1>2, <1>3, <1>4, <1>5 DEF Next

LEMMA InitOrder == Init => OrderInv
  <1> SUFFICES ASSUME Init PROVE OrderInv
    OBVIOUS
  <1>1. /\ sent = 0 /\ udpq = <<>> /\ backlog = <<>> /\ pc = "loop"
        /\ \A c \in ClientId : topics[c] = <<>>
        /\ \A s \in Session : got[s] = <<>>
    BY DEF Init
  <1>2. Numbered /\ Handled \in Nat
    BY <1>1 DEF Numbered, Handled
  <1>3. Silent /\ FlushesInOrder
    BY <1>1 DEF Silent, FlushesInOrder
  <1>4. \A s \in Session : InOrder(got[s]) /\ NoneAfter(got[s], Handled)
    BY <1>1 DEF InOrder, NoneAfter
  <1>5. \A c \in ClientId : Shelves(topics[c], Handled)
    BY <1>1 DEF Shelves, SlotsInOrder, Foremost
  <1> QED BY <1>2, <1>3, <1>4, <1>5 DEF OrderInv

\* The types that the order rests on.
LEMMA OrderTypes ==
    ASSUME TypeOK, OrderInv
    PROVE  /\ Handled \in Nat /\ sent \in Nat /\ Len(udpq) \in Nat
           /\ \A c \in ClientId : topics[c] \in Seq(Slot)
           /\ \A s \in Session : got[s] \in Seq(Packet)
           /\ \A c \in ClientId : \A k \in DOMAIN topics[c] :
                 topics[c][k] \in Slot /\ topics[c][k].tcps \in Seq(Packet)
  <1>1. \A c \in ClientId : topics[c] \in Seq(Slot)
    BY DEF TypeOK
  <1>2. \A c \in ClientId : \A k \in DOMAIN topics[c] : topics[c][k] \in Slot
    BY <1>1
  <1>3. \A c \in ClientId : \A k \in DOMAIN topics[c] : topics[c][k].tcps \in Seq(Packet)
    BY <1>2 DEF Slot
  <1>4. Handled \in Nat
    BY DEF OrderInv, Numbered
  <1>5. sent \in Nat /\ Len(udpq) \in Nat /\ \A s \in Session : got[s] \in Seq(Packet)
    BY DEF TypeOK, BrokerAssumption
  <1> QED BY <1>1, <1>2, <1>3, <1>4, <1>5

\* A step that writes, stores and publishes nothing.
LEMMA QuietOrder ==
    ASSUME TypeOK, OrderInv, UNCHANGED <<topics, got, udpq, sent>>,
           \A s \in Session : peer'[s] = "none" => peer[s] = "none",
           \A j \in DOMAIN backlog' : got[backlog'[j]] = <<>>,
           pc' = "recvid" => got[conn'[newtcp_socket']] = <<>>,
           pc' = "flush" => \/ got[conn'[newtcp_socket']] = <<>>
                            \/ pc = "flush" /\ UNCHANGED <<client, slot, conn, newtcp_socket>>
    PROVE  OrderInv'
  <1>1. Handled' = Handled
    BY DEF Handled
  <1>2. Numbered'
    BY <1>1 DEF OrderInv, Numbered
  <1>3. Silent'
    BY DEF OrderInv, Silent
  <1>4. FlushesInOrder'
    BY DEF OrderInv, FlushesInOrder
  <1> QED BY <1>1, <1>2, <1>3, <1>4 DEF OrderInv

\* Slots that lose what they store, or are added, keep everything in order.
LEMMA ShrinkOrder ==
    ASSUME TypeOK, TypeOK', OrderInv, UNCHANGED <<got, udpq, sent>>,
           \A s \in Session : peer'[s] = "none" => peer[s] = "none",
           \A j \in DOMAIN backlog' : got[backlog'[j]] = <<>>,
           pc' = "loop",
           \A c \in ClientId :
              \/ topics'[c] = <<>>
              \/ /\ Len(topics[c]) <= Len(topics'[c])
                 /\ \A k \in DOMAIN topics'[c] :
                       \/ topics'[c][k].tcps = <<>> /\ k > Len(topics[c])
                       \/ /\ k \in DOMAIN topics[c] /\ topics'[c][k].sf = topics[c][k].sf
                          /\ topics'[c][k].topic \in {topics[c][k].topic, Blank}
                          /\ topics'[c][k].tcps \in {topics[c][k].tcps, <<>>}
    PROVE  OrderInv'
  <1>1. Handled' = Handled /\ Handled \in Nat
    BY DEF Handled, OrderInv, Numbered
  <1>2. Numbered' /\ Silent' /\ FlushesInOrder'
    BY <1>1 DEF OrderInv, Numbered, Silent, FlushesInOrder
  <1>3. ASSUME NEW c \in ClientId PROVE Shelves(topics'[c], Handled)
    <2>1. CASE topics'[c] = <<>>
      BY <2>1 DEF Shelves, SlotsInOrder, Foremost
    <2>2. CASE topics'[c] # <<>>
      <3>1. topics[c] \in Seq(Slot) /\ topics'[c] \in Seq(Slot)
        BY DEF TypeOK
      <3>2. Shelves(topics[c], Handled)
        BY DEF OrderInv
      <3>3. Handled <= Handled
        BY <1>1
      <3> QED BY <1>1, <2>2, <3>1, <3>2, <3>3, ShelvesShrink
    <2> QED BY <2>1, <2>2
  <1> QED BY <1>1, <1>2, <1>3 DEF OrderInv

\* Publishers number their datagrams: what has been handled stays the same.
LEMMA PublishOrder ==
    ASSUME TypeOK, OrderInv, NEW t \in PubTopic, NEW ok \in BOOLEAN, Publish(t, ok)
    PROVE  OrderInv'
  <1> DEFINE d == [n |-> sent + 1, topic |-> t, ok |-> ok]
  <1>1. /\ sent' = sent + 1 /\ udpq' = Append(udpq, d) /\ sent < MaxMsgs
        /\ UNCHANGED <<topics, got, peer, backlog, pc, client, slot, conn, newtcp_socket>>
    BY DEF Publish, kernel, heap
  <1>2. d \in Datagram /\ d.n = sent + 1
    <2>1. sent + 1 \in 1..MaxMsgs
      BY <1>1 DEF TypeOK, BrokerAssumption
    <2>2. t \in TopicName
      BY DEF TopicName, BrokerAssumption
    <2> QED BY <2>1, <2>2 DEF Datagram
  <1> HIDE DEF d
  <1>3. /\ Len(udpq') = Len(udpq) + 1 /\ udpq'[Len(udpq) + 1] = d
        /\ \A k \in 1..Len(udpq) : udpq'[k] = udpq[k]
        /\ Len(udpq) \in Nat
    <2>1. udpq \in Seq(Datagram)
      BY DEF TypeOK
    <2> QED BY <1>1, <1>2, <2>1, AppendProperties
  <1>4. sent \in Nat /\ Handled \in Nat
    BY OrderTypes
  <1>5. Handled' = Handled
    BY <1>1, <1>3, <1>4 DEF Handled
  <1>6. Numbered'
    <2>1. ASSUME NEW k \in 1..Len(udpq') PROVE udpq'[k].n = Handled + k
      <3>1. CASE k = Len(udpq) + 1
        BY <1>2, <1>3, <1>4, <3>1 DEF Handled
      <3>2. CASE k # Len(udpq) + 1
        <4>1. k \in 1..Len(udpq)
          BY <1>3, <3>2
        <4> QED BY <1>3, <4>1 DEF OrderInv, Numbered
      <3> QED BY <3>1, <3>2
    <2> QED BY <1>4, <1>5, <2>1 DEF Numbered
  <1>7. Silent' /\ FlushesInOrder'
    BY <1>1 DEF OrderInv, Silent, FlushesInOrder
  <1> QED BY <1>1, <1>5, <1>6, <1>7 DEF OrderInv

\* One slot of a client that is back is written behind what it has been sent.
LEMMA FlushOrder ==
    ASSUME TypeOK, Round, Books, OrderInv, status = "run", FlushSlot
    PROVE  OrderInv'
  <1> DEFINE s  == conn[newtcp_socket]
             sl == topics[client][slot]
  <1>1. /\ UNCHANGED <<topics, udpq, sent, backlog, pc, client, conn, newtcp_socket>>
        /\ pc = "flush" /\ slot \in DOMAIN topics[client]
    BY DEF FlushSlot, heap, rest
  <1>2. s \in Session /\ newtcp_socket \in OpenFd
    BY <1>1 DEF Round, OpenFd, TypeOK
  <1>3. client \in ClientId /\ slot \in Nat
    BY DEF TypeOK
  <1>4. \A x \in Session : peer'[x] = "none" => peer[x] = "none"
    <2>1. peer' = peer \/ SendSurvives({s})
      BY DEF FlushSlot
    <2> QED BY <2>1 DEF SendSurvives
  <1>5. CASE got' = got /\ slot' = slot
    BY <1>1, <1>4, <1>5, QuietOrder DEF OrderInv, Silent
  <1>6. CASE got' = [got EXCEPT ![s] = @ \o sl.tcps] /\ slot' = slot + 1
    <2>1. sl.tcps \in Seq(Packet) /\ got[s] \in Seq(Packet) /\ Handled \in Nat
      BY <1>1, <1>2, <1>3, OrderTypes
    <2>2. /\ InOrder(got[s]) /\ NoneAfter(got[s], Handled)
          /\ Shelves(topics[client], Handled)
      BY <1>2, <1>3 DEF OrderInv
    <2>3. InOrder(sl.tcps) /\ NoneAfter(sl.tcps, Handled)
      BY <1>1, <2>2 DEF Shelves, SlotsInOrder
    <2>4. \A j \in DOMAIN got[s], p \in DOMAIN sl.tcps : Follows(got[s][j], sl.tcps[p])
      <3>1. slot <= slot
        BY <1>3
      <3> QED BY <1>1, <3>1 DEF OrderInv, FlushesInOrder
    <2>5. /\ got'[s] = got[s] \o sl.tcps
          /\ \A x \in Session : x # s => got'[x] = got[x]
      BY <1>2, <1>6 DEF TypeOK
    <2> DEFINE q == sl.tcps
    <2> HIDE DEF q
    <2>6. InOrder(got[s] \o sl.tcps) /\ NoneAfter(got[s] \o sl.tcps, Handled)
      <3>1. /\ q \in Seq(Packet) /\ InOrder(q) /\ NoneAfter(q, Handled)
            /\ \A j \in DOMAIN got[s], p \in DOMAIN q : Follows(got[s][j], q[p])
        BY <2>1, <2>3, <2>4 DEF q
      <3>2. InOrder(got[s] \o q) /\ NoneAfter(got[s] \o q, Handled)
        BY <2>1, <2>2, <3>1, JoinedInOrder, JoinedNoneAfter
      <3> QED BY <3>2 DEF q
    <2>7. Handled' = Handled
      BY <1>1 DEF Handled
    <2>8. \A x \in Session : InOrder(got'[x]) /\ NoneAfter(got'[x], Handled)
      BY <2>5, <2>6 DEF OrderInv
    <2>9. FlushesInOrder'
      <3> SUFFICES ASSUME NEW k \in DOMAIN topics[client], slot + 1 <= k,
                          NEW j \in DOMAIN got'[s], NEW p \in DOMAIN topics[client][k].tcps
                   PROVE  Follows(got'[s][j], topics[client][k].tcps[p])
        BY <1>1, <1>6 DEF FlushesInOrder
      <3>1. k \in Nat /\ slot < k /\ slot <= k
        <4>1. DOMAIN topics[client] = 1..Len(topics[client])
          BY <1>3, OrderTypes
        <4>2. Len(topics[client]) \in Nat
          BY <1>3, OrderTypes
        <4> QED BY <1>3, <4>1, <4>2
      <3>2. \A i \in DOMAIN got[s] : Follows(got[s][i], topics[client][k].tcps[p])
        BY <1>1, <3>1 DEF OrderInv, FlushesInOrder
      <3>3. \A i \in DOMAIN q : Follows(q[i], topics[client][k].tcps[p])
        BY <1>1, <2>2, <3>1 DEF Shelves, SlotsInOrder, q
      <3>4. \/ j \in DOMAIN got[s] /\ got'[s][j] = got[s][j]
            \/ \E i \in DOMAIN q : got'[s][j] = q[i]
        <4>1. q \in Seq(Packet) /\ got'[s] = got[s] \o q
          BY <2>1, <2>5 DEF q
        <4>2. /\ Len(q) \in Nat /\ Len(got[s]) \in Nat /\ DOMAIN q = 1..Len(q)
              /\ DOMAIN got[s] = 1..Len(got[s])
          BY <2>1, <4>1
        <4>3. /\ got[s] \o q \in Seq(Packet) /\ Len(got[s] \o q) = Len(got[s]) + Len(q)
              /\ \A i \in 1..Len(got[s]) + Len(q) : (got[s] \o q)[i] =
                    IF i <= Len(got[s]) THEN got[s][i] ELSE q[i - Len(got[s])]
          BY <2>1, <4>1, ConcatProperties
        <4>4. j \in 1..Len(got[s]) + Len(q)
          BY <4>1, <4>3
        <4>5. CASE j <= Len(got[s])
          BY <4>1, <4>2, <4>3, <4>4, <4>5
        <4>6. CASE ~(j <= Len(got[s]))
          <5>1. j - Len(got[s]) \in DOMAIN q
            BY <4>2, <4>4, <4>6
          <5> QED BY <4>1, <4>3, <4>4, <4>6, <5>1
        <4> QED BY <4>5, <4>6
      <3> QED BY <3>2, <3>3, <3>4
    <2>10. Silent'
      <3>1. peer'[s] # "none"
        BY <1>2, <1>4 DEF Books, Placed
      <3>2. \A j \in DOMAIN backlog : backlog[j] \in Session /\ backlog[j] # s
        BY <1>2 DEF Books, Placed, TypeOK
      <3> QED BY <1>1, <1>4, <2>5, <3>1, <3>2 DEF OrderInv, Silent
    <2>11. Numbered'
      BY <1>1, <2>7 DEF OrderInv, Numbered
    <2> QED BY <1>1, <2>7, <2>8, <2>9, <2>10, <2>11 DEF OrderInv
  <1> QED BY <1>5, <1>6 DEF FlushSlot

\* A datagram is handled: its packet is written and stored behind all before it.
LEMMA HandleOrder ==
    ASSUME TypeOK, TypeOK', Round, Books, Recorded, OrderInv, status = "run",
           pc = "loop", udpq # <<>>, udpq' = Tail(udpq), send_tcp(udp_to_tcp(Head(udpq))),
           UNCHANGED <<connected, sent, backlog, pc, conn>>
    PROVE  OrderInv'
  <1> DEFINE m == udp_to_tcp(Head(udpq))
             to == {c \in Receivers(m) : conn[socket[c]] # NoSession}
             copies(s) == Cardinality({c \in to : conn[socket[c]] = s})
  <1>1. Handled \in Nat /\ sent \in Nat /\ Len(udpq) \in Nat
    BY OrderTypes
  <1>2. /\ Len(udpq') = Len(udpq) - 1 /\ Len(udpq) # 0
        /\ \A k \in 1..Len(udpq') : udpq'[k] = udpq[k + 1]
        /\ Head(udpq) \in Datagram /\ Head(udpq) = udpq[1]
    <2>1. udpq \in Seq(Datagram)
      BY DEF TypeOK
    <2> QED BY <2>1, HeadTailProperties
  <1>3. Handled' = Handled + 1
    BY <1>1, <1>2 DEF Handled
  <1>4. m \in Packet /\ m.n = Handled + 1
    <2>1. Head(udpq).n = Handled + 1
      <3>1. 1 \in 1..Len(udpq)
        BY <1>1, <1>2
      <3> QED BY <1>2, <3>1 DEF OrderInv, Numbered
    <2> QED BY <1>2, <2>1 DEF udp_to_tcp, Datagram, Packet
  <1>5. Numbered'
    <2>1. ASSUME NEW k \in 1..Len(udpq') PROVE udpq'[k].n = Handled + 1 + k
      <3>1. k + 1 \in 1..Len(udpq) /\ k \in Nat
        BY <1>1, <1>2
      <3>2. udpq[k + 1].n = Handled + (k + 1)
        BY <3>1 DEF OrderInv, Numbered
      <3> QED BY <1>1, <1>2, <3>1, <3>2
    <2> QED BY SMTT(20), <1>1, <1>3, <2>1 DEF Numbered
  <1>6. /\ got' = [s \in Session |-> got[s] \o [j \in 1..copies(s) |-> m]]
        /\ topics' = [c \in ClientId |->
                        [k \in DOMAIN topics[c] |->
                           IF StoresAt(c, k, m) THEN Stored(topics[c][k], m)
                                                ELSE topics[c][k]]]
        /\ SendSurvives({conn[socket[c]] : c \in to})
    BY DEF send_tcp
  <1>7. to \subseteq ClientId
    BY DEF Receivers, Registered, TypeOK
  <1>8. \A s \in Session : copies(s) \in Nat
    BY <1>7, CopiesType
  <1>9. \A c \in to : socket[c] \in OpenFd
    BY DEF Receivers, Recorded, OpenFd
  <1>10. ASSUME NEW s \in Session
         PROVE  \/ copies(s) = 0
                \/ \E f \in OpenFd : conn[f] = s
    <2>1. CASE {c \in to : conn[socket[c]] = s} = {}
      BY <2>1, FS_EmptySet
    <2>2. CASE {c \in to : conn[socket[c]] = s} # {}
      BY <1>9, <2>2
    <2> QED BY <2>1, <2>2
  <1> HIDE DEF m, to, copies
  <1>11. ASSUME NEW s \in Session
         PROVE  /\ InOrder(got'[s]) /\ NoneAfter(got'[s], Handled + 1)
                /\ got'[s] = got[s] \/ \E f \in OpenFd : conn[f] = s
    <2> DEFINE q == [j \in 1..copies(s) |-> m]
    <2>1. q \in Seq(Packet) /\ \A j \in DOMAIN q : q[j] = m
      BY <1>4, <1>8
    <2>2. got'[s] = got[s] \o q /\ got[s] \in Seq(Packet)
      BY <1>6, OrderTypes
    <2>3. copies(s) = 0 => q = <<>>
      BY <1>8
    <2> HIDE DEF q
    <2>4. InOrder(got[s]) /\ NoneAfter(got[s], Handled)
      BY DEF OrderInv
    <2>5. NoneAfter(got[s], Handled + 1) /\ \A j \in DOMAIN got[s] : Follows(got[s][j], m)
      <3>1. Handled <= Handled + 1 /\ Handled + 1 \in Nat
        BY <1>1
      <3> QED BY <1>1, <1>4, <2>2, <2>4, <3>1, LaterFollows
    <2>6. InOrder(q) /\ NoneAfter(q, Handled + 1)
      BY <1>1, <1>4, <2>1 DEF InOrder, NoneAfter, Follows
    <2>7. \A j \in DOMAIN got[s], k \in DOMAIN q : Follows(got[s][j], q[k])
      BY <2>1, <2>5
    <2>8. InOrder(got'[s])
      BY <2>1, <2>2, <2>4, <2>6, <2>7, JoinedInOrder
    <2>9. NoneAfter(got'[s], Handled + 1)
      <3>1. Handled + 1 \in Nat
        BY <1>1
      <3> QED BY <2>1, <2>2, <2>5, <2>6, <3>1, JoinedNoneAfter
    <2>10. copies(s) = 0 => got'[s] = got[s]
      BY <2>2, <2>3, ConcatEmptySeq
    <2> QED BY <1>10, <2>8, <2>9, <2>10
  <1>12. ASSUME NEW c \in ClientId PROVE Shelves(topics'[c], Handled + 1)
    <2> DEFINE K == {k \in DOMAIN topics[c] : StoresAt(c, k, m)}
    <2>1. topics[c] \in Seq(Slot) /\ Shelves(topics[c], Handled)
      BY OrderTypes DEF OrderInv
    <2>2. topics'[c] = [k \in DOMAIN topics[c] |->
                          IF k \in K THEN Stored(topics[c][k], m) ELSE topics[c][k]]
      BY <1>6
    <2>3. \A k \in K : topics[c][k].topic = m.topic /\ topics[c][k].sf
      BY DEF StoresAt, IsTarget
    <2>4. \A k \in K : \A j \in 1..(k - 1) :
             ~(topics[c][j].topic = m.topic /\ topics[c][j].sf)
      BY DEF StoresAt, IsTarget
    <2>5. K \in SUBSET DOMAIN topics[c]
      OBVIOUS
    <2>6. m \in Packet /\ m.n = Handled + 1 /\ Handled \in Nat
      BY <1>1, <1>4
    <2> HIDE DEF K
    <2> DEFINE ts == topics[c]
    <2> HIDE DEF ts
    <2>7. /\ ts \in Seq(Slot) /\ Shelves(ts, Handled) /\ K \in SUBSET DOMAIN ts
          /\ \A k \in K : ts[k].topic = m.topic /\ ts[k].sf
          /\ \A k \in K : \A j \in 1..(k - 1) : ~(ts[j].topic = m.topic /\ ts[j].sf)
      BY <2>1, <2>3, <2>4, <2>5 DEF ts
    <2>8. Shelves([k \in DOMAIN ts |-> IF k \in K THEN Stored(ts[k], m) ELSE ts[k]],
                  Handled + 1)
      BY ONLY <2>6, <2>7, ShelvesStore
    <2> QED BY <2>2, <2>8 DEF ts
  <1>13. Silent'
    <2>1. \A s \in Session : peer'[s] = peer[s] \/ peer'[s] = "fin"
      BY <1>6 DEF SendSurvives
    <2>2. \A s \in Session : peer[s] = "none" => got'[s] = got[s]
      BY <1>11 DEF Books, Placed
    <2>3. \A j \in DOMAIN backlog : backlog[j] \in Session
      BY DEF TypeOK
    <2>4. \A j \in DOMAIN backlog : got'[backlog[j]] = got[backlog[j]]
      BY <1>11, <2>3 DEF Books, Placed
    <2> QED BY <2>1, <2>2, <2>4 DEF OrderInv, Silent
  <1>14. FlushesInOrder'
    BY DEF FlushesInOrder
  <1> QED BY <1>3, <1>5, <1>11, <1>12, <1>13, <1>14 DEF OrderInv

\* Every step keeps what is written, and what is stored, in order.
LEMMA StepOrder ==
    ASSUME TypeOK, TypeOK', Round, Books, Recorded, OrderInv, [Next]_vars
    PROVE  OrderInv'
  <1> USE DEF heap, rest, kernel
  <1>a. \A j \in DOMAIN backlog : backlog[j] \in Session /\ got[backlog[j]] = <<>>
    <2>1. backlog \in Seq(Session)
      BY DEF TypeOK
    <2> QED BY <2>1 DEF OrderInv, Silent
  <1>b. pc = "recvid" => got[conn[newtcp_socket]] = <<>>
    BY DEF OrderInv, Silent
  <1>1. CASE UNCHANGED <<topics, got, udpq, sent, peer, backlog, pc, client, slot, conn,
                         newtcp_socket>>
    BY <1>a, <1>b, <1>1, QuietOrder
  <1> SUFFICES ASSUME status = "run", ServerStep \/ Environment
               PROVE  OrderInv'
    BY <1>1 DEF Next, vars
  <1>c. CASE Dies
    BY <1>1, <1>c DEF Dies
  <1>2. CASE Select
    BY <1>1, <1>2 DEF Select
  <1>3. CASE Accept
    <2> SUFFICES ASSUME NEW f \in ClientFd, conn' = [conn EXCEPT ![f] = Head(backlog)],
                        tcp_socket \in tmp_fds, backlog' = Tail(backlog),
                        newtcp_socket' = f, pc' = "recvid",
                        UNCHANGED <<topics, got, udpq, sent, peer>>
                 PROVE  OrderInv'
      BY <1>3, <1>c DEF Accept, Turn
    <2>1. backlog \in Seq(Session) /\ backlog # <<>>
      BY DEF Round, TypeOK
    <2>2. /\ Head(backlog) = backlog[1] /\ 1 \in DOMAIN backlog
          /\ \A j \in DOMAIN backlog' : /\ j + 1 \in DOMAIN backlog
                                        /\ backlog'[j] = backlog[j + 1]
      <3>1. Head(backlog) = backlog[1] /\ 1 \in DOMAIN backlog
        BY <2>1
      <3>2. /\ Len(backlog') = Len(backlog) - 1 /\ DOMAIN backlog' = 1..Len(backlog')
            /\ \A j \in 1..Len(backlog') : backlog'[j] = backlog[j + 1]
        BY <2>1, HeadTailProperties
      <3>3. DOMAIN backlog = 1..Len(backlog) /\ Len(backlog) \in Nat
        BY <2>1
      <3> QED BY <3>1, <3>2, <3>3
    <2>3. got[conn'[newtcp_socket']] = <<>>
      <3>1. conn'[f] = backlog[1]
        BY <2>2 DEF TypeOK
      <3> QED BY <1>a, <2>2, <3>1
    <2>4. \A j \in DOMAIN backlog' : got[backlog'[j]] = <<>>
      BY <1>a, <2>2
    <2> QED BY <2>3, <2>4, QuietOrder
  <1>4. CASE RecvId
    <2> DEFINE f  == newtcp_socket
               s  == conn[f]
               id == IF up[s] = <<>> THEN NoId ELSE SessId[s]
    <2>1. pc = "recvid" /\ UNCHANGED <<backlog, got, udpq, sent>> /\ s \in Session
      BY <1>4 DEF RecvId, Round, OpenFd, TypeOK
    <2>a. got[s] = <<>> /\ \A j \in DOMAIN backlog' : got[backlog'[j]] = <<>>
      BY <1>a, <1>b, <2>1
    <2> HIDE DEF id
    <2>2. CASE add_new_client(id, f) /\ pc' = "loop" /\ UNCHANGED peer
      <3>1. topics' = [topics EXCEPT ![id] = <<>>]
        BY <2>2 DEF add_new_client
      <3>2. \A c \in ClientId : \/ topics'[c] = <<>>
                                \/ topics'[c] = topics[c] /\ topics[c] \in Seq(Slot)
        BY <3>1 DEF TypeOK
      <3>3. \A c \in ClientId :
               \/ topics'[c] = <<>>
               \/ /\ Len(topics[c]) <= Len(topics'[c])
                  /\ \A k \in DOMAIN topics'[c] :
                        /\ k \in DOMAIN topics[c] /\ topics'[c][k].sf = topics[c][k].sf
                        /\ topics'[c][k].topic \in {topics[c][k].topic, Blank}
                        /\ topics'[c][k].tcps \in {topics[c][k].tcps, <<>>}
        BY <3>2
      <3> QED BY <2>1, <2>2, <2>a, <3>3, ShrinkOrder
    <2>3. CASE peer' = [peer EXCEPT ![s] = IF @ = "open" THEN "refused" ELSE @]
               /\ pc' = "loop" /\ UNCHANGED topics
      <3>1. \A r \in Session : peer'[r] = "none" => peer[r] = "none"
        BY <2>3 DEF TypeOK
      <3> QED BY <2>1, <2>3, <2>a, <3>1, QuietOrder
    <2>4. CASE pc' = "flush" /\ UNCHANGED <<topics, peer, conn, newtcp_socket>>
      BY <2>1, <2>4, <2>a, QuietOrder
    <2> QED BY <1>4, <2>2, <2>3, <2>4 DEF RecvId, id
  <1>5. CASE FlushSlot
    BY <1>5, FlushOrder
  <1>6. CASE EndReconnect
    <2>1. /\ topics' = [topics EXCEPT ![client] = [k \in DOMAIN @ |-> Emptied(@[k])]]
          /\ pc' = "loop" /\ UNCHANGED <<backlog, got, udpq, sent, peer>>
      BY <1>6 DEF EndReconnect
    <2>2. ASSUME NEW c \in ClientId
          PROVE  /\ Len(topics[c]) <= Len(topics'[c])
                 /\ \A k \in DOMAIN topics'[c] :
                       /\ k \in DOMAIN topics[c] /\ topics'[c][k].sf = topics[c][k].sf
                       /\ topics'[c][k].topic \in {topics[c][k].topic, Blank}
                       /\ topics'[c][k].tcps \in {topics[c][k].tcps, <<>>}
      <3>1. topics[c] \in Seq(Slot) /\ topics'[c] \in Seq(Slot)
        BY DEF TypeOK
      <3>2. DOMAIN topics'[c] = DOMAIN topics[c]
            /\ \A k \in DOMAIN topics[c] :
                  topics'[c][k] \in {topics[c][k], Emptied(topics[c][k])}
        BY <2>1 DEF TypeOK
      <3>3. Len(topics[c]) <= Len(topics'[c])
        <4>1. /\ Len(topics[c]) \in Nat /\ DOMAIN topics[c] = 1..Len(topics[c])
              /\ Len(topics'[c]) \in Nat /\ DOMAIN topics'[c] = 1..Len(topics'[c])
          BY <3>1
        <4> QED BY <3>2, <4>1
      <3>4. \A sl : /\ Emptied(sl).sf = sl.sf /\ Emptied(sl).topic = sl.topic
                    /\ Emptied(sl).tcps = <<>>
        BY DEF Emptied
      <3> QED BY <3>2, <3>3, <3>4
    <2> QED BY <1>a, <2>1, <2>2, ShrinkOrder
  <1>7. CASE ReceiveDatagram
    <2> SUFFICES ASSUME Turn(udp_socket), udpq' = Tail(udpq),
                        send_tcp(udp_to_tcp(Head(udpq))),
                        UNCHANGED <<connected, rest, pc, conn>>
                 PROVE  OrderInv'
      BY <1>7, <1>c DEF ReceiveDatagram
    <2>1. udpq # <<>> /\ pc = "loop"
      BY DEF Turn, Round
    <2> QED BY <2>1, HandleOrder
  <1>8. CASE ReadConsole
    <2>1. pc = "loop" /\ UNCHANGED <<topics, got, udpq, sent, peer, backlog, pc>>
      BY <1>8 DEF ReadConsole, Turn
    <2> QED BY <1>a, <2>1, QuietOrder
  <1>9. ASSUME NEW i \in ClientFd, ReceiveAction(i) PROVE OrderInv'
    <2> DEFINE a == Head(up[conn[i]])
    <2>1. /\ pc' = "loop" /\ UNCHANGED <<got, udpq, sent, peer, backlog>>
          /\ subscribe_to_topic(a, i) \/ unsubscribe(a, i)
      BY <1>9 DEF ReceiveAction, Turn
    <2> HIDE DEF a
    <2>2. ASSUME NEW c \in ClientId
          PROVE  /\ Len(topics[c]) <= Len(topics'[c])
                 /\ \A k \in DOMAIN topics'[c] :
                       \/ topics'[c][k].tcps = <<>> /\ k > Len(topics[c])
                       \/ /\ k \in DOMAIN topics[c] /\ topics'[c][k].sf = topics[c][k].sf
                          /\ topics'[c][k].topic \in {topics[c][k].topic, Blank}
                          /\ topics'[c][k].tcps \in {topics[c][k].tcps, <<>>}
      <3>1. /\ topics[c] \in Seq(Slot) /\ topics'[c] \in Seq(Slot)
            /\ \A k \in DOMAIN topics[c] : topics[c][k] \in Slot
        <4>1. topics[c] \in Seq(Slot) /\ topics'[c] \in Seq(Slot)
          BY DEF TypeOK
        <4> QED BY <4>1
      <3>2. /\ Len(topics[c]) \in Nat /\ DOMAIN topics[c] = 1..Len(topics[c])
            /\ Len(topics'[c]) \in Nat /\ DOMAIN topics'[c] = 1..Len(topics'[c])
        BY <3>1
      <3>3. CASE subscribe_to_topic(a, i)
        <4>1. topics'[c] = topics[c] \/ topics'[c] = Append(topics[c], new_topic(a))
          BY <3>3 DEF subscribe_to_topic
        <4>2. new_topic(a).tcps = <<>>
          BY DEF new_topic
        <4>3. CASE topics'[c] = topics[c]
          BY <3>2, <4>3
        <4>4. CASE topics'[c] = Append(topics[c], new_topic(a))
          <5>1. /\ Len(topics'[c]) = Len(topics[c]) + 1
                /\ \A k \in 1..Len(topics[c]) : topics'[c][k] = topics[c][k]
                /\ topics'[c][Len(topics[c]) + 1] = new_topic(a)
            BY <3>1, <4>4
          <5> QED BY SMTT(20), <3>2, <4>2, <5>1
        <4> QED BY <4>1, <4>3, <4>4
      <3>4. CASE unsubscribe(a, i)
        <4>1. DOMAIN topics'[c] = DOMAIN topics[c]
              /\ \A k \in DOMAIN topics[c] :
                    \/ topics'[c][k] = topics[c][k]
                    \/ topics'[c][k] = [topics[c][k] EXCEPT !.topic = Blank]
          BY <3>4 DEF unsubscribe
        <4>2. \A sl \in Slot : /\ [sl EXCEPT !.topic = Blank].sf = sl.sf
                               /\ [sl EXCEPT !.topic = Blank].tcps = sl.tcps
                               /\ [sl EXCEPT !.topic = Blank].topic = Blank
          BY DEF Slot
        <4>3. Len(topics[c]) <= Len(topics'[c])
          BY <3>2, <4>1
        <4>4. ASSUME NEW k \in DOMAIN topics'[c]
              PROVE  /\ k \in DOMAIN topics[c] /\ topics'[c][k].sf = topics[c][k].sf
                     /\ topics'[c][k].topic \in {topics[c][k].topic, Blank}
                     /\ topics'[c][k].tcps = topics[c][k].tcps
          <5>1. k \in DOMAIN topics[c] /\ topics[c][k] \in Slot
            BY <3>1, <4>1
          <5>2. CASE topics'[c][k] = topics[c][k]
            BY <5>1, <5>2
          <5>3. CASE topics'[c][k] = [topics[c][k] EXCEPT !.topic = Blank]
            BY <4>2, <5>1, <5>3
          <5> QED BY <4>1, <5>1, <5>2, <5>3
        <4> QED BY <4>3, <4>4
      <3> QED BY <2>1, <3>3, <3>4
    <2> QED BY <1>a, <2>1, <2>2, ShrinkOrder
  <1>10. ASSUME NEW i \in ClientFd, ReceiveEnd(i) PROVE OrderInv'
    <2> SUFFICES ASSUME Turn(i), disconnect_subscriber(i),
                        UNCHANGED <<rest, pc, peer, got, udpq>>
                 PROVE  OrderInv'
      BY <1>10, <1>c DEF ReceiveEnd
    <2>1. pc' = "loop"
      BY DEF Turn
    <2>2. ASSUME NEW c \in ClientId
          PROVE  /\ Len(topics[c]) <= Len(topics'[c])
                 /\ \A k \in DOMAIN topics'[c] :
                       /\ k \in DOMAIN topics[c] /\ topics'[c][k].sf = topics[c][k].sf
                       /\ topics'[c][k].topic \in {topics[c][k].topic, Blank}
                       /\ topics'[c][k].tcps \in {topics[c][k].tcps, <<>>}
      <3>1. topics[c] \in Seq(Slot) /\ topics'[c] \in Seq(Slot)
        BY DEF TypeOK
      <3>2. \A k \in DOMAIN topics[c] : topics[c][k] \in Slot
        BY <3>1
      <3>3. DOMAIN topics'[c] = DOMAIN topics[c]
            /\ \A k \in DOMAIN topics[c] :
                  topics'[c][k] \in {topics[c][k], Shelved(topics[c][k])}
        BY DEF disconnect_subscriber
      <3>4. Len(topics[c]) <= Len(topics'[c])
        <4>1. /\ Len(topics[c]) \in Nat /\ DOMAIN topics[c] = 1..Len(topics[c])
              /\ Len(topics'[c]) \in Nat /\ DOMAIN topics'[c] = 1..Len(topics'[c])
          BY <3>1
        <4> QED BY <3>3, <4>1
      <3>5. \A sl \in Slot : /\ Shelved(sl).sf = sl.sf /\ Shelved(sl).topic = sl.topic
                             /\ Shelved(sl).tcps \in {sl.tcps, <<>>}
        BY DEF Shelved, Slot
      <3> QED BY <3>2, <3>3, <3>4, <3>5
    <2> QED BY <1>a, <2>1, <2>2, ShrinkOrder
  <1>11. ASSUME NEW s \in Session, Connect(s) PROVE OrderInv'
    <2>1. /\ backlog \in Seq(Session) /\ backlog' = Append(backlog, s)
          /\ peer[s] = "none" /\ peer' = [peer EXCEPT ![s] = "connecting"]
          /\ UNCHANGED <<topics, got, udpq, sent, pc, client, slot, conn, newtcp_socket>>
      BY <1>11 DEF Connect, TypeOK
    <2>2. got[s] = <<>>
      BY <2>1 DEF OrderInv, Silent
    <2>3. \A j \in DOMAIN backlog' : \/ j \in DOMAIN backlog /\ backlog'[j] = backlog[j]
                                     \/ backlog'[j] = s
      BY <2>1, AppendProperties
    <2>4. \A r \in Session : peer'[r] = "none" => peer[r] = "none"
      BY <2>1 DEF TypeOK
    <2>5. \A j \in DOMAIN backlog' : got[backlog'[j]] = <<>>
      BY <1>a, <2>2, <2>3
    <2> QED BY <1>b, <2>1, <2>4, <2>5, QuietOrder
  <1>12. ASSUME NEW s \in Session, SendId(s) \/ Leave(s) PROVE OrderInv'
    <2>1. /\ \A r \in Session : peer'[r] = "none" => peer[r] = "none"
          /\ UNCHANGED <<topics, got, udpq, sent, backlog, pc, client, slot, conn,
                         newtcp_socket>>
      BY <1>12 DEF SendId, Leave, TypeOK
    <2> QED BY <1>a, <1>b, <2>1, QuietOrder
  <1>13. ASSUME NEW s \in Session, NEW a \in SentActions, SendAction(s, a)
         PROVE  OrderInv'
    BY <1>1, <1>13 DEF SendAction
  <1>14. ASSUME NEW t \in PubTopic, NEW ok \in BOOLEAN, Publish(t, ok) PROVE OrderInv'
    BY <1>14, PublishOrder
  <1>15. ASSUME NEW line \in Lines, TypeLine(line) PROVE OrderInv'
    BY <1>1, <1>15 DEF TypeLine
  <1> QED
    BY <1>2, <1>3, <1>4, <1>5, <1>6, <1>7, <1>8, <1>9, <1>10, <1>11, <1>12, <1>13,
       <1>14, <1>15 DEF ServerStep, Environment

\* On every connection the packets of a topic follow the order in which their
\* datagrams arrived, also those that were stored in between and sent on a return.
THEOREM TopicsInOrder == Spec => []PerTopicOrder
  <1>1. Init => Recorded /\ OrderInv
    BY InitOrder DEF Init, Recorded, Registered
  <1>2. IInv /\ IInv' /\ Recorded /\ OrderInv /\ [Next]_vars
        => (Recorded /\ OrderInv)'
    BY StepRecorded, StepOrder DEF IInv
  <1>3. OrderInv => PerTopicOrder
    BY DEF OrderInv, InOrder, Follows, PerTopicOrder
  <1> QED BY <1>1, <1>2, <1>3, Inductive, PTL DEF Spec

-----------------------------------------------------------------------------
(* The arrays, while no two clients are recorded under one descriptor.       *)

\* Every array has room for what is in it, and where send_tcp may store the next
\* packet, at least one place, so that doubling makes it larger.
HasRoom ==
    /\ \A c \in ClientId : \A k \in DOMAIN topics[c] : ~Overruns(topics[c][k])
    /\ \A c \in Registered : ~connected[c] =>
          \A k \in DOMAIN topics[c] : topics[c][k].sf => topics[c][k].cap > 0

\* Storing keeps the array large enough if it has a place at all.
LEMMA StoredHasRoom ==
    ASSUME NEW sl \in Slot, NEW m \in Packet, ~Overruns(sl), sl.cap > 0
    PROVE  ~Overruns(Stored(sl, m)) /\ Stored(sl, m).cap > 0
  <1>1. sl.tcps \in Seq(Packet) /\ sl.cap \in Nat
    BY DEF Slot
  <1>2. Len(Append(sl.tcps, m)) = Len(sl.tcps) + 1 /\ Len(sl.tcps) \in Nat
    BY <1>1, AppendProperties
  <1>3. Len(sl.tcps) <= sl.cap
    BY <1>1, <1>2 DEF Overruns
  <1>4. Len(sl.tcps) + 1 <= (IF Len(sl.tcps) = sl.cap THEN 2 * sl.cap ELSE sl.cap)
    BY <1>1, <1>2, <1>3
  <1>5. Stored(sl, m).tcps = Append(sl.tcps, m)
        /\ Stored(sl, m).cap = IF Len(sl.tcps) = sl.cap THEN 2 * sl.cap ELSE sl.cap
    BY DEF Stored
  <1>6. ~Overruns(Stored(sl, m))
    BY <1>1, <1>2, <1>4, <1>5 DEF Overruns
  <1>7. Stored(sl, m).cap > 0
    BY <1>1, <1>5
  <1> QED BY <1>6, <1>7

\* Only the client recorded under a connection that is served is subscribed over
\* it, and that client is connected.
LEMMA OwnerIsConnected ==
    ASSUME Served, NoAlias, NEW i \in OpenFd, i # newtcp_socket, NEW c, IsOwner(c, i)
    PROVE  connected[c]
  <1>1. PICK d \in Registered : connected[d] /\ socket[d] = i
    BY DEF Served, LiveIsConnected
  <1>2. c \in Registered /\ socket[c] = i
    BY DEF IsOwner, Registered
  <1> QED BY <1>1, <1>2 DEF NoAlias

LEMMA StepHasRoom ==
    ASSUME TypeOK, Round, Served, NoAlias, HasRoom, [Next]_vars
    PROVE  HasRoom'
  <1> USE DEF heap, rest, kernel
  <1>a. \A c \in ClientId : /\ topics[c] \in Seq(Slot)
                            /\ \A k \in DOMAIN topics[c] : topics[c][k] \in Slot
    <2>1. \A c \in ClientId : topics[c] \in Seq(Slot)
      BY DEF TypeOK
    <2> QED BY <2>1
  <1>b. Registered \subseteq ClientId
    BY DEF Registered, TypeOK
  <1>c. \A sl : sl.tcps = <<>> /\ sl.cap \in Nat => ~Overruns(sl)
    <2>1. Len(<<>>) = 0
      OBVIOUS
    <2> QED BY <2>1 DEF Overruns
  <1>1. CASE UNCHANGED <<clients, connected, topics>>
    BY <1>1 DEF HasRoom, Registered
  <1> SUFFICES ASSUME status = "run", ServerStep \/ Environment
               PROVE  HasRoom'
    BY <1>1 DEF Next, vars
  <1>d. CASE Dies
    BY <1>1, <1>d DEF Dies
  <1>2. CASE Environment
    <2>1. UNCHANGED <<clients, connected, topics>>
      BY <1>2 DEF Environment, Connect, SendId, Leave, SendAction, Publish, TypeLine
    <2> QED BY <1>1, <2>1
  <1>3. CASE Select \/ Accept \/ FlushSlot \/ ReadConsole
    BY <1>1, <1>3, <1>d DEF Select, Accept, FlushSlot, ReadConsole
  <1>4. CASE RecvId
    <2> DEFINE f  == newtcp_socket
               id == IF up[conn[f]] = <<>> THEN NoId ELSE SessId[conn[f]]
    <2>1. conn[f] \in Session
      BY <1>4 DEF RecvId, Round, OpenFd, TypeOK
    <2>2. id \in ClientId
      BY <2>1 DEF ClientId, BrokerAssumption
    <2> HIDE DEF id
    <2>3. CASE add_new_client(id, f)
      <3>1. Registered' = Registered \cup {id}
        <4>1. clients \in Seq(ClientId) /\ clients' = Append(clients, id)
          BY <2>3 DEF TypeOK, add_new_client
        <4> QED BY <2>2, <4>1, AppendProperties DEF Registered
      <3>2. /\ topics'[id] = <<>> /\ connected'[id]
            /\ \A c \in ClientId : c # id => /\ topics'[c] = topics[c]
                                             /\ connected'[c] = connected[c]
        BY <2>2, <2>3 DEF add_new_client, TypeOK
      <3> QED BY <1>b, <2>2, <3>1, <3>2 DEF HasRoom
    <2>4. CASE UNCHANGED <<clients, connected, topics>>
      BY <1>1, <2>4
    <2> QED BY <1>4, <2>3, <2>4 DEF RecvId, id
  <1>5. CASE EndReconnect
    <2>1. client \in ClientId /\ Registered' = Registered
      BY <1>5 DEF EndReconnect, TypeOK, Registered
    <2>2. /\ connected'[client]
          /\ DOMAIN topics'[client] = DOMAIN topics[client]
          /\ \A k \in DOMAIN topics[client] :
                topics'[client][k] = Emptied(topics[client][k])
          /\ \A c \in ClientId : c # client => /\ topics'[c] = topics[c]
                                               /\ connected'[c] = connected[c]
      BY <1>5, <2>1 DEF EndReconnect, TypeOK
    <2>3. \A sl : ~Overruns(Emptied(sl))
      BY <1>c DEF Emptied
    <2> QED BY <1>b, <2>1, <2>2, <2>3 DEF HasRoom
  <1>6. CASE ReceiveDatagram
    <2> SUFFICES ASSUME NEW m \in Packet, send_tcp(m), UNCHANGED <<clients, connected>>
                 PROVE  HasRoom'
      <3>1. Turn(udp_socket) => udp_to_tcp(Head(udpq)) \in Packet
        <4>1. Turn(udp_socket) => udpq \in Seq(Datagram) /\ udpq # <<>>
          BY DEF Turn, Round, TypeOK
        <4>2. Turn(udp_socket) => Head(udpq) \in Datagram
          BY <4>1
        <4> QED BY <4>2 DEF udp_to_tcp, Datagram, Packet
      <3> QED BY <1>6, <1>d, <3>1 DEF ReceiveDatagram
    <2>1. Registered' = Registered
      BY DEF Registered
    <2>2. ASSUME NEW c \in ClientId, NEW k \in DOMAIN topics'[c]
          PROVE  /\ ~Overruns(topics'[c][k])
                 /\ c \in Registered /\ ~connected[c] /\ topics'[c][k].sf
                    => topics'[c][k].cap > 0
      <3>1. k \in DOMAIN topics[c] /\ topics[c][k] \in Slot
            /\ topics'[c][k] = IF StoresAt(c, k, m) THEN Stored(topics[c][k], m)
                                                    ELSE topics[c][k]
        BY <1>a, <2>2 DEF send_tcp
      <3>2. CASE StoresAt(c, k, m)
        <4>1. topics[c][k].cap > 0
          BY <3>1, <3>2 DEF StoresAt, IsTarget, HasRoom
        <4> QED BY <3>1, <3>2, <4>1, StoredHasRoom DEF HasRoom
      <3>3. CASE ~StoresAt(c, k, m)
        BY <3>1, <3>3 DEF HasRoom
      <3> QED BY <3>2, <3>3
    <2> QED BY <1>b, <2>1, <2>2 DEF HasRoom
  <1>7. ASSUME NEW i \in ClientFd, ReceiveAction(i) PROVE HasRoom'
    <2> DEFINE a == Head(up[conn[i]])
    <2>1. /\ UNCHANGED <<clients, connected>> /\ i \in OpenFd /\ i # newtcp_socket
          /\ subscribe_to_topic(a, i) \/ unsubscribe(a, i)
      <3>1. newtcp_socket = NoFd /\ i \in OpenFd
        BY <1>7 DEF ReceiveAction, Turn, Round
      <3> QED BY <1>7, <3>1 DEF ReceiveAction, NoFd, ClientFd, BrokerAssumption
    <2>2. Registered' = Registered
      BY <2>1 DEF Registered
    <2> HIDE DEF a
    <2>3. CASE subscribe_to_topic(a, i)
      <3>1. ASSUME NEW c \in ClientId, NEW k \in DOMAIN topics'[c]
            PROVE  /\ ~Overruns(topics'[c][k])
                   /\ c \in Registered /\ ~connected[c] /\ topics'[c][k].sf
                      => topics'[c][k].cap > 0
        <4>1. CASE IsOwner(c, i)
          <5>1. connected[c]
            BY <2>1, <4>1, OwnerIsConnected
          <5>2. topics'[c] = Append(topics[c], new_topic(a))
            BY <2>3, <4>1 DEF subscribe_to_topic
          <5>3. \/ k \in DOMAIN topics[c] /\ topics'[c][k] = topics[c][k]
                \/ topics'[c][k] = new_topic(a)
            BY <1>a, <3>1, <5>2
          <5>4. ~Overruns(new_topic(a))
            BY <1>c DEF new_topic
          <5> QED BY <5>1, <5>3, <5>4 DEF HasRoom
        <4>2. CASE ~IsOwner(c, i)
          <5>1. topics'[c] = topics[c]
            BY <2>3, <4>2 DEF subscribe_to_topic
          <5> QED BY <3>1, <5>1 DEF HasRoom
        <4> QED BY <4>1, <4>2
      <3> QED BY <1>b, <2>1, <2>2, <3>1 DEF HasRoom
    <2>4. CASE unsubscribe(a, i)
      <3>1. ASSUME NEW c \in ClientId, NEW k \in DOMAIN topics'[c]
            PROVE  /\ k \in DOMAIN topics[c] /\ topics[c][k] \in Slot
                   /\ topics'[c][k].tcps = topics[c][k].tcps
                   /\ topics'[c][k].cap = topics[c][k].cap
                   /\ topics'[c][k].sf = topics[c][k].sf
        <4>1. k \in DOMAIN topics[c] /\ topics[c][k] \in Slot
          BY <1>a, <2>4, <3>1 DEF unsubscribe
        <4>2. \/ topics'[c][k] = topics[c][k]
              \/ topics'[c][k] = [topics[c][k] EXCEPT !.topic = Blank]
          BY <2>4, <4>1 DEF unsubscribe
        <4>3. \A sl \in Slot : /\ [sl EXCEPT !.topic = Blank].tcps = sl.tcps
                               /\ [sl EXCEPT !.topic = Blank].cap = sl.cap
                               /\ [sl EXCEPT !.topic = Blank].sf = sl.sf
          BY DEF Slot
        <4>4. CASE topics'[c][k] = topics[c][k]
          BY <4>1, <4>4
        <4>5. CASE topics'[c][k] = [topics[c][k] EXCEPT !.topic = Blank]
          BY <4>1, <4>3, <4>5
        <4> QED BY <4>2, <4>4, <4>5
      <3> QED BY <1>b, <2>1, <2>2, <3>1 DEF HasRoom, Overruns
    <2> QED BY <2>1, <2>3, <2>4
  <1>8. ASSUME NEW i \in ClientFd, ReceiveEnd(i) PROVE HasRoom'
    <2> SUFFICES ASSUME disconnect_subscriber(i), UNCHANGED clients
                 PROVE  HasRoom'
      BY <1>8, <1>d DEF ReceiveEnd
    <2>1. Registered' = Registered
      BY DEF Registered
    <2>2. ASSUME NEW c \in ClientId, NEW k \in DOMAIN topics'[c]
          PROVE  /\ ~Overruns(topics'[c][k])
                 /\ c \in Registered /\ ~connected'[c] /\ topics'[c][k].sf
                    => topics'[c][k].cap > 0
      <3>1. k \in DOMAIN topics[c] /\ topics[c][k] \in Slot
            /\ topics'[c][k] = IF IsOwner(c, i) THEN Shelved(topics[c][k])
                                                ELSE topics[c][k]
        BY <1>a, <2>2 DEF disconnect_subscriber
      <3>4. connected[c] /\ ~IsOwner(c, i) => connected'[c]
        BY DEF disconnect_subscriber
      <3>2. CASE IsOwner(c, i)
        <4>1. CASE topics[c][k].sf
          <5>1. /\ topics'[c][k].tcps = <<>> /\ topics'[c][k].cap = InitCap
                /\ InitCap \in Nat /\ InitCap > 0
            BY <3>1, <3>2, <4>1 DEF Shelved, BrokerAssumption
          <5> QED BY <1>c, <5>1
        <4>2. CASE ~topics[c][k].sf
          BY <3>1, <3>2, <4>2 DEF Shelved, HasRoom
        <4> QED BY <4>1, <4>2
      <3>3. CASE ~IsOwner(c, i)
        BY <3>1, <3>3, <3>4 DEF HasRoom
      <3> QED BY <3>2, <3>3
    <2> QED BY <1>b, <2>1, <2>2 DEF HasRoom
  <1> QED BY <1>2, <1>3, <1>4, <1>5, <1>6, <1>7, <1>8 DEF ServerStep

\* As long as no two clients are recorded under one descriptor, no packet is stored
\* past the end of its array, however long it grows.
THEOREM StoresInBounds == StableSpec => []InBounds
  <1>1. Init => IInv /\ NoAlias /\ HasRoom
    <2>1. Init => IInv
      BY InitStructure, InitBooks, InitServed DEF IInv
    <2>2. Init => NoAlias /\ HasRoom
      BY DEF Init, NoAlias, HasRoom, Registered
    <2> QED BY <2>1, <2>2
  <1>2. IInv /\ NoAlias /\ HasRoom /\ [Next /\ NoAlias']_vars
        => (IInv /\ NoAlias /\ HasRoom)'
    <2> SUFFICES ASSUME IInv, NoAlias, HasRoom, [Next /\ NoAlias']_vars
                 PROVE  (IInv /\ NoAlias /\ HasRoom)'
      OBVIOUS
    <2>1. [Next]_vars
      OBVIOUS
    <2>2. IInv'
      BY <2>1, StepStructure, StepBooks, StepServed DEF IInv
    <2>3. NoAlias'
      BY DEF NoAlias, Registered, vars
    <2>4. HasRoom'
      BY <2>1, StepHasRoom DEF IInv
    <2> QED BY <2>2, <2>3, <2>4
  <1>3. IInv /\ HasRoom => InBounds
    BY DEF IInv, TypeOK, HasRoom, InBounds, Registered
  <1> QED BY <1>1, <1>2, <1>3, PTL DEF StableSpec

=============================================================================
