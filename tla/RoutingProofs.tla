--------------------------- MODULE RoutingProofs ----------------------------
(* Proofs about the two routers and their tables: Router for any neighbours   *)
(* and any number of packets, RouteTable for tables of any size over octets   *)
(* of any number of values.  What "address & mask" computes is never looked   *)
(* into.                                                                      *)
EXTENDS MCRouting, WellFoundedInduction, SequenceTheorems, FiniteSetTheorems, TLAPS

-----------------------------------------------------------------------------
(* The router: its ARP table, its queue and the requests.                    *)

USE RouterAssumption

frame == [to : NextHop \cup {Self}, pkt : packet \cup own]

\* A copy has been made before anything is queued.
CopyMade == q # <<>> => aux \in packet

Requests == [k \in DOMAIN q |-> RouteOf[q[k].daddr]]
\* The requests without the k-th.
Without(k) == [j \in 1..(Len(asked) - 1) |-> IF j < k THEN asked[j] ELSE asked[j + 1]]

LEMMA InitType == Init => TypeOK /\ CopyMade
  <1> SUFFICES ASSUME Init PROVE TypeOK /\ CopyMade
    OBVIOUS
  <1>1. arp_table \in Seq(entry) /\ q \in Seq(packet) /\ asked \in Seq(NextHop)
        /\ frames \in Seq(frame)
    BY DEF Init
  <1> QED BY <1>1 DEF Init, TypeOK, CopyMade, frame

LEMMA WithoutType ==
    ASSUME TypeOK, NEW k \in DOMAIN asked
    PROVE  Without(k) \in Seq(NextHop) /\ Len(Without(k)) = Len(asked) - 1
  <1>1. Len(asked) \in Nat /\ DOMAIN asked = 1..Len(asked) /\ Len(asked) > 0
        /\ \A j \in 1..Len(asked) : asked[j] \in NextHop
    BY LenProperties, ElementOfSeq DEF TypeOK
  <1>2. Without(k) \in [1..(Len(asked) - 1) -> NextHop] /\ Len(asked) - 1 \in Nat
    BY <1>1 DEF Without
  <1> QED BY <1>2

LEMMA ForwardType ==
    ASSUME NEW p \in packet, ~Rejected(p)
    PROVE  Forwarded(p) \in packet /\ RouteOf[p.daddr] \in NextHop
           /\ Forwarded(p).daddr = p.daddr
  BY DEF packet, Rejected, Forwarded

\* Only entries for neighbours that have none are added.
LEMMA LearnsOnce ==
    ASSUME TypeOK, OneEntryPerNeighbour, NEW h \in NextHop, learns(h)
    PROVE  /\ arp_table' \in Seq(entry) /\ OneEntryPerNeighbour'
           /\ status' \in {status, "run", "undefined"}
  <1>1. CASE get_arp_route(h) = {} /\ add_arp_entry([ip |-> h, mac |-> h])
    <2> DEFINE e == [ip |-> h, mac |-> h]
    <2>1. arp_table \in Seq(entry) /\ DOMAIN arp_table = 1..Len(arp_table)
          /\ Len(arp_table) \in Nat
      BY LenProperties DEF TypeOK
    <2>2. \A k \in DOMAIN arp_table : arp_table[k].ip # h
      <3>1. SUFFICES ASSUME NEW k \in DOMAIN arp_table, arp_table[k].ip = h
                     PROVE  FALSE
        OBVIOUS
      <3>2. \A j \in 1..(k - 1) : arp_table[j].ip # h
        BY <2>1, <3>1 DEF OneEntryPerNeighbour
      <3>3. arp_table[k].mac \in get_arp_route(h)
        BY <3>1, <3>2 DEF get_arp_route
      <3> QED BY <1>1, <3>3
    <2>3. e \in entry /\ e.ip = h /\ arp_table' = Append(arp_table, e)
      BY <1>1 DEF add_arp_entry, entry
    <2> HIDE DEF e
    <2>4. arp_table' \in Seq(entry) /\ Len(arp_table') = Len(arp_table) + 1
          /\ (\A k \in 1..Len(arp_table) : arp_table'[k] = arp_table[k])
          /\ arp_table'[Len(arp_table) + 1] = e
      BY <2>1, <2>3, AppendProperties
    <2>5. DOMAIN arp_table' = 1..(Len(arp_table) + 1)
      BY <2>4, LenProperties
    <2>6. ASSUME NEW j \in DOMAIN arp_table', NEW k \in DOMAIN arp_table',
                 arp_table'[j].ip = arp_table'[k].ip
          PROVE  j = k
      <3>1. CASE j \in 1..Len(arp_table) /\ k \in 1..Len(arp_table)
        BY <2>1, <2>4, <2>6, <3>1 DEF OneEntryPerNeighbour
      <3>2. CASE j = Len(arp_table) + 1 /\ k = Len(arp_table) + 1
        BY <3>2
      <3>3. CASE j = Len(arp_table) + 1 /\ k \in 1..Len(arp_table)
        BY <2>1, <2>2, <2>3, <2>4, <2>6, <3>3
      <3>4. CASE k = Len(arp_table) + 1 /\ j \in 1..Len(arp_table)
        BY <2>1, <2>2, <2>3, <2>4, <2>6, <3>4
      <3> QED BY <2>1, <2>5, <3>1, <3>2, <3>3, <3>4
    <2>7. status' \in {"run", "undefined"}
      BY <1>1 DEF add_arp_entry
    <2> QED BY <2>4, <2>6, <2>7 DEF OneEntryPerNeighbour
  <1>2. CASE UNCHANGED <<arp_table, status>>
    BY <1>2 DEF TypeOK, OneEntryPerNeighbour
  <1> QED BY <1>1, <1>2 DEF learns

-----------------------------------------------------------------------------
(* The handlers.                                                             *)

\* Without repetition there is a packet for every request, without loss a
\* request for every packet.
LEMMA CountsMatch ==
    ASSUME WaitersMatchRequests, status = "run"
    PROVE  /\ ("repeat" \notin network => Len(asked) <= Len(q))
           /\ ("lose" \notin network => Len(q) <= Len(asked))
  BY Zenon DEF WaitersMatchRequests

LEMMA SendType ==
    ASSUME TypeOK, NEW h \in NextHop \cup {Self}, NEW p \in packet \cup own,
           send_packet(h, p)
    PROVE  frames' \in Seq(frame)
  <1>1. [to |-> h, pkt |-> p] \in frame
    BY DEF frame
  <1> QED BY <1>1, AppendProperties DEF send_packet, TypeOK, frame

LEMMA ReceiveIpStep ==
    ASSUME TypeOK, CopyMade, WaitersMatchRequests, status = "run",
           NEW p \in packet, ReceiveIp(p)
    PROVE  TypeOK' /\ CopyMade' /\ WaitersMatchRequests' /\ UNCHANGED arp_table
  <1>1. received' \in 0..MaxPackets /\ UNCHANGED <<arp_table, network>>
    BY DEF ReceiveIp, get_packet, TypeOK
  <1>2. CASE /\ Rejected(p) /\ status' = "crashed" /\ UNCHANGED <<q, aux, asked>>
             /\ send_icmp_error \/ UNCHANGED frames
    <2>1. frames' \in Seq(frame)
      <3>1. CASE send_icmp_error
        BY <3>1, SendType DEF send_icmp_error, own
      <3>2. CASE UNCHANGED frames
        BY <3>2 DEF TypeOK, frame
      <3> QED BY <1>2, <3>1, <3>2
    <2> QED BY <1>1, <1>2, <2>1 DEF TypeOK, CopyMade, WaitersMatchRequests, frame
  <1>3. CASE /\ ~Rejected(p) /\ forward(Forwarded(p), RouteOf[p.daddr])
             /\ UNCHANGED status
    <2> DEFINE c == Forwarded(p)
               h == RouteOf[p.daddr]
    <2>1. c \in packet /\ h \in NextHop /\ RouteOf[c.daddr] = h
      BY <1>3, ForwardType
    <2> HIDE DEF c, h
    <2>2. forward(c, h) /\ status' = "run"
      BY <1>3 DEF c, h
    <2>3. aux' = c
      BY <2>2 DEF forward
    <2>4. CASE /\ UNCHANGED <<q, asked>>
               /\ \E mac \in get_arp_route(h) : send_packet(mac, c)
      <3>1. PICK mac \in get_arp_route(h) : send_packet(mac, c)
        BY <2>4
      <3>2. mac \in NextHop
        <4>1. PICK k \in DOMAIN arp_table : mac = arp_table[k].mac
          BY DEF get_arp_route
        <4>2. arp_table[k] \in entry
          BY LenProperties, ElementOfSeq DEF TypeOK
        <4> QED BY <4>1, <4>2 DEF entry
      <3>4. frames' \in Seq(frame)
        BY <2>1, <3>1, <3>2, SendType
      <3> QED BY <1>1, <2>1, <2>2, <2>3, <2>4, <3>4
              DEF TypeOK, CopyMade, WaitersMatchRequests, frame
    <2>5. CASE q' = Append(q, c) /\ asked' = Append(asked, h) /\ UNCHANGED frames
      <3>1. q \in Seq(packet) /\ asked \in Seq(NextHop)
            /\ Len(q) \in Nat /\ DOMAIN q = 1..Len(q)
            /\ Len(asked) \in Nat /\ DOMAIN asked = 1..Len(asked)
        BY LenProperties DEF TypeOK
      <3>2. q' \in Seq(packet) /\ Len(q') = Len(q) + 1
            /\ (\A k \in 1..Len(q) : q'[k] = q[k]) /\ q'[Len(q) + 1] = c
        BY <2>1, <2>5, <3>1, AppendProperties
      <3>3. asked' \in Seq(NextHop) /\ Len(asked') = Len(asked) + 1
            /\ (\A k \in 1..Len(asked) : asked'[k] = asked[k])
            /\ asked'[Len(asked) + 1] = h
        BY <2>1, <2>5, <3>1, AppendProperties
      <3>4. DOMAIN q' = 1..(Len(q) + 1) /\ DOMAIN asked' = 1..(Len(asked) + 1)
        BY <3>2, <3>3, LenProperties
      <3>5. network = {} => asked' = Requests'
        <4>1. SUFFICES ASSUME network = {} PROVE asked' = Requests'
          OBVIOUS
        <4>2. asked = Requests
          BY <4>1 DEF WaitersMatchRequests, Requests
        <4>3. Len(asked) = Len(q) /\ \A k \in 1..Len(q) : asked[k] = RouteOf[q[k].daddr]
          BY <3>1, <4>2 DEF Requests
        <4>4. \A k \in 1..(Len(q) + 1) : asked'[k] = RouteOf[q'[k].daddr]
          BY <2>1, <3>1, <3>2, <3>3, <4>3
        <4>5. asked' = [k \in 1..(Len(q) + 1) |-> asked'[k]]
          BY <3>3, <4>3
        <4> QED BY <3>4, <4>4, <4>5 DEF Requests
      <3>6. WaitersMatchRequests'
        <4>1. "repeat" \notin network => Len(asked') <= Len(q')
          BY <3>1, <3>2, <3>3, CountsMatch
        <4>2. "lose" \notin network => Len(q') <= Len(asked')
          BY <3>1, <3>2, <3>3, CountsMatch
        <4> QED BY <1>1, <3>5, <4>1, <4>2 DEF WaitersMatchRequests, Requests
      <3> QED BY <1>1, <2>1, <2>2, <2>3, <2>5, <3>2, <3>3, <3>6 DEF TypeOK, CopyMade
    <2> QED BY <2>2, <2>4, <2>5 DEF forward, send_arp
  <1> QED BY <1>2, <1>3 DEF ReceiveIp

LEMMA ReceiveRequestStep ==
    ASSUME TypeOK, CopyMade, OneEntryPerNeighbour, WaitersMatchRequests,
           NEW h \in NextHop, ReceiveRequest(h)
    PROVE  TypeOK' /\ CopyMade' /\ OneEntryPerNeighbour' /\ WaitersMatchRequests'
  <1>1. UNCHANGED <<arp_table, q, aux, asked, network, status>>
        /\ received' \in 0..MaxPackets
    BY DEF ReceiveRequest, get_packet, TypeOK
  <1>2. frames' \in Seq(frame)
    BY SendType DEF ReceiveRequest, received_arp_request, send_icmp, own
  <1> QED BY <1>1, <1>2
          DEF TypeOK, CopyMade, OneEntryPerNeighbour, WaitersMatchRequests, frame

\* The queue loses its head and the requests one of them.
LEMMA BothShrink ==
    ASSUME TypeOK, WaitersMatchRequests, status = "run", NEW k \in DOMAIN asked,
           k = 1 \/ "reorder" \in network, q # <<>>, q' = Tail(q),
           network' = network,
           \/ asked' = Without(k)
           \/ "repeat" \in network /\ asked' = asked
    PROVE  WaitersMatchRequests' /\ q' \in Seq(packet)
  <1>1. q \in Seq(packet) /\ Len(q) \in Nat /\ DOMAIN q = 1..Len(q) /\ Len(q) > 0
        /\ asked \in Seq(NextHop) /\ Len(asked) \in Nat /\ DOMAIN asked = 1..Len(asked)
    BY LenProperties, EmptySeq DEF TypeOK
  <1>2. q' \in Seq(packet) /\ Len(q') = Len(q) - 1
        /\ \A j \in 1..(Len(q) - 1) : q'[j] = q[j + 1]
    BY <1>1, HeadTailProperties
  <1>3. DOMAIN q' = 1..(Len(q) - 1)
    BY <1>2, LenProperties
  <1>4. Len(Without(k)) = Len(asked) - 1
    BY WithoutType
  <1>5. Len(asked') \in {Len(asked), Len(asked) - 1}
        /\ ("repeat" \notin network => Len(asked') = Len(asked) - 1)
    BY <1>1, <1>4
  <1>6. network = {} => asked' = Requests'
    <2>1. SUFFICES ASSUME network = {} PROVE asked' = Requests'
      OBVIOUS
    <2>2. asked = Requests /\ k = 1 /\ asked' = Without(1)
      BY <2>1 DEF WaitersMatchRequests, Requests
    <2>3. Len(asked) = Len(q) /\ \A j \in 1..Len(q) : asked[j] = RouteOf[q[j].daddr]
      BY <1>1, <2>2 DEF Requests
    <2>4. asked' = [j \in 1..(Len(q) - 1) |-> asked[j + 1]]
      BY <2>2, <2>3, <1>1 DEF Without
    <2>5. \A j \in 1..(Len(q) - 1) : asked[j + 1] = RouteOf[q'[j].daddr]
      BY <1>1, <1>2, <2>3
    <2> QED BY <1>3, <2>4, <2>5 DEF Requests
  <1>7. "repeat" \notin network => Len(asked') <= Len(q')
    <2>1. SUFFICES ASSUME "repeat" \notin network PROVE Len(asked') <= Len(q')
      OBVIOUS
    <2>2. Len(asked) <= Len(q) /\ Len(asked') = Len(asked) - 1
      BY <2>1, <1>5, CountsMatch
    <2> QED BY <1>1, <1>2, <2>2
  <1>8. "lose" \notin network => Len(q') <= Len(asked')
    <2>1. SUFFICES ASSUME "lose" \notin network PROVE Len(q') <= Len(asked')
      OBVIOUS
    <2>2. Len(q) <= Len(asked)
      BY <2>1, CountsMatch
    <2>3. Len(asked') = Len(asked) \/ Len(asked') = Len(asked) - 1
      BY <1>5
    <2>4. Len(q') = Len(q) - 1
      BY <1>2
    <2>5. ASSUME NEW x \in Nat, NEW n \in Nat, NEW y, x <= n, y = n \/ y = n - 1
          PROVE  x - 1 <= y
      BY <2>5
    <2> QED BY <1>1, <2>2, <2>3, <2>4, <2>5
  <1> QED BY <1>2, <1>6, <1>7, <1>8 DEF WaitersMatchRequests, Requests

LEMMA ReceiveReplyStep ==
    ASSUME TypeOK, CopyMade, OneEntryPerNeighbour, WaitersMatchRequests,
           status = "run", NEW k \in DOMAIN asked, ReceiveReply(k)
    PROVE  TypeOK' /\ CopyMade' /\ OneEntryPerNeighbour' /\ WaitersMatchRequests'
  <1>1. UNCHANGED <<aux, received, network>> /\ received_arp_reply(asked[k])
        /\ (k = 1 \/ "reorder" \in network)
    BY DEF ReceiveReply
  <1>2. \/ asked' = Without(k)
        \/ "repeat" \in network /\ asked' = asked
    BY DEF ReceiveReply, Without
  <1>3. asked[k] \in NextHop /\ Len(asked) \in Nat /\ Len(asked) > 0
    BY LenProperties, ElementOfSeq DEF TypeOK
  <1>4. asked' \in Seq(NextHop) /\ Len(asked') \in {Len(asked), Len(asked) - 1}
    BY <1>2, WithoutType DEF TypeOK
  <1>5. CASE q = <<>> /\ UNCHANGED <<arp_table, q, frames, status>>
    <2>1. TypeOK' /\ CopyMade' /\ OneEntryPerNeighbour'
      BY <1>1, <1>4, <1>5 DEF TypeOK, CopyMade, OneEntryPerNeighbour
    <2>2. Len(q) = 0
      BY <1>5
    <2>3. "repeat" \in network
      BY <1>3, <2>2 DEF WaitersMatchRequests
    <2>4. Len(q') <= Len(asked')
      BY <1>3, <1>4, <1>5, <2>2
    <2> QED BY <1>1, <2>1, <2>3, <2>4 DEF WaitersMatchRequests
  <1>6. CASE /\ q # <<>> /\ learns(asked[k]) /\ q' = Tail(q)
             /\ send_packet(asked[k], aux)
    <2>1. /\ arp_table' \in Seq(entry) /\ OneEntryPerNeighbour'
          /\ status' \in {status, "run", "undefined"}
      BY <1>3, <1>6, LearnsOnce
    <2>2. WaitersMatchRequests' /\ q' \in Seq(packet)
      BY <1>1, <1>2, <1>6, BothShrink
    <2>3. aux \in packet
      BY <1>6 DEF CopyMade
    <2>4. frames' \in Seq(frame)
      BY <1>3, <1>6, <2>3, SendType
    <2>5. TypeOK'
      BY <1>1, <1>4, <2>1, <2>2, <2>3, <2>4 DEF TypeOK, frame
    <2> QED BY <1>1, <2>1, <2>2, <2>3, <2>5 DEF CopyMade
  <1>7. CASE q # <<>> /\ status' = "undefined" /\ UNCHANGED <<arp_table, q, frames>>
    BY <1>1, <1>4, <1>7 DEF TypeOK, CopyMade, OneEntryPerNeighbour, WaitersMatchRequests
  <1> QED BY <1>1, <1>5, <1>6, <1>7 DEF received_arp_reply

LEMMA LoseRequestStep ==
    ASSUME TypeOK, CopyMade, OneEntryPerNeighbour, WaitersMatchRequests,
           status = "run", NEW k \in DOMAIN asked, LoseRequest(k)
    PROVE  TypeOK' /\ CopyMade' /\ OneEntryPerNeighbour' /\ WaitersMatchRequests'
  <1>1. "lose" \in network /\ asked' = Without(k)
        /\ UNCHANGED <<arp_table, q, aux, frames, received, network, status>>
    BY DEF LoseRequest, Without
  <1>2. asked' \in Seq(NextHop) /\ Len(asked') = Len(asked) - 1 /\ Len(asked) \in Nat
    BY <1>1, WithoutType, LenProperties DEF TypeOK
  <1>3. Len(q) \in Nat
    BY LenProperties DEF TypeOK
  <1>4. "repeat" \notin network => Len(asked') <= Len(q)
    BY <1>2, <1>3 DEF WaitersMatchRequests
  <1>5. WaitersMatchRequests'
    BY <1>1, <1>4 DEF WaitersMatchRequests
  <1> QED BY <1>1, <1>2, <1>5 DEF TypeOK, CopyMade, OneEntryPerNeighbour

-----------------------------------------------------------------------------

RouterInv == TypeOK /\ CopyMade /\ OneEntryPerNeighbour /\ WaitersMatchRequests

LEMMA RouterInvInit == Init => RouterInv
  <1> SUFFICES ASSUME Init PROVE RouterInv
    OBVIOUS
  <1>1. TypeOK /\ CopyMade
    BY InitType
  <1>2. OneEntryPerNeighbour
    BY DEF Init, OneEntryPerNeighbour
  <1>3. asked = [k \in DOMAIN q |-> RouteOf[q[k].daddr]] /\ Len(asked) = Len(q)
    BY DEF Init
  <1>4. Len(q) \in Nat
    BY <1>1, LenProperties DEF TypeOK
  <1>5. WaitersMatchRequests
    BY <1>3, <1>4 DEF WaitersMatchRequests
  <1> QED BY <1>1, <1>2, <1>5 DEF RouterInv

LEMMA RouterInvStep == RouterInv /\ [Next]_vars => RouterInv'
  <1> SUFFICES ASSUME RouterInv, [Next]_vars PROVE RouterInv'
    OBVIOUS
  <1>1. TypeOK /\ CopyMade /\ OneEntryPerNeighbour /\ WaitersMatchRequests
    BY DEF RouterInv
  <1>2. ASSUME NEW p \in packet, ReceiveIp(p), status = "run" PROVE RouterInv'
    <2>1. TypeOK' /\ CopyMade' /\ WaitersMatchRequests' /\ UNCHANGED arp_table
      BY <1>1, <1>2, ReceiveIpStep
    <2> QED BY <1>1, <2>1 DEF RouterInv, OneEntryPerNeighbour
  <1>3. ASSUME NEW k \in DOMAIN asked, ReceiveReply(k), status = "run" PROVE RouterInv'
    BY <1>1, <1>3, ReceiveReplyStep DEF RouterInv
  <1>4. ASSUME NEW k \in DOMAIN asked, LoseRequest(k), status = "run" PROVE RouterInv'
    BY <1>1, <1>4, LoseRequestStep DEF RouterInv
  <1>5. ASSUME NEW h \in NextHop, ReceiveRequest(h) PROVE RouterInv'
    BY <1>1, <1>5, ReceiveRequestStep DEF RouterInv
  <1>6. CASE UNCHANGED vars
    BY <1>1, <1>6 DEF vars, RouterInv, TypeOK, CopyMade, OneEntryPerNeighbour,
                      WaitersMatchRequests
  <1> QED BY <1>2, <1>3, <1>4, <1>5, <1>6 DEF Next, Replies

LEMMA RouterInvHolds == Spec => []RouterInv
  BY RouterInvInit, RouterInvStep, PTL DEF Spec

\* Every variable keeps its type; in particular no packet is queued or sent on
\* with a ttl of 0.
THEOREM RouterTypes == Spec => []TypeOK
  <1>1. RouterInv => TypeOK
    BY DEF RouterInv
  <1> QED BY <1>1, RouterInvHolds, PTL

\* The ARP table never holds two entries for one neighbour.
THEOREM NoDuplicates == Spec => []OneEntryPerNeighbour
  <1>1. RouterInv => OneEntryPerNeighbour
    BY DEF RouterInv
  <1> QED BY <1>1, RouterInvHolds, PTL

\* What waits in the queue and what has been asked stay in step, as far as the
\* network allows.
THEOREM QueueInStep == Spec => []WaitersMatchRequests
  <1>1. RouterInv => WaitersMatchRequests
    BY DEF RouterInv
  <1> QED BY <1>1, RouterInvHolds, PTL

-----------------------------------------------------------------------------
(* The lookup in its table.                                                  *)

-----------------------------------------------------------------------------
(* Which packet a reply sends, for the router as MCRouting runs it.           *)

\* The hardware address under which a neighbour is known is its own.
OwnMacs == \A k \in DOMAIN arp_table : arp_table[k].mac = arp_table[k].ip

Quiet == calm /\ "repeat" \notin network

\* In calm one packet waits at most, which is the last one copied, and what has been
\* asked has been asked for it.
OneWaits ==
    /\ Len(q) <= 1 /\ Len(asked) <= Len(q)
    /\ q # <<>> => /\ q[1] = aux /\ aux \in packet /\ aux.n <= received
                   /\ \A k \in DOMAIN asked : asked[k] = RouteOf[aux.daddr]

Sent == {j \in DOMAIN frames : frames[j].pkt \in packet}

\* What has been sent has gone to its own next hop, and is not what waits.
SentRight ==
    /\ \A j \in Sent : /\ frames[j].to = RouteOf[frames[j].pkt.daddr]
                       /\ frames[j].pkt.n <= received
    /\ \A j, k \in Sent : frames[j].pkt.n = frames[k].pkt.n => j = k
NotSentYet == q # <<>> => \A j \in Sent : frames[j].pkt.n # aux.n

CalmInv ==
    /\ OwnMacs
    /\ Quiet => SentRight /\ (status = "run" => OneWaits /\ NotSentYet)

LEMMA CalmInvInit == Init /\ calm = TRUE => CalmInv
  <1> SUFFICES ASSUME Init PROVE CalmInv
    OBVIOUS
  <1>1. arp_table = <<>> /\ q = <<>> /\ asked = <<>> /\ frames = <<>>
    BY DEF Init
  <1>2. OwnMacs /\ Sent = {} /\ OneWaits
    BY <1>1 DEF OwnMacs, Sent, OneWaits
  <1> QED BY <1>1, <1>2 DEF CalmInv, SentRight, NotSentYet

LEMMA OwnIsNoPacket == \A p \in own : p \notin packet
  BY DEF own, packet

\* Frames of the router's own change nothing.
LEMMA SendsOwn ==
    ASSUME TypeOK, NEW h \in NextHop \cup {Self}, NEW p \in own, send_packet(h, p)
    PROVE  Sent' = Sent /\ \A j \in Sent : frames'[j] = frames[j]
  <1> DEFINE f == [to |-> h, pkt |-> p]
  <1>1. frames \in Seq(frame) /\ f \in frame /\ frames' = Append(frames, f)
    BY DEF TypeOK, frame, send_packet
  <1>2. f.pkt \notin packet
    BY OwnIsNoPacket
  <1> HIDE DEF f
  <1>3. /\ DOMAIN frames' = 1..(Len(frames) + 1) /\ frames'[Len(frames) + 1] = f
        /\ Len(frames) \in Nat /\ DOMAIN frames = 1..Len(frames)
        /\ \A j \in 1..Len(frames) : frames'[j] = frames[j]
    BY <1>1, AppendProperties
  <1> QED BY <1>2, <1>3 DEF Sent

\* A packet that is sent is one more.
LEMMA SendsPacket ==
    ASSUME TypeOK, NEW h \in NextHop, NEW p \in packet, send_packet(h, p),
           SentRight, p.n \in Nat, received' \in Nat, received \in Nat,
           received <= received', p.n <= received',
           h = RouteOf[p.daddr], \A j \in Sent : frames[j].pkt.n # p.n
    PROVE  SentRight'
  <1> DEFINE f == [to |-> h, pkt |-> p]
             new == Len(frames) + 1
  <1>1. frames \in Seq(frame) /\ f \in frame /\ frames' = Append(frames, f)
    BY DEF TypeOK, frame, send_packet
  <1>2. f.pkt = p /\ f.to = h
    OBVIOUS
  <1> HIDE DEF f
  <1>3. /\ DOMAIN frames' = 1..new /\ frames'[new] = f
        /\ Len(frames) \in Nat /\ DOMAIN frames = 1..Len(frames)
        /\ \A j \in 1..Len(frames) : frames'[j] = frames[j]
    BY <1>1, AppendProperties
  <1>4. Sent' = Sent \cup {new} /\ new \notin Sent /\ \A j \in Sent : frames'[j] = frames[j]
    BY <1>2, <1>3 DEF Sent
  <1>5. \A j \in Sent : frames[j].pkt.n \in Nat
    BY DEF Sent, packet
  <1> HIDE DEF new
  <1>6. frames'[new] = f
    BY <1>3
  <1> QED BY <1>2, <1>4, <1>5, <1>6 DEF SentRight

\* Neighbours are learnt under their own addresses.
LEMMA KeepsOwnMacs == TypeOK /\ OwnMacs /\ [Next]_vars => OwnMacs'
  <1> SUFFICES ASSUME TypeOK, OwnMacs, [Next]_vars PROVE OwnMacs'
    OBVIOUS
  <1>1. CASE UNCHANGED arp_table
    BY <1>1 DEF OwnMacs
  <1>2. ASSUME NEW h, arp_table' = Append(arp_table, [ip |-> h, mac |-> h])
        PROVE  OwnMacs'
    <2> DEFINE e == [ip |-> h, mac |-> h]
    <2>1. e.mac = e.ip
      OBVIOUS
    <2> HIDE DEF e
    <2>2. arp_table \in Seq(entry) /\ arp_table' = Append(arp_table, e)
      BY <1>2 DEF TypeOK, e
    <2>3. /\ DOMAIN arp_table' = 1..(Len(arp_table) + 1) /\ DOMAIN arp_table = 1..Len(arp_table)
          /\ Len(arp_table) \in Nat
          /\ \A k \in 1..(Len(arp_table) + 1) :
               arp_table'[k] = IF k <= Len(arp_table) THEN arp_table[k] ELSE e
      BY <2>2
    <2> QED BY <2>1, <2>3 DEF OwnMacs
  <1>3. ASSUME NEW k \in DOMAIN asked, ReceiveReply(k) PROVE OwnMacs'
    BY <1>1, <1>2, <1>3 DEF ReceiveReply, received_arp_reply, learns, add_arp_entry
  <1> QED BY <1>1, <1>3 DEF Next, vars, Replies, ReceiveIp, ReceiveRequest, LoseRequest

\* A step of the router, and what it leaves of the calm.
CalmNext == Next /\ calm' = (calm /\ (q = <<>> \/ aux' = aux))

LEMMA MacIsOwn ==
    ASSUME OwnMacs, NEW h, NEW mac \in get_arp_route(h)
    PROVE  mac = h
  BY DEF OwnMacs, get_arp_route

\* What frames of its own, or none, leave of it.
LEMMA NothingForwarded ==
    ASSUME Sent' = Sent, \A j \in Sent : frames'[j] = frames[j],
           SentRight, \A j \in Sent : frames[j].pkt.n \in Nat,
           received \in Nat, received' \in Nat, received <= received'
    PROVE  SentRight'
  BY DEF SentRight

LEMMA NumbersAreNat == \A j \in Sent : frames[j].pkt.n \in Nat
  BY DEF Sent, packet

LEMMA CalmIp ==
    ASSUME RouterInv, RouterInv', SentRight, OneWaits, NotSentYet, OwnMacs,
           status = "run", NEW p \in packet, ReceiveIp(p), q = <<>> \/ aux' = aux
    PROVE  SentRight' /\ (status' = "run" => OneWaits' /\ NotSentYet')
  <1>1. /\ TypeOK /\ received \in Nat /\ received' = received + 1 /\ p.n = received'
    BY DEF RouterInv, ReceiveIp, get_packet, TypeOK
  <1>2. CASE /\ Rejected(p) /\ status' = "crashed"
             /\ send_icmp_error \/ UNCHANGED frames
    <2>1. Sent' = Sent /\ \A j \in Sent : frames'[j] = frames[j]
      <3>1. CASE UNCHANGED frames
        BY <3>1 DEF Sent
      <3>2. CASE send_icmp_error
        <4>1. [op |-> "icmp error"] \in own
          BY DEF own
        <4> QED BY <1>1, <3>2, <4>1, SendsOwn DEF send_icmp_error
      <3> QED BY <1>2, <3>1, <3>2
    <2> QED BY <1>1, <1>2, <2>1, NothingForwarded, NumbersAreNat
  <1>3. CASE /\ ~Rejected(p) /\ forward(Forwarded(p), RouteOf[p.daddr])
             /\ UNCHANGED status
    <2> DEFINE c == Forwarded(p)
               h == RouteOf[p.daddr]
    <2>1. c \in packet /\ h \in NextHop /\ c.daddr = p.daddr
      BY <1>3, ForwardType
    <2>2. c.n = received' /\ RouteOf[c.daddr] = h
      BY <1>1, <2>1 DEF Forwarded, packet
    <2> HIDE DEF c, h
    <2>3. aux' = c /\ forward(c, h)
      BY <1>3 DEF forward, c, h
    <2>4. q = <<>>
      <3>1. SUFFICES ASSUME q # <<>> PROVE FALSE
        OBVIOUS
      <3>2. aux.n <= received /\ aux.n = received'
        BY <2>2, <2>3, <3>1 DEF OneWaits
      <3> QED BY <1>1, <3>2
    <2>5. asked = <<>> /\ Len(asked) = 0
      BY <2>4 DEF OneWaits, RouterInv, TypeOK
    <2>6. CASE /\ UNCHANGED <<q, asked>>
               /\ \E mac \in get_arp_route(h) : send_packet(mac, c)
      <3>1. send_packet(h, c)
        BY <2>6, MacIsOwn
      <3>2. \A j \in Sent : frames[j].pkt.n # c.n
        BY <1>1, <2>2, NumbersAreNat DEF SentRight
      <3>3. c.n \in Nat /\ received <= received' /\ c.n <= received' /\ received' \in Nat
        BY <1>1, <2>2
      <3>4. SentRight'
        BY <1>1, <2>1, <2>2, <3>1, <3>2, <3>3, SendsPacket
      <3>5. q' = <<>> /\ asked' = <<>>
        BY <2>4, <2>5, <2>6
      <3> QED BY <3>4, <3>5 DEF OneWaits, NotSentYet
    <2>7. CASE q' = Append(q, c) /\ asked' = Append(asked, h) /\ UNCHANGED frames
      <3>1. q' = <<c>> /\ asked' = <<h>>
        BY <2>4, <2>5, <2>7
      <3>2. Sent' = Sent /\ (\A j \in Sent : frames'[j] = frames[j])
        BY <2>7 DEF Sent
      <3>3. SentRight'
        BY <1>1, <3>2, NothingForwarded, NumbersAreNat
      <3>4. OneWaits'
        BY <1>1, <2>1, <2>2, <2>3, <3>1 DEF OneWaits
      <3>5. NotSentYet'
        <4>1. \A j \in Sent : frames'[j].pkt.n # aux'.n
          BY <1>1, <2>2, <2>3, <3>2, NumbersAreNat DEF SentRight
        <4> QED BY <3>2, <4>1 DEF NotSentYet
      <3> QED BY <3>3, <3>4, <3>5
    <2> QED BY <2>3, <2>6, <2>7 DEF forward, send_arp
  <1> QED BY <1>2, <1>3 DEF ReceiveIp

LEMMA CalmRequest ==
    ASSUME RouterInv, RouterInv', SentRight, OneWaits, NotSentYet,
           NEW h \in NextHop, ReceiveRequest(h)
    PROVE  SentRight' /\ OneWaits' /\ NotSentYet'
  <1>1. /\ TypeOK /\ received \in Nat /\ received' = received + 1
        /\ UNCHANGED <<q, aux, asked>>
    BY DEF RouterInv, ReceiveRequest, get_packet, TypeOK
  <1>2. PICK f \in own : send_packet(h, f)
    <2>1. [op |-> "arp reply"] \in own /\ [op |-> "echo reply"] \in own
      BY DEF own
    <2> QED BY <2>1 DEF ReceiveRequest, received_arp_request, send_icmp
  <1>3. Sent' = Sent /\ \A j \in Sent : frames'[j] = frames[j]
    BY <1>1, <1>2, SendsOwn
  <1>4. SentRight'
    BY <1>1, <1>3, NothingForwarded, NumbersAreNat
  <1>5. NotSentYet'
    BY <1>1, <1>3 DEF NotSentYet
  <1>6. OneWaits'
    <2>1. q # <<>> => aux.n \in Nat
      BY DEF OneWaits, packet
    <2> QED BY <1>1, <2>1 DEF OneWaits
  <1> QED BY <1>4, <1>5, <1>6

LEMMA CalmReply ==
    ASSUME RouterInv, RouterInv', SentRight, OneWaits, NotSentYet, "repeat" \notin network,
           NEW k \in DOMAIN asked, ReceiveReply(k)
    PROVE  SentRight' /\ (status' = "run" => OneWaits' /\ NotSentYet')
  <1>1. /\ TypeOK /\ received \in Nat /\ received' = received /\ UNCHANGED <<aux, network>>
        /\ q \in Seq(packet) /\ Len(q) \in Nat /\ Len(asked) \in Nat
        /\ DOMAIN asked = 1..Len(asked)
    BY DEF RouterInv, ReceiveReply, TypeOK
  <1>2. asked' = Without(k) /\ Len(asked') = Len(asked) - 1
    BY <1>1, WithoutType DEF ReceiveReply, Without
  <1>3. Len(q) = 1 /\ Len(asked) = 1 /\ q # <<>>
    <2>1. Len(q) <= 1 /\ Len(asked) <= Len(q)
      BY DEF OneWaits
    <2>2. q \in Seq(packet) /\ Len(q) \in Nat /\ Len(asked) \in Nat
      BY <1>1
    <2>3. k \in 1..Len(asked)
      BY <1>1
    <2>4. Len(q) = 1 /\ Len(asked) = 1
      <3>1. ASSUME NEW x \in Nat, NEW y \in Nat, x <= y, y <= 1, NEW j \in 1..x
            PROVE  y = 1 /\ x = 1
        BY <3>1
      <3> QED BY <2>1, <2>2, <2>3, <3>1
    <2> QED BY <2>2, <2>4, EmptySeq
  <1>4. asked[k] = RouteOf[aux.daddr] /\ aux \in packet /\ aux.n <= received /\ aux.n \in Nat
    BY <1>3 DEF OneWaits, packet
  <1>5. CASE q' = Tail(q) /\ send_packet(asked[k], aux)
    <2>1. q' = <<>> /\ Len(q') = 0
      BY <1>1, <1>3, <1>5
    <2>2. asked[k] \in NextHop
      BY <1>1, ElementOfSeq DEF TypeOK
    <2>3. \A j \in Sent : frames[j].pkt.n # aux.n
      BY <1>3 DEF NotSentYet
    <2>4. SentRight'
      BY <1>1, <1>4, <1>5, <2>2, <2>3, SendsPacket
    <2>5. OneWaits' /\ NotSentYet'
      BY <1>2, <1>3, <2>1 DEF OneWaits, NotSentYet
    <2> QED BY <2>4, <2>5
  <1>6. CASE status' = "undefined" /\ UNCHANGED frames
    BY <1>1, <1>6 DEF SentRight, Sent
  <1> QED BY <1>3, <1>5, <1>6 DEF ReceiveReply, received_arp_reply

LEMMA CalmLoss ==
    ASSUME RouterInv, SentRight, OneWaits, NotSentYet, NEW k \in DOMAIN asked, LoseRequest(k)
    PROVE  SentRight' /\ OneWaits' /\ NotSentYet'
  <1>1. UNCHANGED <<q, aux, frames, received>> /\ asked' = Without(k)
    BY DEF LoseRequest, Without
  <1>2. SentRight' /\ NotSentYet'
    BY <1>1 DEF SentRight, NotSentYet, Sent
  <1>3. TypeOK /\ Len(asked) \in Nat /\ Len(q) \in Nat /\ DOMAIN asked = 1..Len(asked)
    BY DEF RouterInv, TypeOK
  <1>4. Len(asked') = Len(asked) - 1
    BY <1>1, <1>3, WithoutType
  <1>5. asked' = <<>> /\ Len(asked') = 0
    BY <1>1, <1>3, <1>4 DEF OneWaits, Without
  <1> QED BY <1>1, <1>2, <1>3, <1>5 DEF OneWaits

LEMMA CalmInvStep == RouterInv /\ RouterInv' /\ CalmInv /\ [CalmNext]_<<vars, calm>> => CalmInv'
  <1> SUFFICES ASSUME RouterInv, RouterInv', CalmInv, [CalmNext]_<<vars, calm>>
               PROVE  CalmInv'
    OBVIOUS
  <1>1. CASE UNCHANGED <<vars, calm>>
    BY <1>1 DEF vars, CalmInv, OwnMacs, Quiet, OneWaits, Sent, SentRight, NotSentYet
  <1>2. CASE CalmNext
    <2>1. OwnMacs'
      BY <1>2, KeepsOwnMacs DEF CalmNext, CalmInv, RouterInv
    <2>2. status = "run" /\ network' = network /\ calm' = (calm /\ (q = <<>> \/ aux' = aux))
      BY <1>2 DEF CalmNext, Next, ReceiveIp, ReceiveRequest, Replies, ReceiveReply, LoseRequest
    <2>3. SUFFICES ASSUME Quiet' PROVE SentRight' /\ (status' = "run" => OneWaits' /\ NotSentYet')
      BY <2>1 DEF CalmInv
    <2>4. Quiet /\ (q = <<>> \/ aux' = aux) /\ "repeat" \notin network
      BY <2>2, <2>3 DEF Quiet
    <2>5. SentRight /\ OneWaits /\ NotSentYet /\ OwnMacs
      BY <2>2, <2>4 DEF CalmInv
    <2> QED BY <1>2, <2>2, <2>4, <2>5, CalmIp, CalmRequest, CalmReply, CalmLoss
            DEF CalmNext, Next, Replies
  <1> QED BY <1>1, <1>2

CalmerInv == RouterEnded \/ (RouterInv /\ CalmInv)

LEMMA CalmerInvStep == CalmerInv /\ [RoutingNext]_routing => CalmerInv'
  <1> SUFFICES ASSUME CalmerInv, [RoutingNext]_routing PROVE CalmerInv'
    OBVIOUS
  <1>1. [CalmNext]_<<vars, calm>>
    BY DEF RoutingNext, CalmNext, routing
  <1>2. CASE RouterEnded
    <2>1. UNCHANGED vars
      BY <1>1, <1>2 DEF RouterEnded, CalmNext, Next, vars
    <2> QED BY <1>2, <2>1 DEF CalmerInv, RouterEnded, vars
  <1>3. CASE RouterInv /\ CalmInv
    <2>1. [Next]_vars
      BY <1>1 DEF CalmNext, vars
    <2>2. RouterInv'
      BY <1>3, <2>1, RouterInvStep
    <2> QED BY <1>1, <1>3, <2>2, CalmInvStep DEF CalmerInv
  <1> QED BY <1>2, <1>3 DEF CalmerInv

\* In calm every packet goes to its own next hop, and once: for any neighbours that
\* reorder and lose requests, and however many packets come.
THEOREM WaiterIsTheOne == RoutingSpec => []WaiterIsSent
  <1>1. RoutingInit => CalmerInv
    BY RouterInvInit, CalmInvInit DEF RoutingInit, CalmerInv
  <1>2. RoutingSpec => []CalmerInv
    BY <1>1, CalmerInvStep, PTL DEF RoutingSpec
  <1>3. CalmerInv => WaiterIsSent
    <2>1. CalmInv => WaiterIsSent
      BY DEF CalmInv, WaiterIsSent, SentRight, Sent, Quiet
    <2>2. RouterEnded => WaiterIsSent
      BY DEF RouterEnded, WaiterIsSent
    <2> QED BY <2>1, <2>2 DEF CalmerInv
  <1> QED BY <1>2, <1>3, PTL

-----------------------------------------------------------------------------
(* Arithmetic.                                                               *)

\* Induction over the natural numbers, in the form of a least element.
LEMMA LeastNatural ==
    ASSUME NEW T \in SUBSET Nat, T # {}
    PROVE  \E x \in T : \A y \in T : x <= y
  <1> DEFINE R == {ss \in Nat \X Nat : ss[1] < ss[2]}
  <1>1. IsWellFoundedOn(R, Nat)
    BY NatLessThanWellFounded DEF OpToRel
  <1>2. \A y, x \in Nat : <<y, x>> \in R <=> y < x
    OBVIOUS
  <1>3. PICK x \in T : \A y \in T : <<y, x>> \notin R
    <2> HIDE DEF R
    <2> QED BY <1>1, WFMin
  <1>4. \A y \in T : ~(y < x)
    BY <1>2, <1>3
  <1> QED BY <1>4

LEMMA WordIsNat == Word \in Nat /\ Word > 0
  <1>1. B \in Nat /\ B > 0
    BY OctetAssumption
  <1>2. \A a, b \in Nat : a > 0 /\ b > 0 => a * b \in Nat /\ a * b > 0
    OBVIOUS
  <1>3. B * B \in Nat /\ B * B > 0
    BY <1>1, <1>2
  <1>4. B * B * B \in Nat /\ B * B * B > 0
    BY <1>1, <1>2, <1>3
  <1> QED BY <1>1, <1>2, <1>4 DEF Word

LEMMA EntryTypes ==
    /\ N \in Nat /\ N > 0
    /\ Address \subseteq Nat
    /\ \A e \in Entry : e.prefix \in Nat /\ e.prefix < Word /\ e.mask \in Nat
  BY RouteTableAssumption, OctetAssumption, WordIsNat DEF Address, Entry, Mask

\* The middle of a search interval is inside it.
LEMMA MiddleInside ==
    ASSUME LookupTypeOK, l <= r
    PROVE  middle \in Index /\ l <= middle /\ middle <= r
  <1>1. l \in Int /\ r \in Int /\ l >= 0 /\ r < N
    BY EntryTypes DEF LookupTypeOK
  <1>2. (r - l) \div 2 >= 0 /\ (r - l) \div 2 <= r - l /\ (r - l) \div 2 \in Int
    BY <1>1
  <1> QED BY <1>1, <1>2, EntryTypes DEF middle, Index

-----------------------------------------------------------------------------
(* The order of the table.                                                   *)

Sorted == \A k \in 1..(N - 1) : cmp(rtable[k - 1], rtable[k]) <= 0

\* The difference of addresses that are close enough has the right sign.
LEMMA DifferenceOfClose ==
    ASSUME NEW x \in Nat, NEW y \in Nat, x < Word, y < Word,
           x - y < Word \div 2, y - x < Word \div 2
    PROVE  difference(x, y) = x - y
  <1> DEFINE w == Word
  <1>1. w \in Nat /\ w > 0 /\ x < w /\ y < w
    BY WordIsNat
  <1>2. x - y < w \div 2 /\ y - x < w \div 2
    OBVIOUS
  <1> HIDE DEF w
  <1>3. (x - y) % w = IF x >= y THEN x - y ELSE x - y + w
    <2>1. CASE x >= y
      BY <1>1, <2>1
    <2>2. CASE x < y
      BY <1>1, <2>2
    <2> QED BY <2>1, <2>2
  <1>4. difference(x, y) = LET d == (x - y) % w IN IF d < w \div 2 THEN d ELSE d - w
    BY DEF difference, w
  <1> QED BY <1>1, <1>2, <1>3, <1>4

\* With one mask and addresses that close, prefixes ascend through the table:
\* qsort() compares neighbours only as far as we know, the rest is induction.
LEMMA Ascending ==
    ASSUME LookupTypeOK, Sorted, Uniform
    PROVE  \A j, k \in Index : j <= k => rtable[j].prefix <= rtable[k].prefix
  <1>1. \A k \in Index : rtable[k].prefix \in Nat /\ rtable[k].prefix < Word
                         /\ rtable[k].mask \in Nat
    BY EntryTypes DEF LookupTypeOK
  <1>2. ASSUME NEW k \in Index, k > 0
        PROVE  rtable[k - 1].prefix <= rtable[k].prefix
    <2>1. k - 1 \in Index /\ k \in 1..(N - 1)
      BY <1>2, EntryTypes DEF Index
    <2>2. cmp(rtable[k - 1], rtable[k]) <= 0
      BY <2>1 DEF Sorted
    <2>3. CASE rtable[k - 1].prefix # rtable[k].prefix
      <3>1. difference(rtable[k - 1].prefix, rtable[k].prefix) <= 0
        BY <2>2, <2>3 DEF cmp
      <3>2. difference(rtable[k - 1].prefix, rtable[k].prefix)
              = rtable[k - 1].prefix - rtable[k].prefix
        BY <1>1, <2>1, DifferenceOfClose DEF Uniform
      <3> QED BY <3>1, <3>2, <1>1, <2>1
    <2> QED BY <2>3, <1>1, <2>1
  <1> DEFINE Bad == {n \in Nat : \E j \in Index : j + n \in Index
                        /\ ~(rtable[j].prefix <= rtable[j + n].prefix)}
  <1>3. Bad = {}
    <2>1. SUFFICES ASSUME Bad # {} PROVE FALSE
      OBVIOUS
    <2>2. PICK n \in Bad : \A x \in Bad : n <= x
      <3> HIDE DEF Bad
      <3>1. Bad \in SUBSET Nat
        BY DEF Bad
      <3> QED BY <2>1, <3>1, LeastNatural
    <2>3. PICK j \in Index : j + n \in Index
                            /\ ~(rtable[j].prefix <= rtable[j + n].prefix)
      OBVIOUS
    <2>4. n \in Nat /\ n > 0
      BY <2>3, <1>1, EntryTypes DEF Index
    <2>5. n - 1 \in Nat /\ j + (n - 1) \in Index /\ j + (n - 1) = (j + n) - 1
      BY <2>3, <2>4, EntryTypes DEF Index
    <2>6. rtable[j].prefix <= rtable[j + (n - 1)].prefix
      BY <2>2, <2>3, <2>4, <2>5
    <2>7. rtable[(j + n) - 1].prefix <= rtable[j + n].prefix
      BY <1>2, <2>3, <2>4, EntryTypes DEF Index
    <2> QED BY <2>3, <2>5, <2>6, <2>7, <1>1
  <1>4. ASSUME NEW j \in Index, NEW k \in Index, j <= k
        PROVE  rtable[j].prefix <= rtable[k].prefix
    <2>1. k - j \in Nat /\ j + (k - j) = k
      BY <1>4, EntryTypes DEF Index
    <2>2. k - j \notin Bad
      BY <1>3
    <2> QED BY <2>1, <2>2
  <1> QED BY <1>4

-----------------------------------------------------------------------------
(* The search.                                                               *)

\* Every match is in what is left to be searched; when it is over, one has
\* been returned if there is any.
Bracket ==
    Uniform => \A k \in Index : Matches(k) =>
        /\ pc = "search" => l <= k /\ k <= r
        /\ pc = "done" => route # None

LookupInv == LookupTypeOK /\ Sorted /\ RouteMatches /\ Bracket

LEMMA LookupInvInit == LookupInit => LookupInv
  <1> SUFFICES ASSUME LookupInit PROVE LookupInv
    OBVIOUS
  <1>1. l = 0 /\ r = N - 1 /\ m = 0 /\ pc = "search" /\ route = None
        /\ dest_ip \in Address
    BY DEF LookupInit, last
  <1>2. rtable \in [Index -> Entry]
    BY RouteTableAssumption DEF LookupInit
  <1>3. 0 \in Index /\ 0 \in 0..N /\ N - 1 \in -1..(N - 1)
    BY EntryTypes DEF Index
  <1>4. LookupTypeOK
    BY <1>1, <1>2, <1>3 DEF LookupTypeOK
  <1>5. Sorted
    BY DEF LookupInit, Sorted
  <1>6. RouteMatches
    BY <1>1 DEF RouteMatches
  <1>7. Bracket
    BY <1>1, EntryTypes DEF Bracket, Index
  <1> QED BY <1>4, <1>5, <1>6, <1>7 DEF LookupInv

\* In a sorted table the walk down from a match ends where it began.
LEMMA WalkStays ==
    ASSUME LookupTypeOK, Sorted, NEW j \in Index
    PROVE  StopsAt(j)
  <1>1. SUFFICES ASSUME j > 0, rtable[j].prefix = rtable[j - 1].prefix
                 PROVE  rtable[j].mask >= rtable[j - 1].mask
    BY DEF StopsAt
  <1>2. j - 1 \in Index /\ j \in 1..(N - 1)
    BY <1>1, EntryTypes DEF Index
  <1>3. cmp(rtable[j - 1], rtable[j]) <= 0
    BY <1>2 DEF Sorted
  <1>4. rtable[j - 1].mask - rtable[j].mask <= 0
    BY <1>1, <1>3 DEF cmp
  <1>5. rtable[j].mask \in Nat /\ rtable[j - 1].mask \in Nat
    BY <1>2, EntryTypes DEF LookupTypeOK
  <1> QED BY <1>4, <1>5

LEMMA LookupInvStep == LookupInv /\ [get_best_route]_lookup => LookupInv'
  <1> SUFFICES ASSUME LookupInv, [get_best_route]_lookup PROVE LookupInv'
    OBVIOUS
  <1>1. LookupTypeOK /\ Sorted /\ RouteMatches /\ Bracket
    BY DEF LookupInv
  <1>2. CASE Found
    <2>1. l <= r /\ prefix = rtable[middle].prefix /\ pc' = "done"
          /\ UNCHANGED <<rtable, dest_ip, l, r>>
      BY <1>2 DEF Found
    <2>2. middle \in Index
      BY <1>1, <2>1, MiddleInside
    <2>3. PICK k \in 0..middle : /\ \A j \in (k + 1)..middle : ~StopsAt(j)
                                /\ m' = k /\ route' = k
      BY <1>2 DEF Found
    <2>4. StopsAt(middle)
      BY <1>1, <2>2, WalkStays
    <2>5. k = middle
      BY <2>2, <2>3, <2>4 DEF Index
    <2>6. route' = middle /\ m' = middle /\ middle # None
      BY <2>2, <2>3, <2>5 DEF None, Index
    <2>7. LookupTypeOK'
      BY <1>1, <2>1, <2>2, <2>6 DEF LookupTypeOK
    <2>8. Matches(middle)
      BY <2>1 DEF prefix, Matches
    <2>9. RouteMatches'
      BY <2>1, <2>6, <2>8 DEF RouteMatches, Matches
    <2>10. Bracket'
      BY <2>1, <2>6 DEF Bracket, None
    <2>11. Sorted'
      BY <1>1, <2>1 DEF Sorted
    <2> QED BY <2>7, <2>9, <2>10, <2>11 DEF LookupInv
  <1>3. CASE GoLeft
    <2>1. l <= r /\ prefix < rtable[middle].prefix /\ m' = middle
          /\ r' = middle - 1 /\ UNCHANGED <<rtable, dest_ip, l, pc, route>>
          /\ pc = "search"
      BY <1>3 DEF GoLeft
    <2>2. middle \in Index
      BY <1>1, <2>1, MiddleInside
    <2>3. LookupTypeOK'
      BY <1>1, <2>1, <2>2, EntryTypes DEF LookupTypeOK, Index
    <2>4. Sorted' /\ RouteMatches'
      BY <1>1, <2>1 DEF Sorted, RouteMatches, Matches
    <2>5. ASSUME Uniform, NEW k \in Index, Matches(k) PROVE l <= k /\ k <= middle - 1
      <3>1. rtable[k].prefix < rtable[middle].prefix
        BY <2>1, <2>2, <2>5 DEF Uniform, Matches, prefix
      <3>2. ~(middle <= k)
        BY <1>1, <2>2, <2>5, <3>1, Ascending, EntryTypes DEF LookupTypeOK
      <3>3. l <= k
        BY <1>1, <2>1, <2>5 DEF Bracket
      <3> QED BY <3>2, <3>3, <2>2 DEF Index
    <2>6. Bracket'
      BY <2>1, <2>5 DEF Bracket, Uniform, Matches
    <2> QED BY <2>3, <2>4, <2>6 DEF LookupInv
  <1>4. CASE GoRight
    <2>1. l <= r /\ prefix > rtable[middle].prefix /\ m' = middle
          /\ l' = middle + 1 /\ UNCHANGED <<rtable, dest_ip, r, pc, route>>
          /\ pc = "search"
      BY <1>4 DEF GoRight, after_middle
    <2>2. middle \in Index
      BY <1>1, <2>1, MiddleInside
    <2>3. LookupTypeOK'
      BY <1>1, <2>1, <2>2, EntryTypes DEF LookupTypeOK, Index
    <2>4. Sorted' /\ RouteMatches'
      BY <1>1, <2>1 DEF Sorted, RouteMatches, Matches
    <2>5. ASSUME Uniform, NEW k \in Index, Matches(k) PROVE middle + 1 <= k /\ k <= r
      <3>1. rtable[k].prefix > rtable[middle].prefix
        BY <2>1, <2>2, <2>5 DEF Uniform, Matches, prefix
      <3>2. ~(k <= middle)
        BY <1>1, <2>2, <2>5, <3>1, Ascending, EntryTypes DEF LookupTypeOK
      <3>3. k <= r
        BY <1>1, <2>1, <2>5 DEF Bracket
      <3> QED BY <3>2, <3>3, <2>2 DEF Index
    <2>6. Bracket'
      BY <2>1, <2>5 DEF Bracket, Uniform, Matches
    <2> QED BY <2>3, <2>4, <2>6 DEF LookupInv
  <1>5. CASE NoRoute
    <2>1. pc = "search" /\ l > r /\ pc' = "done"
          /\ UNCHANGED <<rtable, dest_ip, l, r, m, route>>
      BY <1>5 DEF NoRoute
    <2>2. LookupTypeOK' /\ Sorted' /\ RouteMatches'
      BY <1>1, <2>1 DEF LookupTypeOK, Sorted, RouteMatches, Matches
    <2>3. Uniform => \A k \in Index : ~Matches(k)
      BY <1>1, <2>1, EntryTypes DEF Bracket, LookupTypeOK, Index
    <2>4. Bracket'
      BY <2>1, <2>3 DEF Bracket, Uniform, Matches
    <2> QED BY <2>2, <2>4 DEF LookupInv
  <1>6. CASE UNCHANGED lookup
    BY <1>1, <1>6 DEF lookup, LookupInv, LookupTypeOK, Sorted, RouteMatches, Bracket, Matches, Uniform
  <1> QED BY <1>2, <1>3, <1>4, <1>5, <1>6 DEF get_best_route

LEMMA LookupInvHolds == LookupSpec => []LookupInv
  BY LookupInvInit, LookupInvStep, PTL DEF LookupSpec

\* No bound of the search leaves the table, nor does what is returned.
THEOREM LookupTypes == LookupSpec => []LookupTypeOK
  <1>1. LookupInv => LookupTypeOK
    BY DEF LookupInv
  <1> QED BY <1>1, LookupInvHolds, PTL

\* Whatever the masks in the table, get_best_route returns a route that is
\* one for the address, or none.
THEOREM ReturnsAMatch == LookupSpec => []RouteMatches
  <1>1. LookupInv => RouteMatches
    BY DEF LookupInv
  <1> QED BY <1>1, LookupInvHolds, PTL

\* With one mask, and prefixes whose differences fit an int, get_best_route
\* finds a route if there is one.
THEOREM MissesNothing == LookupSpec => []FindsUniform
  <1>1. LookupInv => FindsUniform
    BY DEF LookupInv, Bracket, FindsUniform
  <1> QED BY <1>1, LookupInvHolds, PTL

-----------------------------------------------------------------------------
(* The router of lab 4: which of its routes a packet takes.                  *)

mask_at(k) == route_at(k).mask

\* b is the best of the first n routes towards d: there is none, or b fits and
\* after it there is none that does, but with an empty mask.
Best(d, n, b) ==
    /\ b = -1 => \A k \in Fits(d) : k >= n
    /\ b # -1 =>
         /\ b \in Fits(d)
         /\ \A k \in Fits(d) : k < n /\ mask_at(k) # 0 => k <= b /\ mask_at(b) # 0

Scanned ==
    at = "lookup" =>
        /\ handled \in msg /\ handled.ttl >= 1 /\ best_index \in -1..(i - 1)
        /\ Best(handled.daddr, i, best_index)

StaticInv == StaticTypeOK /\ Scanned /\ GoesByBest

\* The routes have numbers from 0, which are compared with 255.
LEMMA RouteTypes ==
    ASSUME StaticTypeOK
    PROVE  /\ Len(routes) \in 0..100
           /\ \A k \in 0..(Len(routes) - 1) : mask_at(k) \in Nat
           /\ \A a : Fits(a) \subseteq 0..(Len(routes) - 1)
  <1>1. routes \in Seq([prefix : Address, mask : Mask]) /\ Len(routes) <= 100
    BY StaticRouterAssumption DEF StaticTypeOK
  <1>2. Mask \subseteq Nat /\ Len(routes) \in Nat
    BY <1>1 DEF Mask
  <1>3. ASSUME NEW k \in 0..(Len(routes) - 1) PROVE mask_at(k) \in Nat
    <2>1. k + 1 \in 1..Len(routes)
      BY <1>2
    <2>2. routes[k + 1] \in [prefix : Address, mask : Mask]
      BY <1>1, <2>1, ElementOfSeq
    <2> QED BY <1>2, <2>2 DEF mask_at, route_at
  <1>4. Len(routes) \in 0..100
    <2>1. \A n \in Nat : n <= 100 => n \in 0..100
      OBVIOUS
    <2> QED BY <1>1, <1>2, <2>1
  <1> QED BY <1>3, <1>4 DEF Fits

LEMMA StaticInvInit == StaticInit => StaticInv
  <1> SUFFICES ASSUME StaticInit PROVE StaticInv
    OBVIOUS
  <1>1. passed = <<>> /\ at = "loop" /\ routes \in RouteLists
    BY DEF StaticInit
  <1>2. routes \in Seq([prefix : Address, mask : Mask])
    BY <1>1, StaticRouterAssumption
  <1>3. Len(routes) \in Nat
    BY <1>2
  <1>4. <<>> \in Seq(msg) /\ <<>> \in Seq([msg : msg, by : 0..(Len(routes) - 1)])
    OBVIOUS
  <1>5. arrived \in [Ifaces -> Seq(msg)]
    BY <1>4 DEF StaticInit
  <1>6. StaticTypeOK
    BY <1>1, <1>3, <1>4, <1>5, StaticRouterAssumption DEF StaticInit, StaticTypeOK
  <1>7. GoesByBest
    BY <1>1 DEF GoesByBest
  <1> QED BY <1>1, <1>6, <1>7 DEF StaticInv, Scanned

\* What has been sent on by the same table was sent as well.
LEMMA BestStays ==
    ASSUME GoesByBest, passed' = passed, routes' = routes
    PROVE  GoesByBest'
  <1>1. \A k : route_at(k)' = route_at(k)
    BY DEF route_at
  <1>2. \A ip : Fits(ip)' = Fits(ip)
    BY <1>1 DEF Fits
  <1> QED BY ONLY GoesByBest, passed' = passed, <1>1, <1>2 DEF GoesByBest

\* A packet arrives, or is taken: none has been sent on.
LEMMA TakeStep ==
    ASSUME StaticInv, NEW f \in Ifaces, TakePacket(f)
    PROVE  StaticInv'
  <1>1. StaticTypeOK /\ UNCHANGED <<routes, on_link, arrivals, passed>>
    BY DEF StaticInv, TakePacket
  <1>2. arrived[f] \in Seq(msg) /\ arrived[f] # <<>>
    BY <1>1 DEF TakePacket, StaticTypeOK
  <1>3. Head(arrived[f]) \in msg /\ Tail(arrived[f]) \in Seq(msg)
    BY <1>2, HeadTailProperties
  <1>4. arrived' \in [Ifaces -> Seq(msg)]
    BY <1>1, <1>3 DEF TakePacket, StaticTypeOK
  <1>5. GoesByBest'
    BY <1>1, BestStays DEF StaticInv
  <1>6. CASE UNCHANGED <<handled, best_index, i, at>>
    <2>1. StaticTypeOK'
      BY <1>1, <1>4, <1>6 DEF StaticTypeOK
    <2>2. Scanned'
      BY <1>1, <1>6 DEF StaticInv, Scanned, Best, Fits, route_at, mask_at
    <2> QED BY <1>5, <2>1, <2>2 DEF StaticInv
  <1>7. CASE /\ ~Discarded(Head(arrived[f])) /\ handled' = Head(arrived[f])
             /\ best_index' = -1 /\ i' = 0 /\ at' = "lookup"
    <2>1. handled' \in msg /\ handled'.ttl >= 1
      BY <1>3, <1>7 DEF Discarded, msg
    <2>2. Len(routes) \in Nat
      BY <1>1, RouteTypes
    <2>3. StaticTypeOK'
      BY <1>1, <1>4, <1>7, <2>1, <2>2 DEF StaticTypeOK
    <2>4. Best(handled.daddr, i, best_index)'
      BY <1>7 DEF Best, Fits
    <2>5. Scanned'
      BY <1>7, <2>1, <2>4 DEF Scanned
    <2> QED BY <1>5, <2>3, <2>5 DEF StaticInv
  <1> QED BY <1>6, <1>7 DEF TakePacket

LEMMA ArrivesStep ==
    ASSUME StaticInv, NEW f \in Ifaces, NEW p \in msg, Arrives(f, p)
    PROVE  StaticInv'
  <1>1. /\ StaticTypeOK
        /\ UNCHANGED <<routes, on_link, handled, best_index, i, at, passed>>
        /\ arrivals' \in 0..MaxArrivals
    BY StaticRouterAssumption DEF StaticInv, Arrives, StaticTypeOK
  <1>2. Append(arrived[f], p) \in Seq(msg)
    BY <1>1, AppendProperties DEF StaticTypeOK
  <1>3. arrived' \in [Ifaces -> Seq(msg)]
    BY <1>1, <1>2 DEF Arrives, StaticTypeOK
  <1>4. StaticTypeOK'
    BY <1>1, <1>3 DEF StaticTypeOK
  <1>5. Scanned' /\ GoesByBest'
    BY <1>1 DEF StaticInv, Scanned, Best, GoesByBest, Fits, route_at, mask_at
  <1> QED BY <1>4, <1>5 DEF StaticInv

\* Only an empty mask is not above an index.
LEMMA AboveIsLonger ==
    ASSUME NEW b \in 0..100, NEW k
    PROVE  Above(k, b) <=> mask_at(k) # 0
  BY DEF Above, mask_at

LEMMA BestOn ==
    ASSUME StaticTypeOK, NEW d, NEW n \in 0..(Len(routes) - 1), NEW b \in -1..(n - 1),
           Best(d, n, b)
    PROVE  Best(d, n + 1, IF n \in Fits(d) /\ (b = -1 \/ mask_at(n) # 0) THEN n ELSE b)
  <1>1. Len(routes) \in 0..100 /\ \A k \in Fits(d) : k \in 0..(Len(routes) - 1)
    BY RouteTypes
  <1> DEFINE c == IF n \in Fits(d) /\ (b = -1 \/ mask_at(n) # 0) THEN n ELSE b
  <1>2. \A k \in Fits(d) : k \in Int /\ (k < n + 1 <=> k < n \/ k = n) /\ (k >= n + 1 <=> k >= n /\ k # n)
    BY <1>1
  <1>3. CASE c = n /\ n \in Fits(d) /\ (b = -1 \/ mask_at(n) # 0)
    <2>1. n # -1
      OBVIOUS
    <2>2. ASSUME NEW k \in Fits(d), k < n + 1, mask_at(k) # 0
          PROVE  k <= n /\ mask_at(n) # 0
      <3>1. k <= n
        BY <1>1, <2>2
      <3>2. CASE k = n
        BY <2>2, <3>1, <3>2
      <3>3. CASE k # n
        <4>1. k < n /\ ~(k >= n)
          BY <1>2, <2>2, <3>3
        <4>2. b # -1
          BY <4>1 DEF Best
        <4> QED BY <1>3, <3>1, <4>2
      <3> QED BY <3>2, <3>3
    <2> HIDE DEF c
    <2> QED BY <1>3, <2>1, <2>2 DEF Best, c
  <1>4. CASE c = b /\ ~(n \in Fits(d) /\ (b = -1 \/ mask_at(n) # 0))
    <2> HIDE DEF c
    <2>1. CASE b = -1
      <3>1. n \notin Fits(d)
        BY <1>4, <2>1
      <3> QED BY <1>2, <1>4, <2>1, <3>1 DEF Best, c
    <2>2. CASE b # -1
      <3>1. \A k \in Fits(d) : k < n + 1 /\ mask_at(k) # 0 => k < n
        BY <1>2, <1>4
      <3> QED BY <1>4, <2>2, <3>1 DEF Best, c
    <2> QED BY <2>1, <2>2
  <1> QED BY <1>3, <1>4

LEMMA LooksAtStep == StaticInv /\ LooksAt => StaticInv'
  <1> SUFFICES ASSUME StaticInv, LooksAt PROVE StaticInv'
    OBVIOUS
  <1>1. /\ StaticTypeOK /\ at = "lookup" /\ i' = i + 1 /\ i < Len(routes)
        /\ UNCHANGED <<routes, on_link, arrived, arrivals, handled, at, passed>>
    BY DEF StaticInv, LooksAt
  <1> DEFINE d == handled.daddr
  <1>2. /\ handled \in msg /\ handled.ttl >= 1 /\ i \in 0..Len(routes)
        /\ best_index \in -1..(i - 1) /\ Best(d, i, best_index)
    BY <1>1 DEF StaticInv, Scanned, StaticTypeOK
  <1>3. Len(routes) \in 0..100
    BY <1>1, RouteTypes
  <1>4. i \in 0..(Len(routes) - 1)
    BY <1>1, <1>2, <1>3
  <1>5. best_index # -1 => (Above(i, best_index) <=> mask_at(i) # 0)
    <2>1. SUFFICES ASSUME best_index # -1 PROVE Above(i, best_index) <=> mask_at(i) # 0
      OBVIOUS
    <2>2. best_index \in 0..100
      <3>1. ASSUME NEW n \in 0..100, NEW j \in 0..n, NEW b \in -1..(j - 1), b # -1
            PROVE  b \in 0..100
        BY <3>1
      <3> QED BY <1>2, <1>3, <2>1, <3>1
    <2> QED BY <2>2, AboveIsLonger
  <1>6. i \in Fits(d) <=> masked(handled.daddr, route_at(i).mask) = route_at(i).prefix
    BY <1>4 DEF Fits
  <1>7. best_index' = IF i \in Fits(d) /\ (best_index = -1 \/ mask_at(i) # 0)
                      THEN i ELSE best_index
    BY <1>5, <1>6 DEF LooksAt
  <1>8. Best(d, i', best_index')
    BY <1>1, <1>2, <1>4, <1>7, BestOn
  <1>9. Best(handled.daddr, i, best_index)'
    BY <1>1, <1>8 DEF Best, Fits, route_at, mask_at
  <1> HIDE DEF d
  <1>10. i' \in 0..Len(routes) /\ best_index' \in -1..(i' - 1)
    BY <1>1, <1>2, <1>4, <1>7, <1>3
  <1>11. Scanned'
    BY <1>1, <1>2, <1>9, <1>10 DEF Scanned
  <1>12. best_index' \in -1..(Len(routes) - 1)
    <2>1. ASSUME NEW n \in 0..100, NEW j \in 0..n, NEW b \in -1..(j - 1)
          PROVE  b \in -1..(n - 1)
      OBVIOUS
    <2> QED BY <1>3, <1>10, <2>1
  <1>13. StaticTypeOK'
    BY <1>1, <1>10, <1>12 DEF StaticTypeOK
  <1>14. GoesByBest'
    BY <1>1, BestStays DEF StaticInv
  <1> QED BY <1>11, <1>13, <1>14 DEF StaticInv

\* What GoesByBest says of one packet that went by route b.
GoneByBest(p) ==
    LET fits == Fits(p.msg.daddr)
    IN  /\ p.by \in fits
        /\ mask_at(p.by) = 0 => \A k \in fits : mask_at(k) = 0
        /\ (\A k, n \in fits : k < n => mask_at(k) <= mask_at(n))
              => \A k \in fits : mask_at(k) <= mask_at(p.by)

LEMMA GoesByBestSays ==
    /\ GoesByBest <=> \A j \in DOMAIN passed : GoneByBest(passed[j])
    /\ GoesByBest' <=> \A j \in DOMAIN passed' : GoneByBest(passed[j])'
  BY DEF GoesByBest, GoneByBest, mask_at

\* The best of all routes is the best match.
LEMMA BestOfAll ==
    ASSUME StaticTypeOK, NEW d, NEW b, b # -1, Best(d, Len(routes), b)
    PROVE  /\ b \in Fits(d)
           /\ mask_at(b) = 0 => \A k \in Fits(d) : mask_at(k) = 0
           /\ (\A k, n \in Fits(d) : k < n => mask_at(k) <= mask_at(n))
                 => \A k \in Fits(d) : mask_at(k) <= mask_at(b)
  <1>1. /\ Len(routes) \in Nat /\ \A k \in Fits(d) : k \in 0..(Len(routes) - 1)
        /\ \A k \in Fits(d) : mask_at(k) \in Nat
    BY RouteTypes
  <1>2. b \in Fits(d) /\ \A k \in Fits(d) : mask_at(k) # 0 => k <= b /\ mask_at(b) # 0
    BY <1>1 DEF Best
  <1>3. ASSUME \A k, n \in Fits(d) : k < n => mask_at(k) <= mask_at(n), NEW k \in Fits(d)
        PROVE  mask_at(k) <= mask_at(b)
    <2>1. CASE mask_at(k) = 0
      BY <1>1, <1>2, <2>1
    <2>2. CASE mask_at(k) # 0
      <3>1. k = b \/ k < b
        BY <1>1, <1>2, <2>2
      <3> QED BY <1>1, <1>2, <1>3, <3>1
    <2> QED BY <2>1, <2>2
  <1> QED BY <1>2, <1>3

LEMMA SendOnStep == StaticInv /\ SendOn => StaticInv'
  <1> SUFFICES ASSUME StaticInv, SendOn PROVE StaticInv'
    OBVIOUS
  <1>1. /\ StaticTypeOK /\ at = "lookup" /\ i = Len(routes) /\ handled' = Nothing
        /\ UNCHANGED <<routes, on_link, arrived, arrivals, best_index, i>>
        /\ at' \in {"loop", "crashed"}
    BY DEF StaticInv, SendOn
  <1>2. Scanned'
    BY <1>1 DEF Scanned
  <1>3. CASE UNCHANGED passed
    <2>1. StaticTypeOK'
      BY <1>1, <1>3 DEF StaticTypeOK
    <2>2. GoesByBest'
      BY <1>1, <1>3, BestStays DEF StaticInv
    <2> QED BY <1>2, <2>1, <2>2 DEF StaticInv
  <1> DEFINE p == [msg |-> [handled EXCEPT !.ttl = @ - 1], by |-> best_index]
             sent == [msg : msg, by : 0..(Len(routes) - 1)]
  <1>4. CASE best_index # -1 /\ passed' = Append(passed, p)
    <2>1. /\ handled \in msg /\ handled.ttl >= 1
          /\ Best(handled.daddr, Len(routes), best_index)
      BY <1>1 DEF StaticInv, Scanned
    <2>2. Len(routes) \in Nat /\ best_index \in 0..(Len(routes) - 1)
      BY <1>1, <1>4, RouteTypes DEF StaticTypeOK
    <2>3. [handled EXCEPT !.ttl = @ - 1] \in msg /\ p.msg.daddr = handled.daddr
      BY <2>1 DEF msg
    <2>4. p \in sent /\ p.by = best_index
      BY <2>2, <2>3
    <2>5. GoneByBest(p)
      BY <1>1, <1>4, <2>1, <2>3, <2>4, BestOfAll DEF GoneByBest
    <2>6. \A j : GoneByBest(passed[j])' <=> GoneByBest(passed'[j])
      BY <1>1 DEF GoneByBest, Fits, route_at, mask_at
    <2> HIDE DEF p, sent
    <2>7. passed \in Seq(sent)
      BY <1>1 DEF StaticTypeOK, sent
    <2>8. /\ passed' \in Seq(sent) /\ DOMAIN passed' = 1..(Len(passed) + 1)
          /\ Len(passed) \in Nat /\ DOMAIN passed = 1..Len(passed)
          /\ \A j \in 1..(Len(passed) + 1) :
               passed'[j] = IF j <= Len(passed) THEN passed[j] ELSE p
      BY <1>4, <2>4, <2>7
    <2>9. StaticTypeOK'
      BY <1>1, <2>8 DEF StaticTypeOK, sent
    <2>10. \A j \in DOMAIN passed : GoneByBest(passed[j])
      BY GoesByBestSays DEF StaticInv
    <2>11. \A j \in DOMAIN passed' : GoneByBest(passed'[j])
      BY <2>5, <2>8, <2>10
    <2>12. GoesByBest'
      BY <2>6, <2>11, GoesByBestSays
    <2> QED BY <1>2, <2>9, <2>12 DEF StaticInv
  <1> QED BY <1>3, <1>4 DEF SendOn

LEMMA StaticInvStep == StaticInv /\ [StaticNext]_static => StaticInv'
  <1> SUFFICES ASSUME StaticInv, [StaticNext]_static PROVE StaticInv'
    OBVIOUS
  <1>1. CASE UNCHANGED static
    BY <1>1 DEF static, StaticInv, StaticTypeOK, Scanned, Best, GoesByBest, Fits, route_at,
                mask_at
  <1> QED BY <1>1, TakeStep, ArrivesStep, LooksAtStep, SendOnStep DEF StaticNext, StaticStep

LEMMA StaticInvHolds == StaticSpec => []StaticInv
  BY StaticInvInit, StaticInvStep, PTL DEF StaticSpec

\* The locals of the lookup stay within the table, and what is sent on had a ttl to
\* count down.
THEOREM StaticTypes == StaticSpec => []StaticTypeOK
  <1>1. StaticInv => StaticTypeOK
    BY DEF StaticInv
  <1> QED BY <1>1, StaticInvHolds, PTL

\* The best match, although masks are compared with an index: for every table of up
\* to 100 routes.
THEOREM BestMatch == StaticSpec => []GoesByBest
  <1>1. StaticInv => GoesByBest
    BY DEF StaticInv
  <1> QED BY <1>1, StaticInvHolds, PTL

HIDE RouterAssumption

-----------------------------------------------------------------------------
(* The checksums.                                                            *)

USE ChecksumAssumption

ChecksumSpec == ChecksumInit /\ [][ChecksumNext]_summed

\* Equal modulo 2^16 - 1.
Ones == Word16 - 1
Same(x, y) == \E c \in Int : x = y + c * Ones

LEMMA WordFacts ==
    /\ Word16 \in Nat /\ Word16 >= 4 /\ Word16 > Octet /\ Word16 = Octet * Octet
    /\ Ones \in Nat /\ Ones >= 3 /\ Word16 = Ones + 1
    /\ Word32 \in Nat /\ Word32 = Word16 * Word16 /\ Word32 > Word16
    /\ Word32 - 1 = (Word16 + 1) * Ones
  <1>1. Octet * Octet >= 2 * Octet
    OBVIOUS
  <1>2. Word16 \in Nat /\ Word16 >= 4 /\ Word16 > Octet /\ Word16 = Octet * Octet
    BY <1>1 DEF Word16
  <1>3. Word16 * Word16 >= 4 * Word16
    BY <1>2
  <1> QED BY <1>2, <1>3 DEF Ones, Word32

LEMMA SameSelf == ASSUME NEW x \in Int PROVE Same(x, x)
  <1>1. x = x + 0 * Ones
    BY WordFacts
  <1> QED BY <1>1 DEF Same

LEMMA SameBack == ASSUME NEW x \in Int, NEW y \in Int, Same(x, y) PROVE Same(y, x)
  <1>1. PICK c \in Int : x = y + c * Ones
    BY DEF Same
  <1>2. y = x + (0 - c) * Ones /\ 0 - c \in Int
    BY <1>1, WordFacts
  <1> QED BY <1>2 DEF Same

LEMMA SameSum ==
    ASSUME NEW x \in Int, NEW y \in Int, NEW a \in Int, NEW b \in Int, Same(x, y), Same(a, b)
    PROVE  Same(x + a, y + b)
  <1>1. PICK c \in Int : x = y + c * Ones
    BY DEF Same
  <1>2. PICK d \in Int : a = b + d * Ones
    BY DEF Same
  <1>3. x + a = (y + b) + (c + d) * Ones /\ c + d \in Int
    BY <1>1, <1>2, WordFacts
  <1> QED BY <1>3 DEF Same

LEMMA SameThrough ==
    ASSUME NEW x \in Int, NEW y \in Int, NEW z \in Int, Same(x, y), Same(y, z)
    PROVE  Same(x, z)
  <1>1. PICK c \in Int : x = y + c * Ones
    BY DEF Same
  <1>2. PICK d \in Int : y = z + d * Ones
    BY DEF Same
  <1>3. x = z + (c + d) * Ones /\ c + d \in Int
    BY <1>1, <1>2, WordFacts
  <1> QED BY <1>3 DEF Same

LEMMA SameTimes ==
    ASSUME NEW x \in Int, NEW y \in Int, NEW k \in Int, Same(x, y)
    PROVE  Same(k * x, k * y)
  <1>1. PICK c \in Int : x = y + c * Ones
    BY DEF Same
  <1>2. k * x = k * y + (k * c) * Ones /\ k * c \in Int
    BY <1>1, WordFacts
  <1> QED BY <1>2 DEF Same

LEMMA DivMod ==
    ASSUME NEW n \in Nat, NEW w \in Nat, w > 0
    PROVE  /\ n % w \in Nat /\ n \div w \in Nat /\ n % w < w
           /\ n = w * (n \div w) + (n % w)
  OBVIOUS

\* A quotient and a remainder are the only ones.
LEMMA OnlyOne ==
    ASSUME NEW w \in Nat, w > 0, NEW c \in Nat, NEW d \in Nat, NEW rest \in Nat, NEW low \in Nat,
           rest < w, low < w, w * c + rest = w * d + low
    PROVE  c = d /\ rest = low
  <1>1. ASSUME NEW a \in Nat, NEW b \in Nat, NEW k \in Nat, NEW n \in Nat,
               n < w, w * a + k = w * b + n, a > b
        PROVE  FALSE
    <2>1. w * a >= w * (b + 1) /\ w * (b + 1) = w * b + w
      BY <1>1
    <2>2. w * a \in Nat /\ w * b \in Nat
      BY <1>1
    <2> QED BY <1>1, <2>1, <2>2
  <1>2. ~(c > d) /\ ~(d > c)
    BY <1>1
  <1>3. c = d
    BY <1>2
  <1>4. w * d \in Nat /\ w * c = w * d
    BY <1>3
  <1> QED BY <1>3, <1>4

LEMMA ModPlus ==
    ASSUME NEW a \in Nat, NEW c \in Nat, NEW w \in Nat, w > 0
    PROVE  (a + c * w) % w = a % w
  <1>1. PICK b \in Nat : b = a + c * w
    <2>1. c * w \in Nat
      OBVIOUS
    <2> QED BY <2>1
  <1>2. PICK d, e, low, n \in Nat : d = b \div w /\ low = b % w /\ e = a \div w /\ n = a % w
    BY DivMod
  <1>3. low < w /\ n < w /\ b = w * d + low /\ a = w * e + n
    BY <1>2, DivMod
  <1>4. w * d + low = w * (e + c) + n
    <2>1. w * (e + c) = w * e + c * w
      OBVIOUS
    <2> QED BY <1>1, <1>3, <2>1
  <1>5. low = n
    BY <1>3, <1>4, OnlyOne
  <1> QED BY <1>1, <1>2, <1>5

\* Every value is the same as none that is a multiple.
LEMMA SameAsNone == ASSUME NEW x \in Nat, Same(x, 0) PROVE x % Ones = 0
  <1>1. PICK c \in Int : x = c * Ones
    <2>1. PICK c \in Int : x = 0 + c * Ones
      BY DEF Same
    <2> QED BY <2>1, WordFacts
  <1>2. c \in Nat
    <2>1. ASSUME c < 0 PROVE FALSE
      <3>1. (0 - c) * Ones > 0
        BY <2>1, WordFacts
      <3> QED BY <1>1, <3>1, WordFacts
    <2> QED BY <2>1
  <1>3. (0 + c * Ones) % Ones = 0 % Ones
    BY <1>2, ModPlus, WordFacts
  <1>4. 0 % Ones = 0 /\ 0 + c * Ones = x
    BY <1>1, WordFacts
  <1> QED BY <1>3, <1>4

-----------------------------------------------------------------------------
(* Folding.                                                                  *)

LEMMA FoldOf ==
    ASSUME NEW n \in Nat, NEW w \in {Word16, Word32}
    PROVE  /\ Fold(n, w) \in Nat /\ Same(Fold(n, w), n)
           /\ n > 0 => Fold(n, w) > 0
           /\ n >= w => Fold(n, w) < n
  <1> DEFINE d == n \div w
             low == n % w
  <1>1. w \in Nat /\ w >= 4
    BY WordFacts
  <1>2. d \in Nat /\ low \in Nat /\ low < w /\ n = w * d + low
    BY <1>1, DivMod
  <1>3. Fold(n, w) = low + d
    BY DEF Fold
  <1> HIDE DEF d, low
  <1>4. PICK k \in Int : w - 1 = k * Ones
    <2>1. Word16 - 1 = 1 * Ones
      BY WordFacts
    <2>2. Word16 + 1 \in Int /\ Word32 - 1 = (Word16 + 1) * Ones
      BY WordFacts
    <2> QED BY <2>1, <2>2
  <1>5. low + d = n + (0 - d * k) * Ones
    <2>1. n - (low + d) = d * (w - 1)
      BY <1>1, <1>2
    <2>2. d * (k * Ones) = (d * k) * Ones /\ (0 - d * k) * Ones = 0 - (d * k) * Ones
      BY <1>2, WordFacts
    <2> QED BY <1>1, <1>2, <1>4, <2>1, <2>2, WordFacts
  <1>6. Same(low + d, n)
    <2>1. 0 - d * k \in Int
      BY <1>2
    <2> QED BY <1>5, <2>1 DEF Same
  <1>7. ASSUME n > 0 PROVE low + d > 0
    <2>1. ASSUME low = 0, d = 0 PROVE FALSE
      BY <1>1, <1>2, <1>7, <2>1
    <2> QED BY <1>2, <2>1
  <1>8. ASSUME n >= w PROVE low + d < n
    <2>1. d # 0
      <3>1. ASSUME d = 0 PROVE FALSE
        BY <1>1, <1>2, <1>8, <3>1
      <3> QED BY <3>1
    <2>2. d * w >= 2 * d
      BY <1>1, <1>2
    <2>3. w * d = d * w
      BY <1>1, <1>2
    <2> QED BY <1>1, <1>2, <2>1, <2>2, <2>3
  <1> QED BY <1>2, <1>3, <1>6, <1>7, <1>8

\* What fold comes to, without recursion: so there is such a function.
LEMMA FoldExists ==
    \E g : g = [x \in Nat |-> IF x < Word16 THEN x ELSE g[Fold(x, Word16)]]
  <1> DEFINE g == [x \in Nat |-> IF x = 0 THEN 0 ELSE ((x - 1) % Ones) + 1]
  <1>2. ASSUME NEW x \in Nat, x < Word16 PROVE g[x] = x
    <2>1. ASSUME x # 0 PROVE (x - 1) % Ones = x - 1
      <3>1. x - 1 \in 0..(Ones - 1)
        BY <1>2, <2>1, WordFacts
      <3> QED BY <3>1, WordFacts
    <2> QED BY <2>1
  <1>3. ASSUME NEW x \in Nat, x >= Word16 PROVE g[x] = g[Fold(x, Word16)]
    <2>1. PICK y \in Nat : y = Fold(x, Word16)
      BY FoldOf
    <2>2. y > 0 /\ y < x /\ Same(x, y)
      BY <1>3, <2>1, FoldOf, SameBack, WordFacts
    <2>3. PICK c \in Int : x = y + c * Ones
      BY <2>2 DEF Same
    <2>4. c \in Nat
      <3>1. ASSUME c < 0 PROVE FALSE
        <4>1. (0 - c) * Ones > 0
          BY <3>1, WordFacts
        <4> QED BY <2>2, <2>3, <4>1, WordFacts
      <3> QED BY <3>1
    <2>5. ((y - 1) + c * Ones) % Ones = (y - 1) % Ones
      <3>1. PICK z \in Nat : z = y - 1
        BY <2>2
      <3>2. (z + c * Ones) % Ones = z % Ones
        <4>1. Ones \in Nat /\ Ones > 0
          BY WordFacts
        <4> QED BY ONLY <2>4, <3>1, <4>1, ModPlus
      <3> QED BY <3>1, <3>2
    <2>6. x - 1 = (y - 1) + c * Ones
      BY <2>3, WordFacts
    <2>7. x # 0 /\ y # 0
      BY <2>2
    <2>8. g[x] = ((x - 1) % Ones) + 1 /\ g[y] = ((y - 1) % Ones) + 1
      BY <2>7
    <2> HIDE DEF g
    <2> QED BY <2>1, <2>5, <2>6, <2>8
  <1>4. g = [x \in Nat |-> IF x < Word16 THEN x ELSE g[Fold(x, Word16)]]
    <2>1. \A x \in Nat : g[x] = IF x < Word16 THEN x ELSE g[Fold(x, Word16)]
      <3> HIDE DEF g
      <3> QED BY <1>2, <1>3, WordFacts
    <2>2. g = [x \in Nat |-> g[x]]
      OBVIOUS
    <2> HIDE DEF g
    <2> QED BY <2>1, <2>2
  <1> HIDE DEF g
  <1> QED BY <1>4

LEMMA FoldIs ==
    fold = [x \in Nat |-> IF x < Word16 THEN x ELSE fold[Fold(x, Word16)]]
  BY FoldExists DEF fold

LEMMA FoldRight ==
    \A x \in Nat : /\ fold[x] \in Nat /\ fold[x] < Word16
                   /\ Same(fold[x], x) /\ (x > 0 => fold[x] > 0)
  <1> DEFINE Right(x) == /\ fold[x] \in Nat /\ fold[x] < Word16
                         /\ Same(fold[x], x) /\ (x > 0 => fold[x] > 0)
             wrong == {x \in Nat : ~Right(x)}
  <1>1. ASSUME wrong # {} PROVE FALSE
    <2>1. PICK x \in wrong : \A y \in wrong : x <= y
      BY <1>1, LeastNatural
    <2>2. \A y \in Nat : y < x => Right(y)
      BY <2>1
    <2>3. x \in Nat /\ ~Right(x)
      OBVIOUS
    <2>4. CASE x < Word16
      <3>1. fold[x] = x
        BY <2>3, <2>4, FoldIs
      <3> QED BY <2>3, <2>4, <3>1, SameSelf
    <2>5. CASE ~(x < Word16)
      <3>1. PICK y \in Nat : y = Fold(x, Word16)
        BY <2>3, FoldOf
      <3>2. fold[x] = fold[y]
        BY <2>3, <2>5, <3>1, FoldIs
      <3>3. y > 0 /\ y < x /\ Same(y, x)
        BY <2>3, <2>5, <3>1, FoldOf, WordFacts
      <3>4. Right(y)
        BY <2>2, <3>3
      <3>5. Same(fold[y], x)
        BY <2>3, <3>3, <3>4, SameThrough
      <3> QED BY <2>3, <3>2, <3>3, <3>4, <3>5
    <2> QED BY <2>4, <2>5
  <1> QED BY <1>1

LEMMA FoldedOf ==
    ASSUME NEW n \in Nat
    PROVE  /\ Folded(n) \in 0..Ones /\ Same(Folded(n), n) /\ (n > 0 => Folded(n) > 0)
  <1>1. PICK k \in Nat : k = Fold(n, Word32) /\ Same(k, n) /\ (n > 0 => k > 0)
    BY FoldOf
  <1>2. PICK f : f = fold[k]
    OBVIOUS
  <1>3. f \in Nat /\ f < Word16 /\ Same(f, k) /\ (k > 0 => f > 0)
    BY <1>2, FoldRight
  <1>4. Same(f, n)
    BY <1>1, <1>3, SameThrough
  <1> QED BY <1>1, <1>2, <1>3, <1>4, WordFacts DEF Folded

-----------------------------------------------------------------------------
(* Sums of words.                                                            *)

Octets == 0..Octet - 1

\* What the sums of the first n bytes are.
AreSums(g, bytes, n) ==
    /\ g \in [0..n -> Nat] /\ g[0] = 0
    /\ \A k \in 1..n : g[k] = g[k - 1] + Weight(k) * bytes[k]

LEMMA WeightIs == \A k \in Int : Weight(k) \in Nat
  BY DEF Weight

LEMMA SumsExist ==
    ASSUME NEW bytes \in Seq(Octets), NEW n \in 0..Len(bytes)
    PROVE  \E g : AreSums(g, bytes, n)
  <1>1. Len(bytes) \in Nat /\ \A k \in 1..Len(bytes) : bytes[k] \in Nat
    BY DEF Octets
  <1> DEFINE without == {k \in 0..Len(bytes) : ~\E g : AreSums(g, bytes, k)}
  <1>2. ASSUME without # {} PROVE FALSE
    <2>1. PICK k \in without : \A j \in without : k <= j
      <3>1. without \in SUBSET Nat
        BY <1>1
      <3> HIDE DEF without
      <3> QED BY <1>2, <3>1, LeastNatural
    <2>2. CASE k = 0
      <3>1. AreSums([j \in 0..0 |-> 0], bytes, 0)
        BY DEF AreSums
      <3> QED BY <2>2, <3>1
    <2>3. CASE k # 0
      <3>1. k - 1 \in 0..Len(bytes) /\ k \in 1..Len(bytes)
        BY <1>1, <2>1, <2>3
      <3>8. k - 1 \notin without
        <4>1. \A j \in without : k <= j
          BY <2>1
        <4>2. ~(k <= k - 1)
          BY <3>1
        <4> HIDE DEF without
        <4> QED BY <4>1, <4>2
      <3>2. PICK g : AreSums(g, bytes, k - 1)
        BY <3>1, <3>8
      <3>3. PICK more : more = Weight(k) * bytes[k]
        OBVIOUS
      <3>4. more \in Nat
        <4>3. Weight(k) \in Nat /\ bytes[k] \in Nat
          BY <1>1, <3>1, WeightIs
        <4>1. PICK a, b \in Nat : a = Weight(k) /\ b = bytes[k]
          BY <4>3
        <4>2. a * b \in Nat
          OBVIOUS
        <4> QED BY <3>3, <4>1, <4>2
      <3> DEFINE h == [j \in 0..k |-> IF j < k THEN g[j] ELSE g[k - 1] + more]
      <3>5. h \in [0..k -> Nat] /\ h[0] = 0
        <4>1. \A j \in 0..k : (IF j < k THEN g[j] ELSE g[k - 1] + more) \in Nat
          BY <3>1, <3>2, <3>4 DEF AreSums
        <4>2. h[0] = g[0]
          BY <3>1
        <4> QED BY <3>2, <4>1, <4>2 DEF AreSums
      <3>6. ASSUME NEW j \in 1..k PROVE h[j] = h[j - 1] + Weight(j) * bytes[j]
        <4>1. CASE j < k
          <5>1. h[j] = g[j] /\ h[j - 1] = g[j - 1] /\ j \in 1..(k - 1)
            BY <3>1, <4>1
          <5> HIDE DEF h
          <5> QED BY <3>2, <5>1 DEF AreSums
        <4>2. CASE j = k
          <5>1. h[k] = g[k - 1] + more /\ h[k - 1] = g[k - 1]
            BY <3>1
          <5> HIDE DEF h
          <5> QED BY <3>3, <4>2, <5>1
        <4> QED BY <3>1, <4>1, <4>2
      <3>7. AreSums(h, bytes, k)
        BY <3>5, <3>6 DEF AreSums
      <3> QED BY <2>1, <3>7
    <2> QED BY <2>2, <2>3
  <1> QED BY <1>2

LEMMA SumsAre ==
    ASSUME NEW bytes \in Seq(Octets)
    PROVE  AreSums(NetworkSums(bytes), bytes, Len(bytes))
  <1> DEFINE sums(g) ==
               [k \in 0..Len(bytes) |-> IF k = 0 THEN 0 ELSE g[k - 1] + Weight(k) * bytes[k]]
  <1>1. Len(bytes) \in Nat /\ \A k \in 1..Len(bytes) : bytes[k] \in Nat
    BY DEF Octets
  <1>2. PICK g : AreSums(g, bytes, Len(bytes))
    BY <1>1, SumsExist
  <1>3. g = sums(g)
    <2>1. g = [k \in 0..Len(bytes) |-> g[k]]
      BY <1>2 DEF AreSums
    <2>2. \A k \in 0..Len(bytes) : g[k] = IF k = 0 THEN 0 ELSE g[k - 1] + Weight(k) * bytes[k]
      BY <1>1, <1>2 DEF AreSums
    <2> QED BY <2>1, <2>2
  <1>4. PICK s : s = NetworkSums(bytes)
    OBVIOUS
  <1>5. s = sums(s)
    BY <1>3, <1>4 DEF NetworkSums
  <1>6. /\ s[0] = 0 /\ DOMAIN s = 0..Len(bytes)
        /\ \A k \in 1..Len(bytes) : s[k] = s[k - 1] + Weight(k) * bytes[k]
    BY <1>1, <1>5
  <1> DEFINE wrong == {k \in 0..Len(bytes) : s[k] # g[k]}
  <1>7. ASSUME wrong # {} PROVE FALSE
    <2>1. PICK k \in wrong : \A j \in wrong : k <= j
      <3>1. wrong \in SUBSET Nat
        BY <1>1
      <3> HIDE DEF wrong
      <3> QED BY <1>7, <3>1, LeastNatural
    <2>2. k # 0
      BY <1>2, <1>6 DEF AreSums
    <2>3. k - 1 \in 0..Len(bytes) /\ k \in 1..Len(bytes) /\ k - 1 \notin wrong
      <3>1. k \in 0..Len(bytes)
        OBVIOUS
      <3> HIDE DEF wrong
      <3>2. k - 1 \in 0..Len(bytes) /\ k \in 1..Len(bytes) /\ ~(k <= k - 1)
        BY ONLY <1>1, <2>2, <3>1
      <3> QED BY ONLY <2>1, <3>2
    <2>4. s[k - 1] = g[k - 1]
      BY <2>3
    <2> QED BY <1>2, <1>6, <2>1, <2>3, <2>4 DEF AreSums
  <1>8. s = g
    <2>1. DOMAIN g = 0..Len(bytes) /\ g = [k \in 0..Len(bytes) |-> g[k]]
      BY <1>2 DEF AreSums
    <2>2. s = [k \in 0..Len(bytes) |-> s[k]]
      BY <1>5, <1>6
    <2> HIDE DEF sums
    <2> QED BY <1>7, <2>1, <2>2
  <1> QED BY <1>2, <1>4, <1>8

\* The two bytes of a checksum as a word.
LEMMA SumOfTwo ==
    ASSUME NEW a \in Octets, NEW b \in Octets
    PROVE  NetworkSum(<<a, b>>) = Octet * a + b
  <1>1. <<a, b>> \in Seq(Octets) /\ Len(<<a, b>>) = 2
    OBVIOUS
  <1>2. PICK s : s = NetworkSums(<<a, b>>)
    OBVIOUS
  <1>3. AreSums(s, <<a, b>>, 2)
    BY <1>1, <1>2, SumsAre
  <1>4. s[0] = 0 /\ s[1] = s[0] + Weight(1) * a /\ s[2] = s[1] + Weight(2) * b
    <2>1. s[1] = s[1 - 1] + Weight(1) * <<a, b>>[1] /\ s[2] = s[2 - 1] + Weight(2) * <<a, b>>[2]
      BY <1>3 DEF AreSums
    <2> QED BY <1>3, <2>1 DEF AreSums
  <1>5. Weight(1) = Octet /\ Weight(2) = 1
    BY DEF Weight
  <1>6. a \in Nat /\ b \in Nat /\ Octet * a \in Nat
    BY DEF Octets
  <1> QED BY <1>1, <1>2, <1>4, <1>5, <1>6 DEF NetworkSum

-----------------------------------------------------------------------------
(* The words of a result.                                                    *)

LEMMA BytesOf ==
    ASSUME NEW n \in 0..Ones
    PROVE  /\ Bytes(n) \in Octets \X Octets /\ NetworkSum(Bytes(n)) = n
           /\ Bytes(n) = Bytes(Ones) => n = Ones
  <1>1. ASSUME NEW k \in 0..Ones
        PROVE  /\ k \div Octet \in Octets /\ k % Octet \in Octets
               /\ k = Octet * (k \div Octet) + (k % Octet)
    <2>1. PICK h, low \in Nat : h = k \div Octet /\ low = k % Octet
      <3>1. k \in Nat /\ Octet \in Nat /\ Octet > 0
        BY WordFacts
      <3>2. k \div Octet \in Nat /\ k % Octet \in Nat
        BY <3>1, DivMod
      <3> QED BY <3>2
    <2>2. low < Octet /\ k = Octet * h + low
      BY <2>1, WordFacts, DivMod
    <2>3. ASSUME h >= Octet PROVE FALSE
      <3>1. Octet * h >= Octet * Octet
        BY <2>3
      <3> QED BY <2>2, <3>1, WordFacts
    <2> QED BY <2>1, <2>2, <2>3 DEF Octets
  <1>2. NetworkSum(Bytes(n)) = n
    BY <1>1, SumOfTwo DEF Bytes
  <1>3. ASSUME Bytes(n) = Bytes(Ones) PROVE n = Ones
    <2>1. n \div Octet = Ones \div Octet /\ n % Octet = Ones % Octet
      BY <1>3 DEF Bytes
    <2>2. Ones \in 0..Ones
      BY WordFacts
    <2>3. Ones = Octet * (Ones \div Octet) + (Ones % Octet)
      BY <1>1, <2>2
    <2> QED BY <1>1, <2>1, <2>3
  <1> QED BY <1>1, <1>2, <1>3 DEF Bytes

LEMMA SwappedOf ==
    ASSUME NEW n \in 0..Ones
    PROVE  /\ Swapped(n) \in 0..Ones /\ Same(Swapped(n), Octet * n)
           /\ n > 0 => Swapped(n) > 0
  <1>1. PICK h, low \in Nat : h = n \div Octet /\ low = n % Octet
    <2>1. n \in Nat /\ Octet \in Nat /\ Octet > 0
      BY WordFacts
    <2>2. n \div Octet \in Nat /\ n % Octet \in Nat
      BY <2>1, DivMod
    <2> QED BY <2>2
  <1>2. low < Octet /\ n = Octet * h + low
    BY <1>1, WordFacts, DivMod
  <1>3. h < Octet
    <2>1. ASSUME h >= Octet PROVE FALSE
      <3>1. Octet * h >= Octet * Octet
        BY <2>1
      <3> QED BY <1>2, <3>1, WordFacts
    <2> QED BY <2>1
  <1>4. Swapped(n) = Octet * low + h
    BY <1>1 DEF Swapped
  <1>5. Octet * low + h \in 0..Ones
    <2>1. Octet * low <= Octet * (Octet - 1)
      BY <1>2
    <2>2. Octet * low \in Nat /\ Octet * (Octet - 1) = Octet * Octet - Octet
      OBVIOUS
    <2> QED BY <1>3, <2>1, <2>2, WordFacts
  <1>6. Octet * low + h = Octet * n + (0 - h) * Ones
    <2>1. Octet * (Octet * h + low) = (Octet * Octet) * h + Octet * low
      OBVIOUS
    <2>2. (Ones + 1) * h = Ones * h + h /\ (0 - h) * Ones = 0 - Ones * h
      BY WordFacts
    <2> QED BY <1>2, <2>1, <2>2, WordFacts
  <1>7. ASSUME n > 0 PROVE Octet * low + h > 0
    <2>1. ASSUME low = 0, h = 0 PROVE FALSE
      BY <1>2, <1>7, <2>1
    <2>2. low > 0 => Octet * low > 0
      OBVIOUS
    <2> QED BY <2>1, <2>2
  <1>8. 0 - h \in Int
    OBVIOUS
  <1>9. Same(Octet * low + h, Octet * n)
    BY <1>6, <1>8 DEF Same
  <1> QED BY <1>4, <1>5, <1>7, <1>9

-----------------------------------------------------------------------------
(* What has been added up.                                                   *)

sums == NetworkSums(vdata)

\* Bytes at odd addresses have the other weight than in the packet if it begins at one.
Agrees == Same(IF of_icmp \/ start % 2 = 1 THEN Octet * acc ELSE acc, sums[position])

\* Where blocks begin, and what icmp_checksum() is given and makes of it.
Aligned ==
    /\ summing = "start" => position = 0
    /\ summing = "blocks" /\ ~of_icmp => position = Len(vdata) \/ (start + position) % 4 = 0
    /\ summing \in {"carries", "done"} => position = Len(vdata)
    /\ of_icmp => /\ start = 0 /\ vdata \in WordsOnly /\ position % 2 = 0
                  /\ 2 * acc <= position * Ones
    /\ ~of_icmp => acc >= Ones

Verifies == /\ (NetworkSum(vdata) + NetworkSum(checksum)) % Ones = 0
            /\ ~of_icmp => checksum # Bytes(Ones)

ChecksumInv == /\ ChecksumTypeOK /\ Agrees /\ Aligned
               /\ summing = "done" => Verifies

LEMMA DataOf ==
    ASSUME ChecksumTypeOK
    PROVE  /\ vdata \in Seq(Octets) /\ Len(vdata) \in Nat /\ position \in 0..Len(vdata)
           /\ \A k \in 1..Len(vdata) : vdata[k] \in Octets
           /\ sums \in [0..Len(vdata) -> Nat] /\ sums[0] = 0
           /\ \A k \in 1..Len(vdata) : sums[k] = sums[k - 1] + Weight(k) * vdata[k]
           /\ NetworkSum(vdata) = sums[Len(vdata)]
  <1>1. vdata \in Seq(Octets)
    BY DEF ChecksumTypeOK, Octets
  <1>2. AreSums(sums, vdata, Len(vdata))
    BY <1>1, SumsAre DEF sums
  <1>3. Len(vdata) \in Nat /\ \A k \in 1..Len(vdata) : vdata[k] \in Octets
    BY <1>1
  <1> QED BY <1>1, <1>2, <1>3 DEF AreSums, ChecksumTypeOK, NetworkSum, sums

\* A block is the same as the four bytes with their weights, at an even address, and
\* with the other weights after a multiplication.
LEMMA BlockSame ==
    ASSUME NEW a \in Nat, NEW b \in Nat, NEW c \in Nat, NEW d \in Nat, NEW z \in Nat,
           z = Word16 * (Octet * a + b) + Octet * c + d
    PROVE  /\ Same(z, Octet * a + b + Octet * c + d)
           /\ Same(Octet * z, a + Octet * b + c + Octet * d)
  <1>1. PICK o, n \in Nat : o = Octet /\ n = Ones
    BY WordFacts
  <1>2. o * o = n + 1 /\ Word16 = n + 1
    BY <1>1, WordFacts
  <1>3. z = (n + 1) * (o * a + b) + o * c + d
    BY <1>1, <1>2
  <1>4. z = (o * a + b + o * c + d) + (o * a + b) * n
    <2>1. PICK low \in Nat : low = o * a + b
      OBVIOUS
    <2>2. z = (n + 1) * low + o * c + d /\ (n + 1) * low = low + low * n
      BY <1>3, <2>1
    <2> QED BY <2>1, <2>2
  <1>5. o * z = (a + o * b + c + o * d) + ((n + 2) * a + o * b + c) * n
    <2>1. o * z = (n + 1) * ((o * o) * a + o * b) + (o * o) * c + o * d
      BY <1>3
    <2>2. o * z = (n + 1) * ((n + 1) * a + o * b) + (n + 1) * c + o * d
      BY <1>2, <2>1
    <2> QED BY <2>2
  <1>6. o * a + b \in Int /\ (n + 2) * a + o * b + c \in Int
    OBVIOUS
  <1> QED BY <1>1, <1>4, <1>5, <1>6 DEF Same

\* What Adds(first, n) takes, byte by byte.
LEMMA BlockOf ==
    ASSUME ChecksumTypeOK, NEW first \in 0..3, NEW n \in 0..4, first + n <= 4,
           position + n <= Len(vdata), (position + first) % 2 = start % 2
    PROVE  \E a, b, c, d \in Nat :
              /\ Block(first, n) = Word16 * (Octet * a + b) + Octet * c + d
              /\ sums[position + n] = sums[position]
                    + (Weight(1 + start) * a + Weight(2 + start) * b
                       + Weight(3 + start) * c + Weight(4 + start) * d)
  <1> DEFINE byte(k) == IF k \in first + 1..first + n THEN vdata[position + k - first] ELSE 0
  <1>1. /\ Len(vdata) \in Nat /\ position \in Nat /\ start \in 0..3
        /\ \A k \in 1..Len(vdata) : vdata[k] \in Nat
        /\ sums \in [0..Len(vdata) -> Nat]
        /\ \A k \in 1..Len(vdata) : sums[k] = sums[k - 1] + Weight(k) * vdata[k]
    BY DataOf DEF ChecksumTypeOK, Octets
  <1>2. PICK x \in [1..4 -> Nat] : \A k \in 1..4 : x[k] = byte(k)
    <2>1. \A k \in 1..4 : byte(k) \in Nat
      BY <1>1
    <2>2. [k \in 1..4 |-> byte(k)] \in [1..4 -> Nat]
      BY <2>1
    <2> QED BY <2>2
  <1>3. PICK p : p = [k \in 1..4 |-> Weight(k + start) * x[k]]
    OBVIOUS
  <1>4. ASSUME NEW k \in 1..4
        PROVE  /\ p[k] = Weight(k + start) * x[k] /\ p[k] \in Nat
               /\ x[k] = 0 => p[k] = 0
    <2>1. PICK v, w \in Nat : v = x[k] /\ w = Weight(k + start)
      <3>2. x[k] \in Nat /\ k + start \in Int
        BY <1>1
      <3>1. x[k] \in Nat /\ Weight(k + start) \in Nat
        BY <3>2, WeightIs
      <3> QED BY <3>1
    <2>2. w * v \in Nat /\ (v = 0 => w * v = 0)
      OBVIOUS
    <2> QED BY <1>3, <2>1, <2>2
  <1>5. ASSUME NEW k \in 1..4, k \in first + 1..first + n
        PROVE  sums[position + k - first] = sums[position + (k - 1) - first] + p[k]
    <2>1. PICK j \in 1..Len(vdata) : j = position + k - first
      BY <1>1, <1>5
    <2>2. j - 1 = position + (k - 1) - first
      BY <1>1, <2>1
    <2>3. Weight(j) = Weight(k + start)
      <3>1. PICK here, low \in Int : here = k + start /\ low = position + first
        BY <1>1
      <3>2. low % 2 = start % 2
        BY <3>1
      <3>3. j = low + here - start - 2 * first
        BY <1>1, <2>1, <3>1
      <3>4. j % 2 = here % 2
        <4>1. start \in Int /\ first \in Int /\ j \in Int
          BY <1>1
        <4>3. PICK a, c \in Int : a = start /\ c = first
          BY <4>1
        <4>4. low % 2 = a % 2
          BY <3>2, <4>3
        <4>5. (low + here - a - 2 * c) % 2 = here % 2
          BY ONLY low \in Int, here \in Int, a \in Int, c \in Int, <4>4
        <4>6. j = low + here - a - 2 * c
          BY <3>3, <4>3
        <4> QED BY <4>5, <4>6
      <3> QED BY <3>1, <3>4 DEF Weight
    <2>4. x[k] = vdata[j]
      BY <1>2, <1>5, <2>1
    <2>5. sums[j] = sums[j - 1] + Weight(j) * vdata[j]
      BY <1>1
    <2> QED BY <1>4, <2>1, <2>2, <2>3, <2>4, <2>5
  <1> DEFINE t == [low \in 0..4 |-> IF low < first THEN sums[position]
                                  ELSE IF low > first + n THEN sums[position + n]
                                                        ELSE sums[position + low - first]]
  <1>6. t[0] = sums[position] /\ t[4] = sums[position + n] /\ t \in [0..4 -> Nat]
    <2>1. \A low \in 0..4 : (IF low < first THEN sums[position]
                           ELSE IF low > first + n THEN sums[position + n]
                                                 ELSE sums[position + low - first]) \in Nat
      <3> SUFFICES ASSUME NEW low \in 0..4
                   PROVE  (IF low < first THEN sums[position]
                           ELSE IF low > first + n THEN sums[position + n]
                                                 ELSE sums[position + low - first]) \in Nat
        OBVIOUS
      <3>3. position \in 0..Len(vdata) /\ position + n \in 0..Len(vdata)
        BY <1>1
      <3>1. sums[position] \in Nat /\ sums[position + n] \in Nat
        BY <1>1, <3>3
      <3>2. ASSUME ~(low < first), ~(low > first + n) PROVE sums[position + low - first] \in Nat
        <4>1. position + low - first \in 0..Len(vdata)
          BY <1>1, <3>2
        <4> QED BY <1>1, <4>1
      <3> QED BY <3>1, <3>2
    <2>2. (first = 0 => position + 0 - first = position)
          /\ (first + n = 4 => position + 4 - first = position + n)
      BY <1>1
    <2> QED BY <2>1, <2>2
  <1>7. ASSUME NEW k \in 1..4 PROVE t[k] = t[k - 1] + p[k]
    <2>1. CASE k <= first
      <3>1. x[k] = 0
        BY <1>2, <2>1
      <3>2. t[k] = sums[position] /\ t[k - 1] = sums[position]
        <4>1. k = first => position + k - first = position
          BY <1>1
        <4> QED BY <2>1, <4>1
      <3>3. sums[position] \in Nat
        BY <1>1
      <3> HIDE DEF t
      <3> QED BY ONLY <1>4, <3>1, <3>2, <3>3, k \in 1..4
    <2>2. CASE k \in first + 1..first + n
      <3>1. t[k] = sums[position + k - first] /\ t[k - 1] = sums[position + (k - 1) - first]
        BY <2>2
      <3> HIDE DEF t
      <3> QED BY <1>5, <2>2, <3>1
    <2>3. CASE k > first + n
      <3>1. x[k] = 0
        BY <1>2, <2>3
      <3>2. t[k] = sums[position + n] /\ t[k - 1] = sums[position + n]
        <4>1. k - 1 = first + n => position + (k - 1) - first = position + n
          BY <1>1
        <4> QED BY <2>3, <4>1
      <3>3. sums[position + n] \in Nat
        BY <1>1
      <3> HIDE DEF t
      <3> QED BY ONLY <1>4, <3>1, <3>2, <3>3, k \in 1..4
    <2> QED BY <2>1, <2>2, <2>3
  <1>8. t[4] = t[0] + (p[1] + p[2] + p[3] + p[4])
    <2> HIDE DEF t
    <2>1. t[1] = t[1 - 1] + p[1] /\ t[2] = t[2 - 1] + p[2]
          /\ t[3] = t[3 - 1] + p[3] /\ t[4] = t[4 - 1] + p[4]
      BY <1>7
    <2>2. p[1] \in Nat /\ p[2] \in Nat /\ p[3] \in Nat /\ p[4] \in Nat
      BY <1>4
    <2>3. t[1] = t[0] + p[1] /\ t[2] = t[1] + p[2] /\ t[3] = t[2] + p[3] /\ t[4] = t[3] + p[4]
      BY <2>1
    <2>4. t[0] \in Nat
      BY SMTT(20), <1>6
    <2> QED BY ONLY <2>2, <2>3, <2>4
  <1>9. Block(first, n) = Word16 * (Octet * x[1] + x[2]) + Octet * x[3] + x[4]
    <2>1. Block(first, n) = Word16 * (Octet * byte(1) + byte(2)) + Octet * byte(3) + byte(4)
      BY DEF Block
    <2>2. x[1] = byte(1) /\ x[2] = byte(2) /\ x[3] = byte(3) /\ x[4] = byte(4)
      BY <1>2
    <2> HIDE DEF byte
    <2> QED BY <2>1, <2>2
  <1>10. sums[position + n] = sums[position]
            + (Weight(1 + start) * x[1] + Weight(2 + start) * x[2]
               + Weight(3 + start) * x[3] + Weight(4 + start) * x[4])
    <2> HIDE DEF t
    <2> QED BY <1>4, <1>6, <1>8
  <1> HIDE DEF byte
  <1> QED BY SMTT(20), <1>2, <1>9, <1>10

-----------------------------------------------------------------------------
(* The two functions.                                                        *)

\* A block of ip_checksum(), whole or partial, keeps the two sums in agreement.
LEMMA AddsKeeps ==
    ASSUME ChecksumTypeOK, Agrees, of_icmp = FALSE, NEW first \in 0..3, NEW n \in 0..4,
           first + n <= 4, position + n <= Len(vdata), (position + first) % 2 = start % 2,
           Adds(first, n), vdata' = vdata, start' = start, of_icmp' = of_icmp
    PROVE  acc' \in Nat /\ acc' >= acc /\ position' = position + n /\ Agrees'
  <1>1. PICK a, b, c, d \in Nat :
              /\ Block(first, n) = Word16 * (Octet * a + b) + Octet * c + d
              /\ sums[position + n] = sums[position]
                    + (Weight(1 + start) * a + Weight(2 + start) * b
                       + Weight(3 + start) * c + Weight(4 + start) * d)
    BY BlockOf
  <1>2. PICK z : z = Block(first, n)
    OBVIOUS
  <1>3. z \in Nat
    <2>1. PICK o, w \in Nat : o = Octet /\ w = Word16
      BY WordFacts
    <2>2. z = w * (o * a + b) + o * c + d
      BY <1>1, <1>2, <2>1
    <2>3. w * (o * a + b) \in Nat /\ o * c \in Nat
      <3>1. o * a + b \in Nat /\ o * c \in Nat
        OBVIOUS
      <3> QED BY <3>1
    <2> QED BY <2>2, <2>3
  <1>4. /\ Same(z, Octet * a + b + Octet * c + d)
        /\ Same(Octet * z, a + Octet * b + c + Octet * d)
    BY <1>1, <1>2, <1>3, BlockSame
  <1>5. acc \in Nat /\ acc' = acc + z /\ position' = position + n /\ start \in 0..3
    BY <1>2 DEF Adds, ChecksumTypeOK
  <1>6. PICK s, t \in Nat : s = sums[position] /\ t = sums[position + n]
    <2>1. position \in 0..Len(vdata) /\ position + n \in 0..Len(vdata)
      BY DataOf
    <2>2. sums[position] \in Nat /\ sums[position + n] \in Nat
      BY <2>1, DataOf
    <2> QED BY <2>2
  <1>7. Agrees'  <=> Same(IF start % 2 = 1 THEN Octet * (acc + z) ELSE acc + z, t)
    BY <1>5, <1>6 DEF Agrees, sums
  <1>8. CASE start % 2 = 1
    <2>1. /\ Weight(1 + start) = 1 /\ Weight(2 + start) = Octet
          /\ Weight(3 + start) = 1 /\ Weight(4 + start) = Octet
      BY <1>5, <1>8 DEF Weight
    <2>2. PICK e \in Nat : e = a + Octet * b + c + Octet * d
      <3>1. Octet * b \in Nat /\ Octet * d \in Nat
        OBVIOUS
      <3> QED BY <3>1
    <2>3. t = s + e
      <3>1. 1 * a = a /\ 1 * c = c
        OBVIOUS
      <3> QED BY <1>1, <1>6, <2>1, <2>2, <3>1
    <2>4. Same(Octet * acc, s) /\ Same(Octet * z, e)
      BY <1>4, <1>6, <1>8, <2>2 DEF Agrees
    <2>5. Octet * acc \in Int /\ Octet * z \in Int /\ Octet * (acc + z) = Octet * acc + Octet * z
      BY <1>3, <1>5
    <2>6. Same(Octet * acc + Octet * z, s + e)
      BY <2>4, <2>5, SameSum
    <2> QED BY <1>3, <1>5, <1>7, <1>8, <2>3, <2>5, <2>6
  <1>9. CASE start % 2 # 1
    <2>1. /\ Weight(1 + start) = Octet /\ Weight(2 + start) = 1
          /\ Weight(3 + start) = Octet /\ Weight(4 + start) = 1
      BY <1>5, <1>9 DEF Weight
    <2>2. PICK e \in Nat : e = Octet * a + b + Octet * c + d
      <3>1. Octet * a \in Nat /\ Octet * c \in Nat
        OBVIOUS
      <3> QED BY <3>1
    <2>3. t = s + e
      <3>1. 1 * b = b /\ 1 * d = d
        OBVIOUS
      <3> QED BY <1>1, <1>6, <2>1, <2>2, <3>1
    <2>4. Same(acc, s) /\ Same(z, e)
      BY <1>4, <1>6, <1>9, <2>2 DEF Agrees
    <2>5. Same(acc + z, s + e)
      BY <1>3, <1>5, <2>4, SameSum
    <2> QED BY <1>3, <1>5, <1>7, <1>9, <2>3, <2>5
  <1> QED BY <1>8, <1>9

LEMMA ChecksumInvInit == ChecksumInit => ChecksumInv
  <1> SUFFICES ASSUME ChecksumInit PROVE ChecksumInv
    OBVIOUS
  <1>1. vdata \in Contents /\ position = 0 /\ start \in 0..3 /\ summing = "start"
        /\ of_icmp \in BOOLEAN /\ checksum = <<0, 0>>
        /\ (of_icmp => start = 0 /\ vdata \in WordsOnly)
    <2>1. CASE of_icmp = FALSE /\ vdata \in Contents /\ start \in 0..3
      BY <2>1 DEF ChecksumInit
    <2>2. CASE of_icmp = TRUE /\ vdata \in WordsOnly /\ start = 0
      BY <2>2 DEF ChecksumInit
    <2> QED BY <2>1, <2>2 DEF ChecksumInit
  <1>2. acc = IF of_icmp THEN 0 ELSE Ones
    BY DEF ChecksumInit, Ones
  <1>3. ChecksumTypeOK
    <2>1. Len(vdata) \in Nat
      BY <1>1
    <2>2. acc \in Nat
      BY <1>2, WordFacts
    <2>3. <<0, 0>> \in (0..Octet - 1) \X (0..Octet - 1)
      OBVIOUS
    <2> QED BY <1>1, <2>1, <2>2, <2>3 DEF ChecksumTypeOK
  <1>4. Agrees
    <2>1. sums[position] = 0
      BY <1>1, <1>3, DataOf
    <2>2. Same(0, 0) /\ Octet * 0 = 0
      BY SameSelf
    <2>3. Same(Ones, 0) /\ Same(Octet * Ones, 0)
      <3>1. Ones = 0 + 1 * Ones /\ Octet * Ones = 0 + Octet * Ones
        BY WordFacts
      <3>2. 1 \in Int /\ Octet \in Int
        OBVIOUS
      <3> QED BY <3>1, <3>2 DEF Same
    <2>4. CASE of_icmp
      BY <1>2, <2>1, <2>2, <2>4 DEF Agrees
    <2>5. CASE ~of_icmp
      BY <1>2, <2>1, <2>3, <2>5 DEF Agrees
    <2> QED BY <2>4, <2>5
  <1>5. Aligned
    BY <1>1, <1>2, WordFacts DEF Aligned
  <1> QED BY <1>1, <1>3, <1>4, <1>5 DEF ChecksumInv

LEMMA StartKeeps == ChecksumInv /\ PartialStart => ChecksumInv'
  <1> SUFFICES ASSUME ChecksumInv, PartialStart PROVE ChecksumInv'
    OBVIOUS
  <1>1. ChecksumTypeOK /\ Agrees /\ Aligned
    BY DEF ChecksumInv
  <1>2. /\ vdata' = vdata /\ start' = start /\ of_icmp' = of_icmp /\ checksum' = checksum
        /\ summing = "start" /\ summing' = "blocks" /\ position = 0
    BY <1>1 DEF PartialStart, Aligned
  <1>3. /\ Len(vdata) \in Nat /\ start \in 0..3 /\ acc \in Nat /\ of_icmp \in BOOLEAN
    BY <1>1, DataOf DEF ChecksumTypeOK
  <1>4. CASE start = 0
    <2>1. acc' = acc /\ position' = position
      BY <1>4 DEF PartialStart
    <2>2. ChecksumTypeOK' /\ Agrees'
      BY <1>1, <1>2, <2>1 DEF ChecksumTypeOK, Agrees, sums
    <2>3. Aligned'
      BY <1>1, <1>2, <1>4, <2>1 DEF Aligned
    <2> QED BY <1>2, <2>2, <2>3 DEF ChecksumInv
  <1>5. CASE start # 0
    <2>1. of_icmp = FALSE
      BY <1>1, <1>3, <1>5 DEF Aligned
    <2>2. PICK n \in 0..4 : n = IF 4 - start > Len(vdata) THEN Len(vdata) ELSE 4 - start
      <3>1. (IF 4 - start > Len(vdata) THEN Len(vdata) ELSE 4 - start) \in 0..4
        <4>1. CASE 4 - start > Len(vdata)
          <5>1. PICK low \in Nat : low = Len(vdata)
            BY <1>3
          <5>2. low \in 0..4
            BY <1>3, <4>1, <5>1
          <5> QED BY <4>1, <5>1, <5>2
        <4>2. CASE ~(4 - start > Len(vdata))
          BY <1>3, <4>2
        <4> QED BY <4>1, <4>2
      <3> QED BY <3>1
    <2>3. Adds(start, n)
      BY <1>5, <2>2 DEF PartialStart
    <2>4. start + n <= 4 /\ position + n <= Len(vdata) /\ (position + start) % 2 = start % 2
      BY <1>2, <1>3, <2>2
    <2>5. acc' \in Nat /\ acc' >= acc /\ position' = position + n /\ Agrees'
      BY <1>1, <1>2, <1>3, <2>1, <2>3, <2>4, AddsKeeps
    <2>6. position' \in 0..Len(vdata)
      BY <1>2, <1>3, <2>4, <2>5
    <2>7. ChecksumTypeOK'
      BY <1>1, <1>2, <2>5, <2>6 DEF ChecksumTypeOK
    <2>8. position' = Len(vdata) \/ (start + position') % 4 = 0
      <3>1. CASE n = Len(vdata)
        BY <1>2, <1>3, <2>5, <3>1
      <3>2. CASE n = 4 - start
        <4>1. start + position' = 4
          BY <1>2, <1>3, <2>5, <3>2
        <4> QED BY <4>1
      <3> QED BY <2>2, <3>1, <3>2
    <2>9. acc >= Ones
      BY <1>1, <2>1 DEF Aligned
    <2>10. acc' >= Ones
      BY <1>3, <2>5, <2>9, WordFacts
    <2>11. Aligned'
      BY <1>2, <2>1, <2>8, <2>10 DEF Aligned, Ones
    <2> QED BY <1>2, <2>5, <2>7, <2>11 DEF ChecksumInv
  <1> QED BY <1>4, <1>5

LEMMA BlocksKeep == ChecksumInv /\ (WholeBlock \/ PartialEnd) => ChecksumInv'
  <1> SUFFICES ASSUME ChecksumInv, WholeBlock \/ PartialEnd PROVE ChecksumInv'
    OBVIOUS
  <1>1. ChecksumTypeOK /\ Agrees /\ Aligned
    BY DEF ChecksumInv
  <1>2. /\ vdata' = vdata /\ start' = start /\ of_icmp' = of_icmp /\ checksum' = checksum
        /\ summing = "blocks" /\ of_icmp = FALSE
    BY <1>1 DEF WholeBlock, PartialEnd, ChecksumTypeOK
  <1>3. /\ Len(vdata) \in Nat /\ start \in 0..3 /\ acc \in Nat /\ position \in 0..Len(vdata)
        /\ acc >= Ones /\ (position = Len(vdata) \/ (start + position) % 4 = 0)
    BY <1>1, <1>2, DataOf DEF ChecksumTypeOK, Aligned
  <1>4. PICK n \in 0..4 :
           /\ Adds(0, n) /\ position + n <= Len(vdata)
           /\ \/ n = 4 /\ summing' = "blocks"
              \/ position + n = Len(vdata) /\ summing' = "carries"
    <2>1. CASE WholeBlock
      BY <1>2, <1>3, <2>1 DEF WholeBlock, Remaining
    <2>2. CASE PartialEnd
      <3>1. Remaining \in 0..4 /\ position + Remaining = Len(vdata)
        BY <1>3, <2>2 DEF PartialEnd, Remaining
      <3> QED BY <1>3, <2>2, <3>1 DEF PartialEnd
    <2> QED BY <2>1, <2>2
  <1>5. acc' \in Nat /\ acc' >= acc /\ position' = position + n /\ Agrees'
    <2>1. CASE position = Len(vdata)
      <3>1. n = 0
        BY <1>3, <1>4, <2>1
      <3>2. Block(0, 0) = 0
        <4>1. Block(0, 0) = Word16 * (Octet * 0 + 0) + Octet * 0 + 0
          BY DEF Block
        <4>2. Word16 * (Octet * 0 + 0) + Octet * 0 + 0 = 0
          BY WordFacts
        <4> QED BY <4>1, <4>2
      <3>3. acc' = acc /\ position' = position
        BY <1>3, <1>4, <3>1, <3>2 DEF Adds
      <3>4. Agrees'
        BY <1>1, <1>2, <3>3 DEF Agrees, sums
      <3> QED BY <1>3, <3>1, <3>3, <3>4
    <2>2. CASE (start + position) % 4 = 0
      <3>1. (position + 0) % 2 = start % 2 /\ 0 + n <= 4
        BY <1>3, <2>2
      <3>2. PICK first \in 0..3 : first = 0
        OBVIOUS
      <3>3. Adds(first, n) /\ first + n <= 4 /\ (position + first) % 2 = start % 2
        BY <1>4, <3>1, <3>2
      <3> QED BY <1>1, <1>2, <1>4, <3>3, AddsKeeps
    <2> QED BY <1>3, <2>1, <2>2
  <1>6. position' \in 0..Len(vdata)
    BY <1>3, <1>4, <1>5
  <1>7. ChecksumTypeOK'
    BY <1>1, <1>2, <1>4, <1>5, <1>6 DEF ChecksumTypeOK
  <1>8. acc' >= Ones
    <2>1. Ones \in Nat
      BY WordFacts
    <2> QED BY ONLY <1>3, <1>5, <2>1
  <1>9. n = 4 => position' = Len(vdata) \/ (start + position') % 4 = 0
    BY <1>3, <1>4, <1>5
  <1>10. position' = Len(vdata) \/ summing' = "blocks"
    BY <1>4, <1>5
  <1>11. Aligned'
    BY <1>2, <1>4, <1>5, <1>8, <1>9, <1>10 DEF Aligned, Ones
  <1> QED BY <1>4, <1>5, <1>7, <1>11 DEF ChecksumInv

\* A word of icmp_checksum(): swapped, so its sum agrees after a multiplication; and it
\* adds no more than a word can.
LEMMA WordKeeps == ChecksumInv /\ AddWord => ChecksumInv'
  <1> SUFFICES ASSUME ChecksumInv, AddWord PROVE ChecksumInv'
    OBVIOUS
  <1>1. ChecksumTypeOK /\ Agrees /\ Aligned
    BY DEF ChecksumInv
  <1>2. /\ vdata' = vdata /\ start' = start /\ of_icmp' = of_icmp /\ checksum' = checksum
        /\ summing = "blocks" /\ of_icmp = TRUE
    BY <1>1 DEF AddWord, ChecksumTypeOK
  <1>3. /\ Len(vdata) \in Nat /\ start = 0 /\ acc \in Nat /\ position \in 0..Len(vdata)
        /\ position % 2 = 0 /\ vdata \in WordsOnly /\ Len(vdata) % 2 = 0
        /\ 2 * acc <= position * Ones
    BY <1>1, <1>2, DataOf DEF ChecksumTypeOK, Aligned
  <1>4. CASE Remaining = 0
    <2>1. acc' = acc /\ position' = position /\ summing' = "carries" /\ position = Len(vdata)
      BY <1>3, <1>4 DEF AddWord, Remaining
    <2>2. ChecksumTypeOK' /\ Agrees'
      BY <1>1, <1>2, <2>1 DEF ChecksumTypeOK, Agrees, sums
    <2>3. Aligned'
      BY <1>1, <1>2, <1>3, <2>1 DEF Aligned, Ones
    <2> QED BY <1>2, <2>1, <2>2, <2>3 DEF ChecksumInv
  <1>5. CASE Remaining # 0
    <2>1. /\ acc' = acc + vdata[position + 1] + Octet * vdata[position + 2]
          /\ position' = position + 2 /\ summing' = summing
      BY <1>5 DEF AddWord
    <2>2. position + 2 <= Len(vdata)
      BY SMTT(20), <1>3, <1>5 DEF Remaining
    <2>3. PICK a, b \in 0..(Octet - 1) : a = vdata[position + 1] /\ b = vdata[position + 2]
      <3>1. position + 1 \in 1..Len(vdata) /\ position + 2 \in 1..Len(vdata)
        BY <1>3, <2>2
      <3>2. vdata[position + 1] \in 0..(Octet - 1) /\ vdata[position + 2] \in 0..(Octet - 1)
        BY <1>1, <3>1, DataOf DEF Octets
      <3> QED BY <3>2
    <2>4. sums[position + 2] = sums[position] + (Octet * a + b)
      <3>0. position + 1 \in 1..Len(vdata) /\ position + 2 \in 1..Len(vdata)
        BY ONLY <1>3, <2>2
      <3>1. PICK here, j \in 1..Len(vdata) : here = position + 1 /\ j = position + 2
        BY ONLY <3>0
      <3>2. here - 1 = position /\ j - 1 = here /\ here % 2 = 1 /\ j % 2 = 0
        BY <1>3, <3>1
      <3>3. sums[here] = sums[here - 1] + Weight(here) * vdata[here] /\ sums[j] = sums[j - 1] + Weight(j) * vdata[j]
        BY <1>1, DataOf
      <3>4. sums[here] = sums[position] + Octet * a /\ sums[j] = sums[here] + 1 * b
        <4>1. Weight(here) = Octet /\ Weight(j) = 1
          BY <3>2 DEF Weight
        <4>2. vdata[here] = a /\ vdata[j] = b
          BY <2>3, <3>1
        <4> QED BY <3>2, <3>3, <4>1, <4>2
      <3>5. sums[position] \in Nat /\ Octet * a \in Nat /\ b \in Nat /\ 1 * b = b
        <4>1. a \in Nat /\ b \in Nat
          OBVIOUS
        <4>2. Octet * a \in Nat /\ 1 * b = b
          BY <4>1
        <4>3. sums[position] \in Nat
          BY <1>1, <1>3, DataOf
        <4> QED BY <4>1, <4>2, <4>3
      <3> QED BY <3>1, <3>4, <3>5
    <2>5. PICK s, o, n \in Nat : s = sums[position] /\ o = Octet /\ n = Ones
      <3>1. sums[position] \in Nat
        BY <1>1, <1>3, DataOf
      <3> QED BY <3>1, WordFacts
    <2>6. o * o = n + 1 /\ a \in Nat /\ b \in Nat /\ acc \in Nat
      BY <1>3, <2>5, WordFacts
    <2>7. acc' = acc + a + o * b /\ acc' \in Nat
      <3>1. o * b \in Nat
        BY ONLY <2>6
      <3>2. acc' = acc + a + o * b
        BY ONLY <2>1, <2>3, <2>5
      <3> QED BY ONLY <2>6, <3>1, <3>2
    <2>8. Agrees'
      <3>1. Same(o * acc, s)
        BY <1>1, <1>2, <2>5 DEF Agrees
      <3>2. o * (a + o * b) = (o * a + b) + b * n
        <4>1. o * (a + o * b) = o * a + (o * o) * b
          BY <2>6
        <4>2. (n + 1) * b = b + b * n
          BY <2>6
        <4> QED BY <2>6, <4>1, <4>2
      <3>3. Same(o * (a + o * b), o * a + b)
        <4>1. b \in Int
          OBVIOUS
        <4> QED BY <2>5, <3>2, <4>1 DEF Same
      <3>4. o * acc \in Int /\ o * (a + o * b) \in Int /\ o * a + b \in Int
        BY <2>6
      <3>5. Same(o * acc + o * (a + o * b), s + (o * a + b))
        BY <3>1, <3>3, <3>4, SameSum
      <3>6. o * acc + o * (a + o * b) = o * acc'
        BY <2>6, <2>7
      <3>7. sums'[position'] = s + (o * a + b) /\ sums' = NetworkSums(vdata')
        BY <1>2, <2>1, <2>4, <2>5 DEF sums
      <3> QED BY <1>2, <2>5, <3>5, <3>6, <3>7 DEF Agrees, sums
    <2>9. position' \in 0..Len(vdata) /\ position' % 2 = 0
      BY <1>3, <2>1, <2>2
    <2>10. 2 * acc' <= position' * Ones
      <3>1. o * b <= o * (o - 1)
        BY <2>3, <2>5
      <3>2. o * (o - 1) = n + 1 - o /\ o * b \in Nat
        BY <2>6
      <3>3. a + o * b <= n
        BY SMTT(20), <2>3, <2>5, <2>6, <3>1, <3>2
      <3>4. (position + 2) * n = position * n + 2 * n
        BY <1>3
      <3>5. PICK x, y, z \in Nat : x = position * n /\ y = acc /\ z = a + o * b
        <4>1. position * n \in Nat /\ a + o * b \in Nat
          BY <1>3, <2>6, <3>2
        <4> QED BY <2>6, <4>1
      <3>6. 2 * y <= x /\ z <= n /\ acc' = y + z /\ position' * Ones = x + 2 * n
        <4>1. 2 * y <= x
          BY <1>3, <2>5, <3>5
        <4>2. acc' = y + z
          <5>1. PICK k \in Nat : k = o * b
            BY <3>2
          <5>2. acc' = acc + a + k /\ z = a + k /\ y = acc
            BY <2>7, <3>5, <5>1
          <5> QED BY <2>6, <5>1, <5>2
        <4>3. position' * Ones = x + 2 * n
          BY <2>1, <2>5, <3>4, <3>5
        <4> QED BY <3>3, <3>5, <4>1, <4>2, <4>3
      <3>7. 2 * (y + z) <= x + 2 * n
        BY ONLY <3>6, x \in Nat, y \in Nat, z \in Nat, n \in Nat
      <3> QED BY <3>6, <3>7
    <2>11. ChecksumTypeOK'
      BY <1>1, <1>2, <2>1, <2>7, <2>9 DEF ChecksumTypeOK
    <2>12. Aligned'
      BY <1>2, <1>3, <2>1, <2>9, <2>10 DEF Aligned, Ones
    <2> QED BY <1>2, <2>1, <2>8, <2>11, <2>12 DEF ChecksumInv
  <1> QED BY <1>4, <1>5

\* Two folds of a sum of words leave no carry.
LEMMA CarryOnce ==
    ASSUME NEW low \in Nat, low >= 3, NEW w \in Nat, w = low + 1, NEW d \in Nat, NEW rest \in Nat,
           rest < w, w * d + rest <= w * low, NEW c \in Nat, NEW e \in Nat, e < w,
           rest + d = w * c + e
    PROVE  c \in {0, 1} /\ e + c < w /\ e + c = (rest + d) + (0 - c) * low
  <1>1. d <= low
    <2>1. ASSUME d >= w PROVE FALSE
      <3>1. w * d >= w * w /\ w * w = w * low + w
        BY <2>1
      <3>2. w * low \in Nat /\ w * d \in Nat
        OBVIOUS
      <3> QED BY <3>1, <3>2
    <2> QED BY <2>1
  <1>2. c \in {0, 1}
    <2>1. ASSUME c >= 2 PROVE FALSE
      <3>1. w * c >= w * 2
        BY <2>1
      <3>2. w * 2 = w + w /\ w * c \in Nat
        OBVIOUS
      <3> QED BY <1>1, <3>1, <3>2
    <2> QED BY <2>1
  <1>3. CASE c = 0
    BY <1>3
  <1>4. CASE c = 1
    <2>1. rest + d = w + e /\ (0 - c) * low = 0 - low
      BY <1>4
    <2> QED BY <1>1, <1>4, <2>1
  <1> QED BY <1>2, <1>3, <1>4

LEMMA TwiceOf ==
    ASSUME NEW n \in Nat, n <= Word16 * Ones, NEW once, once = Fold(n, Word16)
    PROVE  /\ (once + (once \div Word16)) % Word16 \in 0..Ones
           /\ Same((once + (once \div Word16)) % Word16, n)
  <1>1. PICK w, low \in Nat : w = Word16 /\ low = Ones
    BY WordFacts
  <1>2. w = low + 1 /\ low >= 3 /\ w > 0
    BY <1>1, WordFacts
  <1>3. PICK d, rest \in Nat : d = n \div w /\ rest = n % w
    <2>1. n \div w \in Nat /\ n % w \in Nat
      BY <1>2, DivMod
    <2> QED BY <2>1
  <1>4. rest < w /\ n = w * d + rest
    BY <1>2, <1>3, DivMod
  <1>5. PICK k \in Nat : k = once
    BY <1>1, FoldOf
  <1>6. k = rest + d /\ Same(k, n)
    BY <1>1, <1>3, <1>5, FoldOf DEF Fold
  <1>7. PICK c, e \in Nat : c = k \div w /\ e = k % w
    <2>1. k \div w \in Nat /\ k % w \in Nat
      BY <1>2, DivMod
    <2> QED BY <2>1
  <1>8. e < w /\ k = w * c + e
    BY <1>2, <1>7, DivMod
  <1>9. c \in {0, 1} /\ e + c < w /\ e + c = k + (0 - c) * low
    <2>1. w * d + rest <= w * low /\ rest + d = w * c + e
      BY <1>1, <1>4, <1>6, <1>8
    <2>2. c \in {0, 1} /\ e + c < w /\ e + c = (rest + d) + (0 - c) * low
      BY ONLY <1>2, <1>4, <1>8, <2>1, CarryOnce, low \in Nat, w \in Nat, d \in Nat, rest \in Nat,
              c \in Nat, e \in Nat
    <2> QED BY <1>6, <2>2
  <1>10. (k + c) % w = e + c
    <2>1. PICK t \in Nat : t = e + c
      OBVIOUS
    <2>2. k + c = t + c * w
      <3>1. w * c = c * w /\ c * w \in Nat
        OBVIOUS
      <3> QED BY <1>8, <2>1, <3>1
    <2>3. (t + c * w) % w = t % w
      <3>1. w > 0
        BY ONLY <1>2
      <3> QED BY ONLY <3>1, ModPlus
    <2>4. t % w = t
      BY <1>2, <1>9, <2>1
    <2> QED BY <2>1, <2>2, <2>3, <2>4
  <1>11. Same(e + c, k)
    <2>1. 0 - c \in Int
      OBVIOUS
    <2> QED BY <1>1, <1>9, <2>1 DEF Same
  <1>12. Same(e + c, n) /\ e + c \in 0..low
    <2>1. e + c \in Int /\ e + c \in 0..low
      BY <1>2, <1>9
    <2> QED BY <1>6, <1>11, <2>1, SameThrough
  <1>13. (once + (once \div Word16)) % Word16 = (k + c) % w
    BY <1>1, <1>5, <1>7
  <1> QED BY <1>1, <1>10, <1>12, <1>13

LEMMA NotOf ==
    ASSUME NEW n \in 0..Ones, NEW s \in Int, Same(s, n)
    PROVE  Not(n) \in 0..Ones /\ Same(Not(n) + s, 0)
  <1>1. n \in Nat /\ Ones \in Nat /\ Not(n) = Ones - n /\ Not(n) \in 0..Ones
    BY WordFacts DEF Not, Ones
  <1>2. Not(n) \in Int /\ Same(Not(n), Not(n)) /\ n \in Int
    BY <1>1, SameSelf
  <1>3. Same(Not(n) + s, Not(n) + n)
    BY <1>2, SameSum
  <1>4. Not(n) + n = 0 + 1 * Ones
    BY <1>1
  <1>5. 1 \in Int
    OBVIOUS
  <1>6. Same(Not(n) + n, 0)
    BY <1>4, <1>5 DEF Same
  <1>7. Not(n) + s \in Int /\ Not(n) + n \in Int /\ 0 \in Int
    BY <1>2
  <1>8. Same(Not(n) + s, 0)
    BY <1>3, <1>6, <1>7, SameThrough
  <1> QED BY <1>1, <1>8

LEMMA CarriesKeep == ChecksumInv /\ Carries => ChecksumInv'
  <1> SUFFICES ASSUME ChecksumInv, Carries PROVE ChecksumInv'
    OBVIOUS
  <1>1. ChecksumTypeOK /\ Agrees /\ Aligned
    BY DEF ChecksumInv
  <1>2. /\ vdata' = vdata /\ start' = start /\ of_icmp' = of_icmp /\ position' = position
        /\ acc' = acc /\ summing = "carries" /\ summing' = "done"
    BY DEF Carries
  <1>3. /\ of_icmp \in BOOLEAN /\ acc \in Nat /\ position = Len(vdata) /\ Len(vdata) \in Nat
        /\ start \in 0..3
    BY <1>1, <1>2, DataOf DEF ChecksumTypeOK, Aligned
  <1>4. PICK s \in Nat : s = NetworkSum(vdata) /\ s = sums[position]
    <2>1. position \in 0..Len(vdata)
      BY <1>3
    <2>2. sums[position] \in Nat /\ NetworkSum(vdata) = sums[position]
      BY <1>1, <1>3, <2>1, DataOf
    <2> QED BY <2>2
  <1>5. Agrees' /\ Aligned'
    BY <1>1, <1>2 DEF Agrees, Aligned, Ones, sums
  <1>6. \E n \in 0..Ones : /\ checksum' = Bytes(n) /\ Same(s + n, 0)
                           /\ ~of_icmp => n # Ones
    <2>1. CASE of_icmp
      <3>1. PICK once : once = Fold(acc, Word16)
        OBVIOUS
      <3>2. PICK t : t = (once + (once \div Word16)) % Word16
        OBVIOUS
      <3>3. acc <= Word16 * Ones
        <4>1. 2 * acc <= Len(vdata) * Ones /\ Len(vdata) <= 2 * Word16
          BY <1>1, <1>3, <2>1 DEF Aligned
        <4>2. PICK w, low, size \in Nat : w = Word16 /\ low = Ones /\ size = Len(vdata)
          BY <1>3, WordFacts
        <4>3. size * low <= (2 * w) * low
          BY <4>1, <4>2
        <4>4. (2 * w) * low = 2 * (w * low) /\ w * low \in Nat /\ size * low \in Nat
          OBVIOUS
        <4> QED BY <1>3, <4>1, <4>2, <4>3, <4>4
      <3>4. t \in 0..Ones /\ Same(t, acc)
        BY <1>3, <3>1, <3>2, <3>3, TwiceOf
      <3>5. checksum' = Bytes(Swapped(Not(t)))
        BY <2>1, <3>1, <3>2 DEF Carries
      <3>6. PICK u \in 0..Ones : u = Not(t) /\ Same(u + acc, 0)
        <4>1. t \in Int /\ Same(acc, t)
          BY <1>3, <3>4, SameBack, WordFacts
        <4> QED BY <1>3, <3>4, <4>1, NotOf
      <3>7. PICK v \in 0..Ones : v = Swapped(u) /\ Same(v, Octet * u)
        BY SwappedOf
      <3>8. /\ u \in Int /\ v \in Int /\ Octet \in Int /\ Octet * u \in Int /\ Octet * acc \in Int
            /\ u + acc \in Int /\ Octet * (u + acc) = Octet * u + Octet * acc /\ Octet * 0 = 0
        BY <1>3, WordFacts
      <3>9. Same(Octet * u + Octet * acc, 0)
        <4>2. PICK x \in Int : x = u + acc
          BY <3>8
        <4>3. Same(x, 0) /\ 0 \in Int
          BY <3>6, <4>2
        <4>4. Same(Octet * x, Octet * 0)
          BY <3>8, <4>3, SameTimes
        <4>1. Same(Octet * (u + acc), Octet * 0)
          BY <4>2, <4>4
        <4> QED BY <3>8, <4>1
      <3>10. Same(s, Octet * acc)
        BY <1>1, <1>3, <1>4, <2>1, <3>8, SameBack DEF Agrees
      <3>11. Same(s + v, Octet * acc + Octet * u)
        BY <3>7, <3>8, <3>10, SameSum
      <3>12. Same(s + v, 0)
        <4>1. Octet * acc + Octet * u = Octet * u + Octet * acc /\ s + v \in Int
              /\ Octet * u + Octet * acc \in Int
          BY <3>8
        <4> QED BY <3>9, <3>11, <4>1, SameThrough
      <3> QED BY <2>1, <3>5, <3>6, <3>7, <3>12
    <2>2. CASE ~of_icmp
      <3>1. PICK f \in 0..Ones : f = Folded(acc) /\ Same(f, acc) /\ f > 0
        <4>1. acc > 0
          BY <1>1, <1>3, <2>2, WordFacts DEF Aligned
        <4> QED BY <1>3, <4>1, FoldedOf
      <3>2. \E rest \in 0..Ones : /\ rest > 0 /\ Same(s, rest) /\ checksum' = Bytes(Not(rest))
        <4>1. CASE start % 2 = 1
          <5>1. PICK rest \in 0..Ones : rest = Swapped(f) /\ Same(rest, Octet * f) /\ rest > 0
            BY <3>1, SwappedOf
          <5>2. /\ rest \in Int /\ f \in Int /\ Octet \in Int /\ Octet * f \in Int
                /\ Octet * acc \in Int
            BY <1>3, WordFacts
          <5>3. Same(Octet * acc, s)
            BY <1>1, <1>4, <4>1 DEF Agrees
          <5>4. Same(Octet * f, Octet * acc)
            BY <1>3, <3>1, <5>2, SameTimes
          <5>5. Same(rest, s)
            <6>1. Same(rest, Octet * acc)
              BY <5>1, <5>2, <5>4, SameThrough
            <6> QED BY <5>2, <5>3, <6>1, SameThrough
          <5>6. Same(s, rest)
            BY <5>2, <5>5, SameBack
          <5>7. checksum' = Bytes(Not(rest))
            BY <2>2, <3>1, <4>1, <5>1 DEF Carries
          <5> QED BY <5>1, <5>6, <5>7
        <4>2. CASE start % 2 # 1
          <5>1. Same(acc, s) /\ f \in Int /\ acc \in Int
            BY <1>1, <1>3, <1>4, <2>2, <4>2, WordFacts DEF Agrees
          <5>2. Same(f, s)
            BY <3>1, <5>1, SameThrough
          <5>3. Same(s, f)
            BY <5>1, <5>2, SameBack
          <5>4. checksum' = Bytes(Not(f))
            BY <2>2, <3>1, <4>2 DEF Carries
          <5> QED BY <3>1, <5>3, <5>4
        <4> QED BY <4>1, <4>2
      <3>3. PICK rest \in 0..Ones : rest > 0 /\ Same(s, rest) /\ checksum' = Bytes(Not(rest))
        BY <3>2
      <3>4. Not(rest) \in 0..Ones /\ Same(Not(rest) + s, 0)
        BY <3>3, NotOf
      <3>5. Not(rest) # Ones /\ Not(rest) + s = s + Not(rest)
        BY <3>3, <3>4, WordFacts DEF Not, Ones
      <3> QED BY <3>3, <3>4, <3>5
    <2> QED BY <1>3, <2>1, <2>2
  <1>7. PICK n \in 0..Ones : checksum' = Bytes(n) /\ Same(s + n, 0) /\ (~of_icmp => n # Ones)
    BY <1>6
  <1>8. /\ Bytes(n) \in Octets \X Octets /\ NetworkSum(Bytes(n)) = n
        /\ Bytes(n) = Bytes(Ones) => n = Ones
    BY BytesOf
  <1>9. ChecksumTypeOK'
    BY <1>1, <1>2, <1>7, <1>8 DEF ChecksumTypeOK, Octets
  <1>10. Verifies'
    <2>1. (s + n) % Ones = 0
      <3>1. s + n \in Nat
        BY WordFacts
      <3> QED BY <1>7, <3>1, SameAsNone
    <2>2. NetworkSum(vdata') = s /\ NetworkSum(checksum') = n
      BY <1>2, <1>4, <1>7, <1>8
    <2>3. ~of_icmp' => checksum' # Bytes(Ones)
      BY <1>2, <1>7, <1>8
    <2> QED BY <2>1, <2>2, <2>3 DEF Verifies, Ones
  <1> QED BY <1>5, <1>9, <1>10 DEF ChecksumInv

LEMMA ChecksumInvStep == ChecksumInv /\ [ChecksumNext]_summed => ChecksumInv'
  <1> SUFFICES ASSUME ChecksumInv, [ChecksumNext]_summed PROVE ChecksumInv'
    OBVIOUS
  <1>1. CASE UNCHANGED summed
    BY <1>1 DEF summed, ChecksumInv, ChecksumTypeOK, Agrees, Aligned, Verifies, sums
  <1>2. CASE ChecksumNext
    BY <1>2, StartKeeps, BlocksKeep, WordKeeps, CarriesKeep DEF ChecksumNext
  <1> QED BY <1>1, <1>2

\* What has been added up agrees with the words of the bytes read so far, modulo 2^16 - 1
\* and with the bytes of each word exchanged where the function reads them so.
THEOREM ChecksumInvHolds == ChecksumSpec => []ChecksumInv
  BY ChecksumInvInit, ChecksumInvStep, PTL DEF ChecksumSpec

\* The result of either function makes the words add up to nothing, for any bytes of any
\* length at any address and bytes of any number of values.
THEOREM ResultVerifies == ChecksumSpec => []ChecksumVerifies
  <1>1. ChecksumInv => ChecksumVerifies
    BY DEF ChecksumInv, Verifies, ChecksumVerifies, Ones
  <1> QED BY <1>1, ChecksumInvHolds, PTL

-----------------------------------------------------------------------------
\* The router, a lookup, a checksum and the router of lab 4 keep the types of their
\* variables, each at its own pace: none touches what is another's.
THEOREM RoutingTypes ==
    Spec /\ LookupSpec /\ ChecksumSpec /\ StaticSpec => []RoutingTypeOK
  <1>1. ChecksumInv => ChecksumTypeOK
    BY DEF ChecksumInv
  <1>2. TypeOK /\ LookupTypeOK /\ ChecksumTypeOK /\ StaticTypeOK => RoutingTypeOK
    BY DEF RoutingTypeOK
  <1> QED BY <1>1, <1>2, RouterTypes, LookupTypes, ChecksumInvHolds, StaticTypes, PTL

=============================================================================
