------------------------------- MODULE Router -------------------------------
(***************************************************************************)
(* The router: the loop of router.c over received packets and what         *)
(* helper.c does with those it forwards.  A packet whose next hop has an   *)
(* entry in the ARP table is sent on at once; any other is queued and its  *)
(* next hop asked for its address, and every reply sends one packet of the *)
(* queue.                                                                  *)
(*                                                                         *)
(* The table lookup is RouteTable; here RouteOf says what it returns.  A   *)
(* neighbour's MAC address is named by the neighbour, and its interface    *)
(* goes without saying.  Requests to the router itself are answered from   *)
(* the packet alone; nothing changes but the frames that have been sent.   *)
(***************************************************************************)
EXTENDS Integers, Sequences, FiniteSets

CONSTANTS
    Host,       \* destinations
    NextHop,    \* neighbours
    RouteOf,    \* RouteOf[h]: the next hop towards h, or NULL
    NULL,
    Self,       \* the router's own MAC address
    Usable,     \* pointers that fit what realloc(NULL, 0) returns
    Networks,   \* what may happen to ARP: sets of "reorder", "lose", "repeat"
    MaxPackets  \* bound: packets received in a behaviour, but for ARP replies

ASSUME RouterAssumption ==
    /\ IsFiniteSet(NextHop) /\ NULL \notin NextHop
    /\ RouteOf \in [Host -> NextHop \cup {NULL}]
    /\ Usable \in Nat /\ MaxPackets \in Nat
    /\ Networks \subseteq SUBSET {"reorder", "lose", "repeat"}

packet == [n : 1..MaxPackets, daddr : Host, ttl : 1..2, check_ok : BOOLEAN]
entry  == [ip : NextHop, mac : NextHop]
own    == [op : {"arp reply", "echo reply", "icmp error"}]

VARIABLES
    arp_table,  \* its capacity stays 0: it is doubled
    q,          \* the packets whose copies were queued
    aux,        \* forward()'s local copy, to which all pointers in q point
    asked,      \* neighbours asked, whose replies are on their way
    frames,     \* packets sent and to whom: forwarded ones, and its own
    received,   \* packets received so far
    network,    \* which of Networks the run has
    status

vars == <<arp_table, q, aux, asked, frames, received, network, status>>

NoPacket == [n |-> 0]

Init ==
    /\ arp_table = <<>> /\ q = <<>> /\ aux = NoPacket
    /\ asked = <<>> /\ frames = <<>> /\ received = 0
    /\ network \in Networks
    /\ status = "run"

\* Variant: the address is compared with nothing.
get_arp_routeAny(ip) == {arp_table[k].mac : k \in {k \in DOMAIN arp_table : k = 1}}
get_arp_route(ip) == {arp_table[k].mac : k \in {k \in DOMAIN arp_table :
                        arp_table[k].ip = ip
                        /\ \A j \in 1..(k - 1) : arp_table[j].ip # ip}}

\* The array never grows: the entry may land beyond its end.
add_arp_entry(e) ==
    /\ arp_table' = Append(arp_table, e)
    /\ \/ status' = "run"
       \/ Len(arp_table) >= Usable /\ status' = "undefined"

\* Variant: the last hop is not counted.
RejectedLate(p) == p.ttl < 1 \/ ~p.check_ok \/ RouteOf[p.daddr] = NULL
\* check_packet: the packet is to be dropped.
Rejected(p) == p.ttl <= 1 \/ ~p.check_ok \/ RouteOf[p.daddr] = NULL

\* Those that somebody is told about.
Reported(p) == p.ttl <= 1 \/ p.check_ok

Forwarded(p) == [p EXCEPT !.ttl = @ - 1]

send_packet(mac, p) == frames' = Append(frames, [to |-> mac, pkt |-> p])

\* What check_packet passes for both addresses is the one that the packet was
\* sent to: the router's.
send_icmp_error == send_packet(Self, [op |-> "icmp error"])
send_icmp(h) == send_packet(h, [op |-> "echo reply"])
received_arp_request(h) == send_packet(h, [op |-> "arp reply"])

\* Variant: a neighbour that has been asked is not asked again.
send_arpOnce(h) ==
    asked' = IF \E k \in DOMAIN asked : asked[k] = h THEN asked
                                                     ELSE Append(asked, h)
send_arp(h) == asked' = Append(asked, h)

\* forward: the copy is made in any case.
forward(p, h) ==
    /\ aux' = p
    /\ \/ /\ get_arp_route(h) # {}
          /\ \E mac \in get_arp_route(h) : send_packet(mac, p)
          /\ UNCHANGED <<q, asked>>
       \/ /\ get_arp_route(h) = {}
          /\ q' = Append(q, p) /\ send_arp(h)
          /\ UNCHANGED frames

get_packet == received < MaxPackets /\ received' = received + 1

\* An IP packet arrives.  forward() is called with whatever check_packet
\* returned: with the NULL of a rejected packet, the router crashes.
ReceiveIp(p) ==
    /\ get_packet /\ p.n = received + 1
    /\ \/ /\ Rejected(p)
          /\ \/ Reported(p) /\ send_icmp_error
             \/ ~Reported(p) /\ UNCHANGED frames
          /\ status' = "crashed" /\ UNCHANGED <<q, aux, asked>>
       \/ /\ ~Rejected(p)
          /\ forward(Forwarded(p), RouteOf[p.daddr]) /\ UNCHANGED status
    /\ UNCHANGED <<arp_table, network>>

\* A neighbour asks for the router's address, or whether it is there.
ReceiveRequest(h) ==
    /\ get_packet
    /\ received_arp_request(h) \/ send_icmp(h)
    /\ UNCHANGED <<arp_table, q, aux, asked, network, status>>

learns(h) ==
    \/ get_arp_route(h) = {} /\ add_arp_entry([ip |-> h, mac |-> h])
    \/ get_arp_route(h) # {} /\ UNCHANGED <<arp_table, status>>

\* Variant: a reply with nothing new is ignored.
received_arp_replyNew(h) ==
    \/ (q = <<>> \/ get_arp_route(h) # {}) /\ UNCHANGED <<arp_table, q, frames, status>>
    \/ /\ q # <<>> /\ get_arp_route(h) = {}
       /\ learns(h)
       /\ q' = Tail(q)
       /\ send_packet(h, aux)
\* What the pointer at the head of the queue leads to: the last copy made, or,
\* if that part of the stack has been used since, anything.
received_arp_reply(h) ==
    \/ q = <<>> /\ UNCHANGED <<arp_table, q, frames, status>>
    \/ /\ q # <<>>
       /\ learns(h)
       /\ q' = Tail(q)
       /\ send_packet(h, aux)
    \/ /\ q # <<>>
       /\ status' = "undefined"
       /\ UNCHANGED <<arp_table, q, frames>>

\* A reply to the k-th request that is still open.
ReceiveReply(k) ==
    /\ k = 1 \/ "reorder" \in network
    /\ received_arp_reply(asked[k])
    /\ \/ asked' = [j \in 1..(Len(asked) - 1) |->
                      IF j < k THEN asked[j] ELSE asked[j + 1]]
       \/ "repeat" \in network /\ UNCHANGED asked
    /\ UNCHANGED <<aux, received, network>>

LoseRequest(k) ==
    /\ "lose" \in network
    /\ asked' = [j \in 1..(Len(asked) - 1) |->
                   IF j < k THEN asked[j] ELSE asked[j + 1]]
    /\ UNCHANGED <<arp_table, q, aux, frames, received, network, status>>

Replies == \E k \in DOMAIN asked : ReceiveReply(k)

Next ==
    /\ status = "run"
    /\ \/ \E p \in packet : ReceiveIp(p)
       \/ \E h \in NextHop : ReceiveRequest(h)
       \/ Replies
       \/ \E k \in DOMAIN asked : LoseRequest(k)

Spec == Init /\ [][Next]_vars

\* Neighbours that are asked reply, unless the request is lost.
FairSpec == Spec /\ WF_vars(status = "run" /\ Replies)

-----------------------------------------------------------------------------
(* Properties                                                               *)

\* Also: what is queued or sent on still has a ttl to count down.
TypeOK ==
    /\ arp_table \in Seq(entry)
    /\ q \in Seq(packet) /\ aux \in packet \cup {NoPacket}
    /\ frames \in Seq([to : NextHop \cup {Self}, pkt : packet \cup own])
    /\ asked \in Seq(NextHop) /\ received \in 0..MaxPackets
    /\ network \in Networks
    /\ status \in {"run", "crashed", "undefined"}

\* The ARP table has one entry per neighbour, however often it has been asked
\* and has replied: so it never has more entries than there are neighbours.
OneEntryPerNeighbour ==
    \A j, k \in DOMAIN arp_table : arp_table[j].ip = arp_table[k].ip => j = k

\* One request is open for every packet that waits, as replies send one packet
\* each.  If replies keep the order of the requests, every reply comes from the
\* next hop of the packet that it sends; a reply lost leaves a packet behind,
\* one repeated sends a packet to a neighbour that was asked for another.
WaitersMatchRequests ==
    status = "run" =>
        /\ network = {} => asked = [k \in DOMAIN q |-> RouteOf[q[k].daddr]]
        /\ "repeat" \notin network => Len(asked) <= Len(q)
        /\ "lose" \notin network => Len(q) <= Len(asked)

\* No packet waits for ever when neighbours reply to every request.
QueueDrains == "lose" \notin network /\ q # <<>> ~> q = <<>> \/ status # "run"
=============================================================================
