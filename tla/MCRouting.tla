----------------------------- MODULE MCRouting -----------------------------
(* Either the router with three neighbours, a host behind each and one that   *)
(* no route leads to, or one lookup in the router's table, or one checksum, or *)
(* the router of lab 4.  What does not run stays as it is when it has ended.  *)
EXTENDS Router, RouteTable, Checksum, StaticRouter

CONSTANTS ha, hb, hc, away, ra, rb, rc
MCHost    == {ha, hb, hc, away}
MCNextHop == {ra, rb, rc}
MCRouteOf == [h \in MCHost |-> CASE h = ha -> ra [] h = hb -> rb
                                 [] h = hc -> rc [] h = away -> NULL]
AnyNetwork == SUBSET {"reorder", "lose", "repeat"}

\* Tables of five routes over octets of two values, and every address: all
\* that have one mask of up to three octets, and all with two kinds of route.
\* A route's prefix has no octets beyond its mask.
Routes(k) == [prefix : {masked(a, k) : a \in Address}, mask : {k}]
AnyRoute  == UNION {Routes(k) : k \in Mask}
MCTables  == {Routes(k) : k \in 0..3} \cup {{x, y} : x \in AnyRoute, y \in AnyRoute}

\* The router of lab 4: all tables of up to three out of four routes, which are
\* three to one destination and one to the other, or the default for both.
FewRoutes    == {[prefix |-> masked(5, k), mask |-> k] : k \in {0, 1, 3}}
                \cup {[prefix |-> masked(2, 1), mask |-> 1]}
MCRouteLists == UNION {[1..n -> FewRoutes] : n \in 0..3}
MCOnLink     == {{5}, {2, 5}}
MCDestination == {2, 5}

\* Bytes to be summed: all short ones over three values, and long enough ones
\* over two for carries beyond 32 bits, with Octet = 4.
MCContents  == UNION {[1..n -> {0, 1, 3}] : n \in 0..5}
               \cup [1..8 -> {0, 3}] \cup [1..9 -> {0, 3}]
MCWordsOnly == {c \in MCContents : Len(c) % 2 = 0}

\* While calm, no packet has been forwarded or queued while another one waited.
VARIABLE calm

routing == <<vars, lookup, summed, static, calm>>

LookupEnded ==
    /\ rtable = [k \in Index |-> [prefix |-> 1, mask |-> 4]] /\ dest_ip = 0
    /\ l = 0 /\ r = -1 /\ m = 0 /\ pc = "done" /\ route = None

RouterEnded ==
    /\ arp_table = <<>> /\ q = <<>> /\ aux = NoPacket /\ asked = <<>>
    /\ frames = <<>> /\ received = 0 /\ network = {} /\ status = "crashed"

ChecksumEnded ==
    /\ vdata = <<>> /\ start = 0 /\ of_icmp = FALSE /\ position = 0
    /\ acc = Word16 - 1 /\ summing = "done" /\ checksum = <<0, 0>>

StaticEnded ==
    /\ routes = <<>> /\ on_link = {5} /\ arrived = [f \in Ifaces |-> <<>>]
    /\ arrivals = 0 /\ handled = Nothing /\ best_index = -1 /\ i = 0
    /\ at = "crashed" /\ passed = <<>>

RoutingInit ==
    /\ calm = TRUE
    /\ \/ Init /\ LookupEnded /\ ChecksumEnded /\ StaticEnded
       \/ LookupInit /\ RouterEnded /\ ChecksumEnded /\ StaticEnded
       \/ ChecksumInit /\ RouterEnded /\ LookupEnded /\ StaticEnded
       \/ StaticInit /\ RouterEnded /\ LookupEnded /\ ChecksumEnded

RoutingNext ==
    \/ /\ Next /\ calm' = (calm /\ (q = <<>> \/ aux' = aux))
       /\ UNCHANGED <<lookup, summed, static>>
    \/ get_best_route /\ UNCHANGED <<vars, summed, static, calm>>
    \/ ChecksumNext /\ UNCHANGED <<vars, lookup, static, calm>>
    \/ StaticNext /\ UNCHANGED <<vars, lookup, summed, calm>>

RoutingSpec ==
    /\ RoutingInit /\ [][RoutingNext]_routing
    /\ WF_vars(status = "run" /\ Replies) /\ WF_lookup(get_best_route)
    /\ WF_summed(ChecksumNext) /\ WF_static(StaticStep)

-----------------------------------------------------------------------------

RoutingTypeOK == TypeOK /\ LookupTypeOK /\ ChecksumTypeOK /\ StaticTypeOK

\* The queue keeps the address of a local variable, so a reply sends the copy
\* that was made last, for whomever.  What is right about it: as long as nothing
\* else is forwarded while a packet waits, and no reply comes twice, every packet
\* goes to its own next hop, and once.
WaiterIsSent ==
    calm /\ "repeat" \notin network =>
        LET sent == {j \in DOMAIN frames : frames[j].pkt \in packet}
        IN  \A j \in sent :
              /\ frames[j].to = RouteOf[frames[j].pkt.daddr]
              /\ \A k \in sent : frames[k].pkt.n = frames[j].pkt.n => k = j

\* No packet waits for ever for an address that is given, every lookup and every
\* checksum ends, and the router of lab 4 reads whatever has arrived at any interface.
RoutingDone ==
    /\ QueueDrains
    /\ <>(pc = "done") /\ <>(summing = "done")
    /\ \A f \in Ifaces : arrived[f] # <<>> ~> arrived[f] = <<>> \/ at = "crashed"
=============================================================================
