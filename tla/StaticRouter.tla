---------------------------- MODULE StaticRouter ----------------------------
(***************************************************************************)
(* The router of lab 4: one loop that checks a packet, looks its           *)
(* destination up in a routing table, takes the hardware address from a    *)
(* static ARP table and sends the packet on.  Tables are as the two files  *)
(* have them.  Packets wait at the interfaces they have arrived at.        *)
(***************************************************************************)
EXTENDS Addresses, Sequences, FiniteSets

CONSTANTS
    Ifaces,         \* 0..3
    RouteLists,     \* the routing tables there may be: sequences of routes
    OnLink,         \* sets of addresses that the ARP table may have
    Destination,    \* where packets go to
    MaxArrivals     \* bound: packets that arrive

\* best_index is an int from 0, and the table is allocated for 100 routes.
ASSUME StaticRouterAssumption ==
    /\ Ifaces \subseteq Nat /\ IsFiniteSet(Ifaces)
    /\ RouteLists \subseteq Seq([prefix : Address, mask : Mask])
    /\ \A table \in RouteLists : Len(table) <= 100
    /\ OnLink \subseteq SUBSET Address
    /\ Destination \subseteq Address /\ MaxArrivals \in Nat

VARIABLES
    routes, on_link,    \* rtable and arp_table
    arrived,            \* per interface: packets not yet read
    arrivals,           \* packets that have arrived so far
    handled,            \* the packet in hand, or nothing
    best_index, i,      \* locals of get_best_route, from 0
    at,                 \* "loop", "lookup", "crashed"
    passed              \* packets sent on, with the route taken

static == <<routes, on_link, arrived, arrivals, handled, best_index, i, at,
            passed>>

msg == [n : 1..MaxArrivals, daddr : Destination, ttl : 0..2, check_ok : BOOLEAN]
Nothing == [n |-> 0]

StaticInit ==
    /\ routes \in RouteLists /\ on_link \in OnLink
    /\ arrived = [f \in Ifaces |-> <<>>] /\ arrivals = 0
    /\ handled = Nothing /\ best_index = -1 /\ i = 0
    /\ at = "loop" /\ passed = <<>>

Arrives(f, p) ==
    /\ at # "crashed" /\ arrivals < MaxArrivals /\ p.n = arrivals + 1
    /\ arrivals' = arrivals + 1
    /\ arrived' = [arrived EXCEPT ![f] = Append(@, p)]
    /\ UNCHANGED <<routes, on_link, handled, best_index, i, at, passed>>

Discarded(p) == ~p.check_ok \/ p.ttl < 1

\* get_packet and the checks: the interfaces are looked at in their order.
TakePacket(f) ==
    /\ at = "loop" /\ arrived[f] # <<>>
    /\ \A g \in Ifaces : g < f => arrived[g] = <<>>
    /\ arrived' = [arrived EXCEPT ![f] = Tail(@)]
    /\ \/ Discarded(Head(arrived[f])) /\ UNCHANGED <<handled, best_index, i, at>>
       \/ /\ ~Discarded(Head(arrived[f]))
          /\ handled' = Head(arrived[f])
          /\ best_index' = -1 /\ i' = 0 /\ at' = "lookup"
    /\ UNCHANGED <<routes, on_link, arrivals, passed>>

route_at(k) == routes[k + 1]

\* Variant: the comparison the other way round.
AboveNever(k, b) == (IF route_at(k).mask = 0 THEN 0 ELSE 255) < b
\* "ntohl(mask) > ntohl(best_index)" compares a mask with an index, whose one
\* octet has become the highest: only an empty mask is not above it.
Above(k, b) == (IF route_at(k).mask = 0 THEN 0 ELSE 255) > b

LooksAt ==
    /\ at = "lookup" /\ i < Len(routes)
    /\ best_index' =
         IF /\ masked(handled.daddr, route_at(i).mask) = route_at(i).prefix
            /\ best_index = -1 \/ Above(i, best_index)
         THEN i ELSE best_index
    /\ i' = i + 1
    /\ UNCHANGED <<routes, on_link, arrived, arrivals, handled, at, passed>>

\* The ARP table is asked for the destination, not for the next hop, and what
\* it returns, NULL if there is no such entry, is used unchecked.
SendOn ==
    /\ at = "lookup" /\ i = Len(routes)
    /\ \/ best_index = -1 /\ at' = "loop" /\ UNCHANGED passed
       \/ best_index # -1 /\ handled.daddr \notin on_link
          /\ at' = "crashed" /\ UNCHANGED passed
       \/ /\ best_index # -1 /\ handled.daddr \in on_link
          /\ passed' = Append(passed, [msg |-> [handled EXCEPT !.ttl = @ - 1],
                                       by |-> best_index])
          /\ at' = "loop"
    /\ handled' = Nothing
    /\ UNCHANGED <<routes, on_link, arrived, arrivals, best_index, i>>

StaticStep == (\E f \in Ifaces : TakePacket(f)) \/ LooksAt \/ SendOn

StaticNext ==
    \/ StaticStep
    \/ \E f \in Ifaces, p \in msg : Arrives(f, p)

StaticSpec == StaticInit /\ [][StaticNext]_static /\ WF_static(StaticStep)

-----------------------------------------------------------------------------
(* Properties                                                               *)

StaticTypeOK ==
    /\ routes \in RouteLists /\ on_link \in OnLink
    /\ arrived \in [Ifaces -> Seq(msg)] /\ arrivals \in 0..MaxArrivals
    /\ handled \in msg \cup {Nothing}
    /\ best_index \in -1..(Len(routes) - 1) /\ i \in 0..Len(routes)
    /\ at \in {"loop", "lookup", "crashed"}
    /\ passed \in Seq([msg : msg, by : 0..(Len(routes) - 1)])

\* The routes, by index, that match address a.
Fits(a) == {k \in 0..(Len(routes) - 1) :
              masked(a, route_at(k).mask) = route_at(k).prefix}

\* "the best matching route for the given dest_ip" (router.c:10), although what
\* is compared with a mask is an index: a packet goes by a route that matches,
\* never by a default one when there is another, and by a longest match if the
\* table lists the longer masks later.
GoesByBest ==
    \A j \in DOMAIN passed :
        LET fits == Fits(passed[j].msg.daddr)
            mask(k) == route_at(k).mask
            b == passed[j].by
        IN  /\ b \in fits
            /\ mask(b) = 0 => \A k \in fits : mask(k) = 0
            /\ (\A k, n \in fits : k < n => mask(k) <= mask(n))
                  => \A k \in fits : mask(k) <= mask(b)
=============================================================================
