----------------------------- MODULE RouteTable -----------------------------
(***************************************************************************)
(* The routing table of the router (helper.c): how cmp() orders it and how *)
(* get_best_route() looks an address up.                                   *)
(***************************************************************************)
EXTENDS Addresses

CONSTANTS
    N,      \* entries of the table
    Tables  \* the contents of the file: sets of routes to fill the table from

Index == 0..(N - 1)
None  == -1

ASSUME RouteTableAssumption ==
    N \in Nat \ {0} /\ Tables \subseteq SUBSET Entry

\* The difference of two unsigned numbers, returned as an int.
difference(x, y) ==
    LET d == (x - y) % Word IN IF d < Word \div 2 THEN d ELSE d - Word

\* The order of the table: by prefix, then by mask.
cmp(x, y) ==
    IF x.prefix # y.prefix THEN difference(x.prefix, y.prefix)
                           ELSE x.mask - y.mask

VARIABLES
    rtable,     \* sorted by qsort() with cmp
    dest_ip,
    l, r, m,    \* locals of get_best_route
    pc, route

lookup == <<rtable, dest_ip, l, r, m, pc, route>>

last == N - 1

LookupInit ==
    /\ \E T \in Tables : rtable \in [Index -> T]
    /\ \A k \in 1..(N - 1) : cmp(rtable[k - 1], rtable[k]) <= 0
    /\ dest_ip \in Address
    /\ l = 0 /\ r = last /\ m = 0
    /\ pc = "search" /\ route = None

middle == l + (r - l) \div 2
prefix == masked(dest_ip, rtable[middle].mask)

\* Variant: without the comparison of the prefixes.
StopsAtMask(k) == k > 0 => rtable[k].mask >= rtable[k - 1].mask
\* Where the inner loop, on its way down from a match, comes to a break.
StopsAt(k) ==
    k > 0 => \/ rtable[k].prefix # rtable[k - 1].prefix
             \/ rtable[k].mask >= rtable[k - 1].mask

Found ==
    /\ pc = "search" /\ l <= r /\ prefix = rtable[middle].prefix
    /\ \E k \in 0..middle :
          /\ StopsAt(k) /\ \A j \in (k + 1)..middle : ~StopsAt(j)
          /\ m' = k /\ route' = k
    /\ pc' = "done"
    /\ UNCHANGED <<rtable, dest_ip, l, r>>

GoLeft ==
    /\ pc = "search" /\ l <= r /\ prefix < rtable[middle].prefix
    /\ m' = middle /\ r' = middle - 1
    /\ UNCHANGED <<rtable, dest_ip, l, pc, route>>

\* Variant: the upper half loses one more.
after_middleSkips == middle + 2
after_middle == middle + 1

GoRight ==
    /\ pc = "search" /\ l <= r /\ prefix > rtable[middle].prefix
    /\ m' = middle /\ l' = after_middle
    /\ UNCHANGED <<rtable, dest_ip, r, pc, route>>

NoRoute ==
    /\ pc = "search" /\ l > r
    /\ pc' = "done"
    /\ UNCHANGED <<rtable, dest_ip, l, r, m, route>>

get_best_route == Found \/ GoLeft \/ GoRight \/ NoRoute

LookupSpec == LookupInit /\ [][get_best_route]_lookup
FairLookup == LookupSpec /\ WF_lookup(get_best_route)

-----------------------------------------------------------------------------
(* Properties                                                               *)

LookupTypeOK ==
    /\ rtable \in [Index -> Entry] /\ dest_ip \in Address
    /\ l \in 0..N /\ r \in -1..(N - 1) /\ m \in Index
    /\ pc \in {"search", "done"} /\ route \in Index \cup {None}

Matches(k) == masked(dest_ip, rtable[k].mask) = rtable[k].prefix

\* Whatever the table, a route that is returned is one for the address.
RouteMatches == route # None => Matches(route)

\* Every mask is the same, and no two prefixes are so far apart that their
\* difference does not fit an int.
Uniform ==
    /\ \A j, k \in Index : rtable[j].mask = rtable[k].mask
    /\ \A j, k \in Index : rtable[j].prefix - rtable[k].prefix < Word \div 2

\* With such a table the search does not miss a route.
FindsUniform ==
    Uniform /\ pc = "done" /\ (\E k \in Index : Matches(k)) => route # None
=============================================================================
