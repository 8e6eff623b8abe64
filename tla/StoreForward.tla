---------------------------- MODULE StoreForward ----------------------------
(***************************************************************************)
(* What the publish/subscribe server promises its clients: a packet of a   *)
(* topic is written once to everyone who is there and subscribed to it, is *)
(* kept for everyone who is away and has a store-and-forward subscription, *)
(* and is written once to those when they are back, before anything newer. *)
(* Broker implements this while no two clients share a descriptor.         *)
(***************************************************************************)
EXTENDS Integers

CONSTANTS
    Id,         \* clients
    Topic,
    Place,      \* where a subscription may be kept
    MaxMsgs     \* bound: packets published

VARIABLES
    subs,       \* subs[c]: c's subscriptions, each in its place
    present,    \* the clients that are there
    last,       \* number of the last packet handled
    owed,       \* owed[c][t]: the packets of topic t kept for c
    written     \* written[c][n]: how often packet n has been written to c

promised == <<subs, present, last, owed, written>>

Subscription == [topic : Topic, sf : BOOLEAN]

Init ==
    /\ subs = [c \in Id |-> <<>>]
    /\ present = {}
    /\ last = 0
    /\ owed = [c \in Id |-> [t \in Topic |-> {}]]
    /\ written = [c \in Id |-> [n \in 1..MaxMsgs |-> 0]]

Wants(c, t) ==
    \E k \in DOMAIN subs[c] :
        subs[c][k].topic = t /\ (c \in present \/ subs[c][k].sf)

Written(c, N) == [n \in 1..MaxMsgs |-> written[c][n] + (IF n \in N THEN 1 ELSE 0)]

\* The next packet, n, has topic t.
Forward(n, t) ==
    /\ n = last + 1 /\ last' = n
    /\ written' = [c \in Id |->
                     Written(c, IF c \in present /\ Wants(c, t) THEN {n} ELSE {})]
    /\ owed' = [c \in Id |->
                  IF c \notin present /\ Wants(c, t)
                  THEN [owed[c] EXCEPT ![t] = @ \cup {n}] ELSE owed[c]]
    /\ UNCHANGED <<subs, present>>

\* A client that is coming back gets what was kept of one topic.
Deliver(c, t) ==
    /\ c \notin present /\ owed[c][t] # {}
    /\ written' = [written EXCEPT ![c] = Written(c, owed[c][t])]
    /\ owed' = [owed EXCEPT ![c][t] = {}]
    /\ UNCHANGED <<subs, present, last>>

\* It counts as present when nothing is kept for it any more.
Come(c) ==
    /\ c \notin present /\ \A t \in Topic : owed[c][t] = {}
    /\ present' = present \cup {c}
    /\ UNCHANGED <<subs, last, owed, written>>

Go(c) ==
    /\ c \in present
    /\ present' = present \ {c}
    /\ UNCHANGED <<subs, last, owed, written>>

Subscribe(c, k, s) ==
    /\ c \in present /\ k \notin DOMAIN subs[c]
    /\ subs' = [subs EXCEPT ![c] = [j \in DOMAIN subs[c] \cup {k} |->
                                      IF j = k THEN s ELSE subs[c][j]]]
    /\ UNCHANGED <<present, last, owed, written>>

Unsubscribe(c, k) ==
    /\ c \in present /\ k \in DOMAIN subs[c]
    /\ subs' = [subs EXCEPT ![c] = [j \in DOMAIN subs[c] \ {k} |-> subs[c][j]]]
    /\ UNCHANGED <<present, last, owed, written>>

Next ==
    \/ \E n \in 1..MaxMsgs, t \in Topic : Forward(n, t)
    \/ \E c \in Id :
          \/ Come(c) \/ Go(c)
          \/ \E t \in Topic : Deliver(c, t)
          \/ \E k \in Place :
                Unsubscribe(c, k) \/ \E s \in Subscription : Subscribe(c, k, s)

Spec == Init /\ [][Next]_promised
=============================================================================
