------------------------------- MODULE Broker -------------------------------
(***************************************************************************)
(* The publish/subscribe server of "tcp & udp communication": server.c and *)
(* helper.c.  Publishers send it UDP datagrams; subscribers keep one TCP   *)
(* connection each, over which they subscribe to topics and receive what   *)
(* is published.  A subscriber that leaves and comes back under the same   *)
(* ID is sent what was stored for its store-and-forward (sf) topics.       *)
(*                                                                         *)
(* The server is one thread around select(): every handler is one action,  *)
(* taken for the descriptors of a round in ascending order.  Two handlers  *)
(* are split where the code can stop in the middle: the accept handler     *)
(* blocks in recv() for the ID, and the reconnection sends slot by slot.   *)
(* The kernel (descriptor table, connections) and the other programs are   *)
(* the remaining actions, which may happen between any two of those.       *)
(***************************************************************************)
EXTENDS Integers, Sequences, FiniteSets

CONSTANTS
    Id,         \* the IDs subscribers are started with
    NoId,       \* the empty ID: what the server reads from a peer that left
    Session,    \* TCP connections; a subscriber process makes one
    NoSession,
    SessId,     \* SessId[s]: the ID of the process that makes session s
    Topic,      \* topics a user can name
    Blank,      \* the empty topic, which marks an unsubscribed slot
    SentActions, \* the actions subscribers send
    PubTopic,   \* the topics datagrams carry
    BadDatagrams, \* may a datagram have a type or sign byte the server rejects
    Lines,      \* what is typed on the server's terminal
    MaxFd,      \* the largest descriptor the process may open
    InitCap,    \* capacity of a fresh packet array (10 in helper.c)
    MaxMsgs,    \* bound: datagrams published in a behaviour
    MaxActions  \* bound: actions sent by all subscribers in a behaviour

stdin_fd   == 0
tcp_socket == 3
udp_socket == 4
ClientFd   == 5..MaxFd
Fd         == {stdin_fd, tcp_socket, udp_socket} \cup ClientFd
NoFd       == -1

ClientId  == Id \cup {NoId}
TopicName == Topic \cup {Blank}
Packet    == [n : 1..MaxMsgs, topic : TopicName]
Datagram  == [n : 1..MaxMsgs, topic : TopicName, ok : BOOLEAN]
\* What a subscriber writes: its ID first, then structs Action.
Hello     == [type |-> "id", topic |-> Blank, sf |-> FALSE]
Action    == [type : {"subscribe"}, topic : Topic, sf : BOOLEAN]
             \cup [type : {"unsubscribe"}, topic : Topic, sf : {FALSE}]
Slot      == [topic : TopicName, sf : BOOLEAN, tcps : Seq(Packet), cap : Nat,
              array : {"null", "live", "freed"}]

ASSUME BrokerAssumption ==
    /\ IsFiniteSet(Id) /\ NoId \notin Id
    /\ NoSession \notin Session /\ SessId \in [Session -> Id]
    /\ Blank \notin Topic /\ PubTopic \subseteq Topic \cup {Blank}
    /\ SentActions \subseteq Action /\ BadDatagrams \in BOOLEAN
    /\ Lines \subseteq {"exit", "other", "eof"}
    /\ MaxFd \in Nat /\ InitCap \in Nat \ {0}
    /\ MaxMsgs \in Nat /\ MaxActions \in Nat

VARIABLES
    clients,    \* IDs in the order of subscribers->clients
    connected, socket, topics,      \* fields of each Client
    freed,      \* numbers of the packets that have been passed to free()
    read_fds, tmp_fds, fdmax,       \* the select() sets
    pc,         \* "loop", "recvid" (blocked in recv of the ID), "flush"
    newtcp_socket, client, slot,    \* locals of the accept handler
    status,     \* "run", "stopped", "died" (DIE or SIGPIPE), "undefined"
    conn,       \* kernel: descriptor -> the session it is, or NoSession
    backlog,    \* kernel: connections not yet accepted
    peer,       \* per session: "none", "open", "fin", "rst", "refused"
    up,         \* per session: bytes from the subscriber, not yet read
    got,        \* per session: packets the server has written to it
    udpq,       \* datagrams in the UDP socket
    sent, acts, \* datagrams published, actions sent so far
    console     \* the server's terminal: "none", "exit", "other", "eof"

heap == <<clients, connected, socket, topics, freed>>
rest == <<backlog, up, sent, acts>>
vars == <<clients, connected, socket, topics, freed, read_fds, tmp_fds, fdmax,
          pc, newtcp_socket, client, slot, status, conn, backlog, peer, up, got,
          udpq, sent, acts, console>>

Init ==
    /\ clients = <<>>
    /\ connected = [c \in ClientId |-> FALSE]
    /\ socket = [c \in ClientId |-> NoFd]
    /\ topics = [c \in ClientId |-> <<>>]
    /\ freed = {}
    /\ read_fds = {stdin_fd, tcp_socket, udp_socket}
    /\ tmp_fds = {} /\ fdmax = tcp_socket
    /\ pc = "loop" /\ newtcp_socket = NoFd /\ client = NoId /\ slot = 1
    /\ status = "run"
    /\ conn = [f \in ClientFd |-> NoSession]
    /\ backlog = <<>> /\ udpq = <<>>
    /\ peer = [s \in Session |-> "none"]
    /\ up = [s \in Session |-> <<>>]
    /\ got = [s \in Session |-> <<>>]
    /\ sent = 0 /\ acts = 0 /\ console = "none"

-----------------------------------------------------------------------------
(* Helpers on the server's data.                                           *)

Registered == {clients[k] : k \in DOMAIN clients}

\* The client that the loops "clients[k]->socket == socket ... break" find.
IsOwner(c, i) ==
    \E k \in DOMAIN clients :
        /\ clients[k] = c /\ socket[c] = i
        /\ \A j \in 1..(k - 1) : socket[clients[j]] # i

\* The slot of client c at which send_tcp stops scanning for topic t.
IsTarget(c, k, t) ==
    LET hit(j) == /\ topics[c][j].topic = t
                  /\ connected[c] \/ topics[c][j].sf
    IN  /\ k \in DOMAIN topics[c]
        /\ hit(k)
        /\ \A j \in 1..(k - 1) : ~hit(j)

\* The slot that the unsubscribe loops blank: the first with the topic, of the
\* first client recorded under descriptor i that has one.
IsUnsubscribed(c, k, t, i) ==
    LET has(d, j) == socket[d] = i /\ topics[d][j].topic = t
    IN  /\ k \in DOMAIN topics[c] /\ has(c, k)
        /\ \A j \in 1..(k - 1) : ~has(c, j)
        /\ \E p \in DOMAIN clients :
              /\ clients[p] = c
              /\ \A q \in 1..(p - 1) :
                    \A j \in DOMAIN topics[clients[q]] : ~has(clients[q], j)

new_topic(a) == [topic |-> a.topic, sf |-> a.sf, tcps |-> <<>>, cap |-> 0,
                 array |-> "null"]

\* A slot when its client disconnects: a fresh array if sf = 1.
Shelved(sl) ==
    IF sl.sf
    THEN [topic |-> sl.topic, sf |-> TRUE, tcps |-> <<>>, cap |-> InitCap,
          array |-> "live"]
    ELSE sl

\* Variant: the packet is put at index 0.
StoredAtFront(sl, m) ==
    [topic |-> sl.topic, sf |-> sl.sf, tcps |-> <<m>> \o sl.tcps,
     cap |-> IF Len(sl.tcps) = sl.cap THEN 2 * sl.cap ELSE sl.cap,
     array |-> IF Len(sl.tcps) = sl.cap THEN "live" ELSE sl.array]
\* Variant: the array is never reallocated.
StoredNoGrow(sl, m) ==
    [topic |-> sl.topic, sf |-> sl.sf, tcps |-> Append(sl.tcps, m),
     cap |-> sl.cap, array |-> sl.array]

\* A slot after one more packet; realloc doubles a full array.
Stored(sl, m) ==
    [topic |-> sl.topic, sf |-> sl.sf, tcps |-> Append(sl.tcps, m),
     cap |-> IF Len(sl.tcps) = sl.cap THEN 2 * sl.cap ELSE sl.cap,
     array |-> IF Len(sl.tcps) = sl.cap THEN "live" ELSE sl.array]

\* A slot after its array has been sent and freed: tcps is left dangling.
Emptied(sl) ==
    [topic |-> sl.topic, sf |-> sl.sf, tcps |-> <<>>, cap |-> 0,
     array |-> IF sl.array = "null" THEN "null" ELSE "freed"]

\* The packets a slot stores, by number.
PacketsIn(sl) == {sl.tcps[p].n : p \in DOMAIN sl.tcps}

\* Variant: the scan starts one below.
ScanSkipsTop(k, top, rd) ==
    /\ k \in rd /\ 2 < k /\ k < top
    /\ \A j \in rd : j < top => j <= k

\* k is where a downward scan from top for a member of rd stops (at most at 3).
ScanStopsAt(k, top, rd) ==
    /\ k \in rd /\ 2 < k /\ k <= top
    /\ \A j \in rd : j <= top => j <= k

-----------------------------------------------------------------------------
(* What the handlers do to the server's data.                              *)

\* DIE and SIGPIPE end the process; nothing it had is looked at again.
Dies ==
    /\ status' = "died"
    /\ UNCHANGED <<heap, rest, read_fds, tmp_fds, fdmax, pc, newtcp_socket,
                   client, slot, conn, peer, got, udpq, console>>

\* Two send() calls per packet to each session of S.  The first may draw an RST
\* out of a peer that has closed, and then the second raises SIGPIPE.
SendMayDie(S) == \E s \in S : peer[s] \in {"fin", "rst"}
\* If the process survives, the error of a reset may have been reported to a
\* send(), whose result is ignored: the next recv() then returns 0, not -1.
SendSurvives(S) ==
    \E R \in SUBSET {s \in S : peer[s] = "rst"} :
        peer' = [s \in Session |-> IF s \in R THEN "fin" ELSE peer[s]]

CloseFd(f) ==
    /\ conn' = [conn EXCEPT ![f] = NoSession]
    /\ read_fds' = read_fds \ {f}
    /\ \E k \in Fd : ScanStopsAt(k, fdmax, read_fds \ {f}) /\ fdmax' = k

close_sockets ==
    conn' = [f \in ClientFd |-> IF f \in read_fds /\ f <= fdmax THEN NoSession
                                                              ELSE conn[f]]

\* Variant: "connected" stays 0, as calloc() left it.
add_new_clientUnset(id, f) ==
    /\ clients' = Append(clients, id)
    /\ UNCHANGED connected
    /\ socket' = [socket EXCEPT ![id] = f]
    /\ topics' = [topics EXCEPT ![id] = <<>>]
add_new_client(id, f) ==
    /\ clients' = Append(clients, id)
    /\ connected' = [connected EXCEPT ![id] = TRUE]
    /\ socket' = [socket EXCEPT ![id] = f]
    /\ topics' = [topics EXCEPT ![id] = <<>>]

\* Variants: the old descriptor stays; the loop starts at the second topic.
begin_reconnectStale(id, f) ==
    /\ UNCHANGED socket
    /\ client' = id /\ slot' = 1
begin_reconnectSkips(id, f) ==
    /\ socket' = [socket EXCEPT ![id] = f]
    /\ client' = id /\ slot' = 2
\* reconnect_an_old_client up to its first loop.
begin_reconnect(id, f) ==
    /\ socket' = [socket EXCEPT ![id] = f]
    /\ client' = id /\ slot' = 1

disconnect_subscriber(i) ==
    /\ connected' = [c \in ClientId |-> connected[c] /\ ~IsOwner(c, i)]
    /\ topics' = [c \in ClientId |->
                    [k \in DOMAIN topics[c] |->
                       IF IsOwner(c, i) THEN Shelved(topics[c][k])
                                        ELSE topics[c][k]]]

subscribe_to_topic(a, i) ==
    topics' = [c \in ClientId |->
                 IF IsOwner(c, i) THEN Append(topics[c], new_topic(a))
                                  ELSE topics[c]]

unsubscribe(a, i) ==
    topics' = [c \in ClientId |->
                 [k \in DOMAIN topics[c] |->
                    IF IsUnsubscribed(c, k, a.topic, i)
                    THEN [topics[c][k] EXCEPT !.topic = Blank]
                    ELSE topics[c][k]]]

\* Packet m to every client whose scan stops at a slot: stored there if the
\* client is disconnected, else written to whatever its descriptor is now.
\* A store past the end of the array may corrupt the heap or go unnoticed.
StoresAt(c, k, m) ==
    c \in Registered /\ ~connected[c] /\ IsTarget(c, k, m.topic)

Receivers(m) ==
    {c \in Registered : connected[c] /\ \E k \in DOMAIN topics[c] :
                                           IsTarget(c, k, m.topic)}

Overruns(sl) == Len(sl.tcps) > sl.cap

send_tcp(m) ==
    LET to == {c \in Receivers(m) : conn[socket[c]] # NoSession}
        S  == {conn[socket[c]] : c \in to}
        copies(s) == Cardinality({c \in to : conn[socket[c]] = s})
    IN  /\ topics' = [c \in ClientId |->
                        [k \in DOMAIN topics[c] |->
                           IF StoresAt(c, k, m) THEN Stored(topics[c][k], m)
                                                ELSE topics[c][k]]]
        /\ got' = [s \in Session |-> got[s] \o [j \in 1..copies(s) |-> m]]
        /\ SendSurvives(S)
        /\ \/ status' = "run"
           \/ /\ \E c \in ClientId : \E k \in DOMAIN topics[c] :
                    StoresAt(c, k, m) /\ Overruns(topics'[c][k])
              /\ status' = "undefined"

-----------------------------------------------------------------------------
(* The server's steps.                                                     *)

Ready(f) ==
    \/ f = stdin_fd /\ console # "none"
    \/ f = tcp_socket /\ backlog # <<>>
    \/ f = udp_socket /\ udpq # <<>>
    \/ f \in ClientFd /\ (up[conn[f]] # <<>> \/ peer[conn[f]] \in {"fin", "rst"})

\* select() returns: it looks only at descriptors up to fdmax.
Select ==
    LET ready == {f \in read_fds : f <= fdmax /\ Ready(f)}
    IN  /\ pc = "loop" /\ tmp_fds = {} /\ ready # {}
        /\ tmp_fds' = ready
        /\ UNCHANGED <<heap, rest, read_fds, fdmax, pc, newtcp_socket, client,
                       slot, status, conn, peer, got, udpq, console>>

\* The for loop over the descriptors has come to i.
Turn(i) ==
    /\ pc = "loop" /\ i \in tmp_fds
    /\ \A j \in tmp_fds : i <= j

Accept ==
    LET free == {f \in ClientFd : conn[f] = NoSession}
    IN  /\ Turn(tcp_socket)
        /\ \/ free = {} /\ Dies
           \/ \E f \in free :
                /\ \A g \in free : f <= g
                /\ tmp_fds' = tmp_fds \ {tcp_socket}
                /\ read_fds' = read_fds \cup {f}
                /\ fdmax' = IF f > fdmax THEN f ELSE fdmax
                /\ conn' = [conn EXCEPT ![f] = Head(backlog)]
                /\ backlog' = Tail(backlog)
                /\ newtcp_socket' = f /\ pc' = "recvid"
                /\ UNCHANGED <<heap, client, slot, status, peer, up, got, udpq,
                               sent, acts, console>>

\* recv() of the ID returns: it takes up to BUFLEN bytes, so every Action that
\* has arrived behind the ID goes with it.
RecvId ==
    LET f  == newtcp_socket
        s  == conn[f]
        id == IF up[s] = <<>> THEN NoId ELSE SessId[s]
    IN  /\ pc = "recvid"
        /\ up[s] # <<>> \/ peer[s] = "fin"
        /\ up' = [up EXCEPT ![s] = <<>>]
        /\ \/ /\ id \notin Registered               \* a new subscriber
              /\ add_new_client(id, f)
              /\ pc' = "loop" /\ newtcp_socket' = NoFd
              /\ UNCHANGED <<read_fds, fdmax, conn, client, slot, peer>>
           \/ /\ id \in Registered /\ connected[id] \* "already connected"
              /\ CloseFd(f)
              /\ peer' = [peer EXCEPT ![s] = IF @ = "open" THEN "refused" ELSE @]
              /\ pc' = "loop" /\ newtcp_socket' = NoFd
              /\ UNCHANGED <<clients, connected, socket, topics, client, slot>>
           \/ /\ id \in Registered /\ ~connected[id] \* an old one is back
              /\ begin_reconnect(id, f)
              /\ pc' = "flush"
              /\ UNCHANGED <<clients, connected, topics, read_fds, fdmax, conn,
                             newtcp_socket, peer>>
        /\ UNCHANGED <<freed, tmp_fds, status, backlog, got, udpq, sent, acts,
                       console>>

\* reconnect_an_old_client, first loop: the packets of one slot are sent.
FlushSlot ==
    LET s  == conn[newtcp_socket]
        sl == topics[client][slot]
    IN  /\ pc = "flush" /\ slot \in DOMAIN topics[client]
        /\ \/ /\ PacketsIn(sl) \cap freed # {}      \* use after free
              /\ status' = "undefined"
              /\ UNCHANGED <<got, peer, slot>>
           \/ /\ PacketsIn(sl) \cap freed = {}
              /\ got' = [got EXCEPT ![s] = @ \o sl.tcps]
              /\ IF sl.tcps = <<>> THEN UNCHANGED peer ELSE SendSurvives({s})
              /\ slot' = slot + 1
              /\ UNCHANGED status
           \/ /\ sl.tcps # <<>> /\ SendMayDie({s})
              /\ status' = "died"
              /\ UNCHANGED <<got, peer, slot>>
        /\ UNCHANGED <<heap, rest, read_fds, tmp_fds, fdmax, pc, newtcp_socket,
                       client, conn, udpq, console>>

\* reconnect_an_old_client, the rest: connected, and everything stored is freed.
EndReconnect ==
    /\ pc = "flush" /\ slot \notin DOMAIN topics[client]
    /\ connected' = [connected EXCEPT ![client] = TRUE]
    /\ topics' = [topics EXCEPT ![client] = [k \in DOMAIN @ |-> Emptied(@[k])]]
    /\ freed' = freed \cup UNION {PacketsIn(topics[client][k]) :
                                    k \in DOMAIN topics[client]}
    /\ pc' = "loop" /\ newtcp_socket' = NoFd
    /\ client' = NoId /\ slot' = 1
    /\ UNCHANGED <<clients, socket, rest, read_fds, tmp_fds, fdmax, status, conn,
                   peer, got, udpq, console>>

\* The packet a datagram is converted to; its type or sign byte may not be ok.
udp_to_tcp(m) == [n |-> m.n, topic |-> m.topic]

ReceiveDatagram ==
    LET m == Head(udpq)
        pkt == udp_to_tcp(m)
        to  == {conn[socket[c]] : c \in Receivers(pkt)} \ {NoSession}
    IN  /\ Turn(udp_socket)
        /\ \/ (~m.ok \/ SendMayDie(to)) /\ Dies
           \/ /\ m.ok
              /\ udpq' = Tail(udpq)
              /\ send_tcp(pkt)
              /\ tmp_fds' = tmp_fds \ {udp_socket}
              /\ UNCHANGED <<clients, connected, socket, freed, rest, read_fds,
                             fdmax, pc, newtcp_socket, client, slot, conn,
                             console>>

ReceiveAction(i) ==
    LET s == conn[i]
        a == Head(up[s])
    IN  /\ Turn(i) /\ up[s] # <<>>
        /\ up' = [up EXCEPT ![s] = Tail(@)]
        /\ \/ a.type = "unsubscribe" /\ unsubscribe(a, i)
           \/ a.type # "unsubscribe" /\ subscribe_to_topic(a, i)
        /\ tmp_fds' = tmp_fds \ {i}
        /\ UNCHANGED <<clients, connected, socket, freed, read_fds, fdmax, pc,
                       newtcp_socket, client, slot, status, conn, backlog, peer,
                       got, udpq, sent, acts, console>>

\* recv() returns 0, or -1 after a reset.
ReceiveEnd(i) ==
    LET s == conn[i]
    IN  /\ Turn(i) /\ up[s] = <<>>
        /\ \/ peer[s] = "rst" /\ Dies
           \/ /\ peer[s] # "rst"
              /\ disconnect_subscriber(i)
              /\ CloseFd(i)
              /\ tmp_fds' = tmp_fds \ {i}
              /\ UNCHANGED <<clients, socket, freed, rest, pc, newtcp_socket,
                             client, slot, status, peer, got, udpq, console>>

\* What free_memory() passes to free() twice, if anything.
FreedTwice ==
    \E c \in Registered : \E k \in DOMAIN topics[c] :
        \/ topics[c][k].array = "freed"
        \/ PacketsIn(topics[c][k]) \cap freed # {}
        \/ \E d \in Registered : \E l \in DOMAIN topics[d] :
              /\ <<c, k>> # <<d, l>>
              /\ PacketsIn(topics[c][k]) \cap PacketsIn(topics[d][l]) # {}

IsExit(line) == line = "exit"

\* A line on the terminal: only "exit" stops the server; end of file stays.
ReadConsole ==
    /\ Turn(stdin_fd)
    /\ \/ /\ IsExit(console)
          /\ status' = IF FreedTwice THEN "undefined" ELSE "stopped"
          /\ close_sockets
          /\ UNCHANGED <<tmp_fds, console>>
       \/ /\ ~IsExit(console)
          /\ console' = IF console = "eof" THEN "eof" ELSE "none"
          /\ tmp_fds' = tmp_fds \ {stdin_fd}
          /\ UNCHANGED <<status, conn>>
    /\ UNCHANGED <<heap, rest, read_fds, fdmax, pc, newtcp_socket, client, slot,
                   peer, got, udpq>>

ServerStep ==
    \/ Select \/ Accept \/ RecvId \/ FlushSlot \/ EndReconnect
    \/ ReceiveDatagram \/ ReadConsole
    \/ \E i \in ClientFd : ReceiveAction(i) \/ ReceiveEnd(i)

-----------------------------------------------------------------------------
(* The other programs: subscriber.c, the publishers, the terminal.         *)

kernel == <<heap, read_fds, tmp_fds, fdmax, pc, newtcp_socket, client, slot,
            status, conn>>

Connect(s) ==
    /\ peer[s] = "none"
    /\ peer' = [peer EXCEPT ![s] = "connecting"]
    /\ backlog' = Append(backlog, s)
    /\ UNCHANGED <<kernel, up, got, udpq, sent, acts, console>>

SendId(s) ==
    /\ peer[s] = "connecting"
    /\ peer' = [peer EXCEPT ![s] = "open"]
    /\ up' = [up EXCEPT ![s] = Append(@, Hello)]
    /\ UNCHANGED <<kernel, backlog, got, udpq, sent, acts, console>>

SendAction(s, a) ==
    /\ peer[s] = "open" /\ acts < MaxActions
    /\ up' = [up EXCEPT ![s] = Append(@, a)]
    /\ acts' = acts + 1
    /\ UNCHANGED <<kernel, backlog, peer, got, udpq, sent, console>>

\* exit, or the process is killed; unread input turns the FIN into an RST.
Leave(s) ==
    /\ peer[s] \in {"connecting", "open"}
    /\ \E how \in {"fin", "rst"} :
          /\ how = "rst" => got[s] # <<>>
          /\ peer' = [peer EXCEPT ![s] = how]
    /\ UNCHANGED <<kernel, backlog, up, got, udpq, sent, acts, console>>

Publish(t, ok) ==
    /\ sent < MaxMsgs
    /\ sent' = sent + 1
    /\ udpq' = Append(udpq, [n |-> sent + 1, topic |-> t, ok |-> ok])
    /\ UNCHANGED <<kernel, backlog, peer, up, got, acts, console>>

TypeLine(line) ==
    /\ console = "none"
    /\ console' = line
    /\ UNCHANGED <<kernel, backlog, peer, up, got, udpq, sent, acts>>

Environment ==
    \/ \E s \in Session : \/ Connect(s) \/ SendId(s) \/ Leave(s)
                          \/ \E a \in SentActions : SendAction(s, a)
    \/ \E t \in PubTopic, ok \in BOOLEAN : (ok \/ BadDatagrams) /\ Publish(t, ok)
    \/ \E line \in Lines : TypeLine(line)

Next == status = "run" /\ (ServerStep \/ Environment)

Spec == Init /\ [][Next]_vars

Fairness ==
    /\ WF_vars(status = "run" /\ ServerStep)
    /\ \A s \in Session : WF_vars(status = "run" /\ SendId(s))

FairSpec == Spec /\ Fairness

-----------------------------------------------------------------------------
(* Properties of the server.                                               *)

TypeOK ==
    /\ clients \in Seq(ClientId)
    /\ connected \in [ClientId -> BOOLEAN]
    /\ socket \in [ClientId -> ClientFd \cup {NoFd}]
    /\ topics \in [ClientId -> Seq(Slot)]
    /\ freed \subseteq 1..MaxMsgs
    /\ read_fds \subseteq Fd /\ tmp_fds \subseteq Fd /\ fdmax \in Fd
    /\ pc \in {"loop", "recvid", "flush"}
    /\ newtcp_socket \in ClientFd \cup {NoFd}
    /\ client \in ClientId /\ slot \in Nat
    /\ status \in {"run", "stopped", "died", "undefined"}
    /\ conn \in [ClientFd -> Session \cup {NoSession}]
    /\ backlog \in Seq(Session)
    /\ peer \in [Session ->
                   {"none", "connecting", "open", "fin", "rst", "refused"}]
    /\ up \in [Session -> Seq(Action \cup {Hello})]
    /\ got \in [Session -> Seq(Packet)]
    /\ udpq \in Seq(Datagram)
    /\ sent \in 0..MaxMsgs /\ acts \in 0..MaxActions
    /\ console \in Lines \cup {"none"}

OpenFd == {f \in ClientFd : conn[f] # NoSession}

\* The three books on descriptors agree while the server runs: read_fds holds
\* exactly the open ones, no descriptor of the current round has been closed,
\* and fdmax is the largest (until the first accept it is tcp_socket).
Descriptors ==
    status = "run" =>
        /\ read_fds = {stdin_fd, tcp_socket, udp_socket} \cup OpenFd
        /\ tmp_fds \subseteq read_fds
        /\ \/ fdmax \in read_fds /\ \A f \in read_fds : f <= fdmax
           \/ fdmax = tcp_socket /\ OpenFd = {}
        /\ \A f, g \in OpenFd : conn[f] = conn[g] => f = g

\* close_sockets leaves no subscriber's connection open when the server stops.
AllClosedAtStop == status = "stopped" => OpenFd = {}

\* Every accepted connection, once its ID has been read, is recorded as the
\* connection of a connected client until it is closed: whatever the other
\* handlers do, no live subscriber is taken for one that left.
LiveIsConnected ==
    \A f \in OpenFd : f # newtcp_socket =>
        \E c \in Registered : connected[c] /\ socket[c] = f

\* The rule "Client already connected" works end to end: two live subscribers
\* with one ID are never served at the same time.
OneLiveConnectionPerId ==
    \A f, g \in OpenFd :
        /\ newtcp_socket \notin {f, g} /\ SessId[conn[f]] = SessId[conn[g]]
        /\ peer[conn[f]] = "open" /\ peer[conn[g]] = "open"
        => f = g

\* A connected client has no stored packets: they are all sent and released
\* before it counts as connected, and packets are stored for absent ones only.
NoStoreWhileConnected ==
    \A c \in Registered : connected[c] =>
        \A k \in DOMAIN topics[c] : topics[c][k].tcps = <<>>

\* On a connection the packets of one topic follow the order in which their
\* datagrams arrived, across storing, doubling the array and reconnecting.
PerTopicOrder ==
    \A s \in Session : \A j, k \in DOMAIN got[s] :
        j < k /\ got[s][j].topic = got[s][k].topic /\ got[s][j].topic # Blank
        => got[s][j].n <= got[s][k].n

\* What a subscriber has written is read in the end, whoever else connects,
\* publishes or leaves (unless the server halts): one blocking recv() of an ID
\* holds everybody up only until that ID arrives.
WrittenIsRead == \A s \in Session : up[s] # <<>> ~> up[s] = <<>> \/ status # "run"

-----------------------------------------------------------------------------
(* Nothing resets the socket field of a client that left, and the kernel    *)
(* reuses the lowest free descriptor, so two clients can be recorded under  *)
(* one.  The following hold in behaviours where that does not happen.       *)

NoAlias == \A c, d \in Registered : socket[c] = socket[d] => c = d

StableSpec == Init /\ [][Next /\ NoAlias']_vars

\* Packets are stored inside the array that was allocated for them.
InBounds ==
    \A c \in Registered : \A k \in DOMAIN topics[c] : ~Overruns(topics[c][k])

\* The slots of c whose packets have not been sent yet.
Unsent(c) == {k \in DOMAIN topics[c] : pc = "flush" /\ client = c => slot <= k}

Subscribed(c) == {k \in DOMAIN topics[c] : topics[c][k].topic # Blank}

\* What StoreForward talks about.
Subscriptions(c) == [k \in Subscribed(c) |->
                       [topic |-> topics[c][k].topic, sf |-> topics[c][k].sf]]

OwedOf(c, t) ==
    {n \in 1..sent : \E k \in Unsent(c) : \E p \in DOMAIN topics[c][k].tcps :
                        topics[c][k].tcps[p] = [n |-> n, topic |-> t]}

\* Where packet n lies in what has been written over connections of c.
Copies(c, n) ==
    UNION {{<<s, j>> : j \in {i \in DOMAIN got[s] : got[s][i].n = n}} :
           s \in {r \in Session : SessId[r] = c}}

present == {c \in Id : connected[c]}
last    == sent - Len(udpq)
subs    == [c \in Id |-> Subscriptions(c)]
owed    == [c \in Id |-> [t \in Topic |-> OwedOf(c, t)]]
written == [c \in Id |-> [n \in 1..MaxMsgs |-> Cardinality(Copies(c, n))]]

Store == INSTANCE StoreForward WITH Place <- 1..MaxActions

\* Every packet is written once to whoever was subscribed to its topic, at once
\* or after the return, and never after a newer one of its topic; nothing that is
\* kept is lost, through disconnections, returns and refused connections.  This is
\* so for datagrams with a topic: an empty one matches a slot that was blanked.
IsStoreForward == Store!Spec

StoredFor(c) == UNION {PacketsIn(topics[c][k]) : k \in DOMAIN topics[c]}

-----------------------------------------------------------------------------
(* What comments of the code say and the code does not keep.                *)

\* "disconnect a subscriber because it stopped the communication"
\* (helper.h:109): no client stays connected under a descriptor that is closed.
GoneIsDisconnected ==
    status = "run" =>
        \A c \in Registered : connected[c] => conn[socket[c]] # NoSession

\* "all the packages which have had been received from the udp clients while the
\* subscriber was disabled are sent now" (helper.c:222): they still exist then.
StoredAreSendable ==
    pc = "flush" => StoredFor(client) \cap freed = {}

=============================================================================
