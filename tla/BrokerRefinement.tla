-------------------------- MODULE BrokerRefinement --------------------------
(* Broker implements StoreForward, for every value of the constants, as long *)
(* as no two clients are recorded under one descriptor.                      *)
EXTENDS BrokerProofs

USE BrokerAssumption

-----------------------------------------------------------------------------
(* What the refinement rests on.                                             *)

\* The connections over which nothing was written and nothing will be.
Hushed ==
    {s \in Session : up[s] = <<>> /\ peer[s] \notin {"none", "connecting", "open"}}

\* s is a connection of c; the empty ID stands for all peers that left unheard.
Owns(c, s) == SessId[s] = c \/ (c = NoId /\ s \in Hushed)

\* Who is connected is so under an open connection of its own.
Reached == status = "run" =>
    /\ \A c \in Registered : connected[c] =>
          socket[c] \in OpenFd \ {newtcp_socket} /\ Owns(c, conn[socket[c]])
    /\ pc = "flush" => Owns(client, conn[newtcp_socket]) /\ slot >= 1

\* Clients are in the array once, and who is not there, or has no ID, has no slots.
Listed ==
    /\ \A j, k \in DOMAIN clients : clients[j] = clients[k] => j = k
    /\ \A c \in ClientId : c = NoId \/ c \notin Registered => DOMAIN topics[c] = {}

\* A connection whose ID has been read carries nothing but actions.
Greeted ==
    \A f \in OpenFd : f # newtcp_socket \/ pc = "flush" =>
        \A j \in DOMAIN up[conn[f]] : up[conn[f]][j] # Hello

Addressed == \A k \in DOMAIN udpq : udpq[k].topic \in PubTopic

\* A slot keeps packets of its own topic, in ascending order.
Ascending(q) == \A j, k \in DOMAIN q : j < k => q[j].n < q[k].n
KeepsOwn(sl) ==
    /\ Ascending(sl.tcps)
    /\ \A p \in DOMAIN sl.tcps :
          sl.sf /\ sl.topic \in PubTopic /\ sl.tcps[p].topic = sl.topic
Kept == \A c \in ClientId : \A k \in DOMAIN topics[c] : KeepsOwn(topics[c][k])

\* A slot, and an action that waits to be read, stand for an action sent.
SlotAt(c, k)   == <<0, c, k>>
ActionAt(s, j) == <<1, s, j>>
SlotsIn(ts) == UNION {{SlotAt(c, k) : k \in DOMAIN ts[c]} : c \in ClientId}
ActionsIn(u) ==
    UNION {{ActionAt(s, j) : j \in {i \in DOMAIN u[s] : u[s][i] # Hello}} : s \in Session}
Asked(ts, u) == SlotsIn(ts) \cup ActionsIn(u)
Counted ==
    IsFiniteSet(Asked(topics, up)) /\ Cardinality(Asked(topics, up)) <= acts

\* What has been written, each packet in its place.
PlaceOf(s, j) == <<s, j>>
Places(g) == UNION {{PlaceOf(s, j) : j \in DOMAIN g[s]} : s \in Session}

RefInv ==
    /\ Reached /\ Listed /\ Greeted /\ Addressed /\ Kept /\ Counted
    /\ IsFiniteSet(Places(got))

LEMMA InitRef == Init => RefInv
  <1> SUFFICES ASSUME Init PROVE RefInv
    OBVIOUS
  <1>1. /\ clients = <<>> /\ pc = "loop" /\ udpq = <<>> /\ acts = 0 /\ Registered = {}
        /\ \A c \in ClientId : topics[c] = <<>>
        /\ \A s \in Session : got[s] = <<>> /\ up[s] = <<>>
        /\ OpenFd = {}
    BY DEF Init, Registered, OpenFd
  <1>2. Reached /\ Listed /\ Greeted /\ Addressed /\ Kept
    BY <1>1 DEF Reached, Listed, Greeted, Addressed, Kept
  <1>3. Asked(topics, up) = {}
    BY <1>1 DEF Asked, SlotsIn, ActionsIn
  <1>4. Places(got) = {}
    BY <1>1 DEF Places
  <1> QED BY <1>1, <1>2, <1>3, <1>4, FS_EmptySet DEF RefInv, Counted

-----------------------------------------------------------------------------
(* Who is connected, and over what.                                          *)

\* Of the clients in the array the one recorded under i is its owner.
LEMMA OwnerOf ==
    ASSUME TypeOK, NoAlias, Listed, NEW i, NEW c
    PROVE  IsOwner(c, i) <=> c \in Registered /\ socket[c] = i
  <1>1. IsOwner(c, i) => c \in Registered /\ socket[c] = i
    BY DEF IsOwner, Registered
  <1>2. ASSUME c \in Registered, socket[c] = i PROVE IsOwner(c, i)
    <2>1. PICK k \in DOMAIN clients : clients[k] = c
      BY <1>2 DEF Registered
    <2>2. k \in Nat /\ DOMAIN clients = 1..Len(clients) /\ Len(clients) \in Nat
      BY DEF TypeOK
    <2>3. ASSUME NEW j \in 1..(k - 1), socket[clients[j]] = i PROVE FALSE
      <3>1. j \in DOMAIN clients /\ j # k
        BY <2>1, <2>2, <2>3
      <3>2. clients[j] \in Registered
        BY <3>1 DEF Registered
      <3> QED BY <1>2, <2>1, <2>3, <3>1, <3>2 DEF NoAlias, Listed
    <2> QED BY <1>2, <2>1, <2>3 DEF IsOwner
  <1> QED BY <1>1, <1>2

\* A peer that left unheard stays so.
LEMMA StaysHush ==
    ASSUME TypeOK, [Next]_vars
    PROVE  Hushed \subseteq Hushed'
  <1> USE DEF heap, rest, kernel
  <1>1. CASE UNCHANGED <<up, peer>>
    BY <1>1 DEF Hushed
  <1>2. ASSUME NEW S, SendSurvives(S), UNCHANGED up PROVE Hushed \subseteq Hushed'
    BY <1>2 DEF SendSurvives, Hushed
  <1>3. CASE Dies
    BY <1>1, <1>3 DEF Dies
  <1>4. CASE RecvId
    BY <1>4 DEF RecvId, Hushed, TypeOK
  <1>5. CASE FlushSlot
    <2>1. SendSurvives({conn[newtcp_socket]}) \/ UNCHANGED peer
      BY <1>5 DEF FlushSlot
    <2>2. UNCHANGED up
      BY <1>5 DEF FlushSlot
    <2> QED BY <1>1, <1>2, <2>1, <2>2
  <1>6. CASE ReceiveDatagram
    BY <1>2, <1>3, <1>6 DEF ReceiveDatagram, send_tcp
  <1>7. CASE \E i \in ClientFd : ReceiveAction(i) \/ ReceiveEnd(i)
    BY <1>1, <1>3, <1>7 DEF ReceiveAction, ReceiveEnd, Hushed, TypeOK
  <1>8. CASE Select \/ Accept \/ EndReconnect \/ ReadConsole
    BY <1>1, <1>3, <1>8 DEF Select, Accept, EndReconnect, ReadConsole
  <1>9. CASE Environment
    BY <1>9 DEF Environment, Connect, SendId, Leave, SendAction, Publish, TypeLine,
                Hushed, TypeOK
  <1> QED BY <1>1, <1>4, <1>5, <1>6, <1>7, <1>8, <1>9 DEF Next, ServerStep, vars

LEMMA RecvIdReached ==
    ASSUME IInv, NoAlias, RefInv, RecvId, status = "run", Next
    PROVE  Reached'
  <1> DEFINE f  == newtcp_socket
             s  == conn[f]
             id == IF up[s] = <<>> THEN NoId ELSE SessId[s]
  <1>1. TypeOK /\ f \in OpenFd /\ f \in ClientFd /\ s \in Session /\ pc = "recvid"
    BY DEF IInv, Round, RecvId, OpenFd, TypeOK
  <1>2. id \in ClientId
    BY <1>1 DEF ClientId, BrokerAssumption
  <1>3. Owns(id, s)
    <2>1. CASE up[s] = <<>>
      BY <1>1, <2>1 DEF RecvId, Hushed, Owns
    <2>2. CASE up[s] # <<>>
      <3>1. id = SessId[s]
        BY <2>2
      <3> HIDE DEF id
      <3> QED BY <3>1 DEF Owns
    <2> QED BY <2>1, <2>2
  <1>4. ASSUME NEW c \in Registered, connected[c]
        PROVE  /\ c \in ClientId /\ socket[c] \in OpenFd \ {f}
               /\ socket[c] \in ClientFd /\ Owns(c, conn[socket[c]])
    BY <1>1, <1>4 DEF RefInv, Reached, OpenFd, TypeOK, Registered
  <1>5. Registered \subseteq ClientId
    BY <1>1 DEF Registered, TypeOK
  <1>6. Hushed \subseteq Hushed'
    BY <1>1, StaysHush
  <1> HIDE DEF id
  <1>7. CASE /\ id \notin Registered /\ add_new_client(id, f) /\ pc' = "loop"
             /\ newtcp_socket' = NoFd /\ UNCHANGED conn
    <2>1. Registered' = Registered \cup {id}
      <3>1. clients \in Seq(ClientId) /\ clients' = Append(clients, id)
        BY <1>1, <1>7 DEF TypeOK, add_new_client
      <3> QED BY <1>2, <3>1, AppendProperties DEF Registered
    <2>2. /\ socket'[id] = f
          /\ \A c \in Registered : connected'[c] = connected[c] /\ socket'[c] = socket[c]
      BY <1>1, <1>2, <1>5, <1>7 DEF add_new_client, TypeOK
    <2>3. OpenFd' = OpenFd /\ NoFd \notin OpenFd
      BY <1>7 DEF OpenFd, NoFd, ClientFd, BrokerAssumption
    <2> QED BY <1>1, <1>3, <1>4, <1>6, <1>7, <2>1, <2>2, <2>3 DEF Reached, Owns
  <1>8. CASE /\ CloseFd(f) /\ pc' = "loop" /\ newtcp_socket' = NoFd
             /\ UNCHANGED <<clients, connected, socket>>
    <2>1. OpenFd' = OpenFd \ {f} /\ NoFd \notin OpenFd
      BY <1>1, <1>8, CloseFdOpen DEF OpenFd, NoFd, ClientFd, BrokerAssumption
    <2>2. \A g \in OpenFd \ {f} : conn'[g] = conn[g]
      BY <1>1, <1>8, <2>1, CloseFdOpen
    <2>3. Registered' = Registered
      BY <1>8 DEF Registered
    <2> QED BY <1>1, <1>4, <1>6, <1>8, <2>1, <2>2, <2>3 DEF Reached, Owns
  <1>9. CASE /\ id \in Registered /\ ~connected[id] /\ begin_reconnect(id, f)
             /\ pc' = "flush" /\ UNCHANGED <<clients, connected, conn, newtcp_socket>>
    <2>1. /\ client' = id /\ slot' = 1
          /\ \A c \in Registered : connected[c] => socket'[c] = socket[c]
      BY <1>1, <1>2, <1>5, <1>9 DEF begin_reconnect, TypeOK
    <2>2. OpenFd' = OpenFd /\ Registered' = Registered
      BY <1>9 DEF OpenFd, Registered
    <2> QED BY <1>1, <1>3, <1>4, <1>6, <1>9, <2>1, <2>2 DEF Reached, Owns
  <1> QED BY <1>7, <1>8, <1>9 DEF RecvId, id

LEMMA ReceiveEndReached ==
    ASSUME IInv, NoAlias, RefInv, NEW i \in ClientFd, ReceiveEnd(i), ~Dies,
           status = "run", Next
    PROVE  Reached'
  <1>1. /\ TypeOK /\ i \in OpenFd /\ newtcp_socket = NoFd /\ pc = "loop"
        /\ disconnect_subscriber(i) /\ CloseFd(i)
        /\ UNCHANGED <<clients, socket, pc, newtcp_socket>>
    BY DEF IInv, Round, ReceiveEnd, Turn
  <1>2. OpenFd' = OpenFd \ {i} /\ \A g \in OpenFd \ {i} : conn'[g] = conn[g]
    BY <1>1, CloseFdOpen
  <1>3. \A c \in Registered : connected'[c] => connected[c] /\ socket[c] # i
    <2>1. \A c \in Registered : c \in ClientId /\ (socket[c] = i => IsOwner(c, i))
      BY <1>1, OwnerOf DEF RefInv, Registered, TypeOK
    <2> QED BY <1>1, <2>1 DEF disconnect_subscriber
  <1>4. Hushed \subseteq Hushed'
    BY <1>1, StaysHush
  <1>5. Registered' = Registered
    BY <1>1 DEF Registered
  <1> QED BY <1>1, <1>2, <1>3, <1>4, <1>5 DEF RefInv, Reached, Owns

LEMMA StepReached ==
    ASSUME IInv, NoAlias, RefInv, [Next]_vars
    PROVE  Reached'
  <1> USE DEF heap, rest, kernel
  <1>1. TypeOK /\ Hushed \subseteq Hushed' /\ slot \in Nat
    BY StaysHush DEF IInv, TypeOK
  <1>2. CASE /\ UNCHANGED <<clients, connected, socket, conn, newtcp_socket, pc, client>>
             /\ slot' \in {slot, slot + 1} /\ (status' = "run" => status = "run")
    <2>1. Registered' = Registered /\ OpenFd' = OpenFd
      BY <1>2 DEF Registered, OpenFd
    <2> QED BY <1>1, <1>2, <2>1 DEF RefInv, Reached, Owns
  <1>3. CASE UNCHANGED vars
    BY <1>2, <1>3 DEF vars
  <1>4. CASE Dies
    BY <1>2, <1>4 DEF Dies
  <1> SUFFICES ASSUME status = "run", Next, ServerStep \/ Environment, ~Dies
               PROVE  Reached'
    BY <1>3, <1>4 DEF Next
  <1>5. CASE Environment
    BY <1>2, <1>5 DEF Environment, Connect, SendId, Leave, SendAction, Publish, TypeLine
  <1>6. CASE Select \/ FlushSlot \/ ReceiveDatagram
    BY <1>2, <1>6 DEF Select, FlushSlot, ReceiveDatagram
  <1>7. CASE ReadConsole
    <2>1. CASE IsExit(console)
      <3>1. status' \in {"stopped", "undefined"}
        BY <1>7, <2>1 DEF ReadConsole
      <3> QED BY <3>1 DEF Reached
    <2>2. CASE ~IsExit(console)
      BY <1>2, <1>7, <2>2 DEF ReadConsole
    <2> QED BY <2>1, <2>2
  <1>8. ASSUME NEW i \in ClientFd, ReceiveAction(i) PROVE Reached'
    BY <1>2, <1>8 DEF ReceiveAction
  <1>9. CASE RecvId
    BY <1>9, RecvIdReached
  <1>10. ASSUME NEW i \in ClientFd, ReceiveEnd(i) PROVE Reached'
    BY <1>10, ReceiveEndReached
  <1>11. CASE Accept
    <2>1. PICK f \in ClientFd :
            /\ conn[f] = NoSession /\ conn' = [conn EXCEPT ![f] = Head(backlog)]
            /\ newtcp_socket' = f /\ pc' = "recvid"
            /\ UNCHANGED <<clients, connected, socket>>
      BY <1>11 DEF Accept
    <2>2. Head(backlog) \in Session
      BY <1>11 DEF IInv, Round, Accept, Turn, TypeOK
    <2>3. Registered' = Registered /\ f \notin OpenFd /\ OpenFd \subseteq OpenFd'
          /\ \A g \in OpenFd : conn'[g] = conn[g]
      BY <1>1, <2>1, <2>2 DEF Registered, OpenFd, TypeOK, BrokerAssumption
    <2> QED BY <1>1, <2>1, <2>3 DEF RefInv, Reached, Owns
  <1>12. CASE EndReconnect
    <2>1. /\ client \in Registered /\ client \in ClientId
          /\ socket[client] = newtcp_socket /\ newtcp_socket \in OpenFd
      BY <1>12 DEF EndReconnect, IInv, Served, Flushing, Round, TypeOK
    <2>2. /\ \A c \in Registered : connected'[c] => connected[c] \/ c = client
          /\ UNCHANGED <<clients, socket, conn>> /\ newtcp_socket' = NoFd /\ pc' = "loop"
      BY <1>12 DEF EndReconnect, IInv, TypeOK, Registered
    <2>3. Registered' = Registered /\ OpenFd' = OpenFd /\ NoFd \notin OpenFd
      BY <2>2 DEF Registered, OpenFd, NoFd, ClientFd, BrokerAssumption
    <2>4. Owns(client, conn[newtcp_socket])
      BY <1>12 DEF RefInv, Reached, EndReconnect
    <2> QED BY <1>1, <2>1, <2>2, <2>3, <2>4 DEF RefInv, Reached, Owns
  <1> QED BY <1>5, <1>6, <1>7, <1>8, <1>9, <1>10, <1>11, <1>12 DEF ServerStep

\* Over the connection i that is served a client subscribes, if one does, that is
\* connected, has an ID, and is the only one with that descriptor.
LEMMA Subscriber ==
    ASSUME IInv, NoAlias, RefInv, status = "run", NEW i \in ClientFd, Turn(i)
    PROVE  /\ i \in OpenFd /\ conn[i] \in Session /\ newtcp_socket = NoFd
           /\ \E c \in Registered :
                 /\ connected[c] /\ c \in ClientId
                 /\ \A d : IsOwner(d, i) <=> d = c
                 /\ socket[c] = i
                 /\ \A d \in Registered : socket[d] = i => d = c
                 /\ up[conn[i]] # <<>> => c \in Id /\ SessId[conn[i]] = c
  <1>1. TypeOK /\ i \in OpenFd /\ newtcp_socket = NoFd /\ i # NoFd
    BY DEF IInv, Round, Turn, NoFd, ClientFd, BrokerAssumption
  <1>2. conn[i] \in Session
    BY <1>1 DEF OpenFd, TypeOK
  <1>3. PICK c \in Registered : connected[c] /\ socket[c] = i
    BY <1>1 DEF IInv, Served, LiveIsConnected
  <1>4. \A d : IsOwner(d, i) <=> d = c
    BY <1>1, <1>3, OwnerOf DEF NoAlias, RefInv
  <1>5. up[conn[i]] # <<>> => c \in Id /\ SessId[conn[i]] = c
    <2>1. Owns(c, conn[i])
      BY <1>3 DEF RefInv, Reached
    <2> QED BY <1>2, <2>1 DEF Owns, Hushed, BrokerAssumption
  <1>6. c \in ClientId
    BY <1>1, <1>3 DEF Registered, TypeOK
  <1> QED BY <1>1, <1>2, <1>3, <1>4, <1>5, <1>6 DEF NoAlias

LEMMA StepListed ==
    ASSUME IInv, NoAlias, RefInv, [Next]_vars
    PROVE  Listed'
  <1> USE DEF heap, rest, kernel
  <1>1. CASE clients' = clients /\ \A c \in ClientId : DOMAIN topics'[c] = DOMAIN topics[c]
    BY <1>1 DEF RefInv, Listed, Registered
  <1>2. CASE UNCHANGED <<clients, topics>>
    BY <1>1, <1>2
  <1>3. CASE UNCHANGED vars
    BY <1>2, <1>3 DEF vars
  <1>4. CASE Dies
    BY <1>2, <1>4 DEF Dies
  <1> SUFFICES ASSUME status = "run", Next, ServerStep \/ Environment, ~Dies
               PROVE  Listed'
    BY <1>3, <1>4 DEF Next
  <1>5. CASE Environment
    BY <1>2, <1>5 DEF Environment, Connect, SendId, Leave, SendAction, Publish, TypeLine
  <1>6. CASE Select \/ FlushSlot \/ ReadConsole \/ Accept
    BY <1>2, <1>6 DEF Select, FlushSlot, ReadConsole, Accept
  <1>7. CASE EndReconnect
    BY <1>1, <1>7 DEF EndReconnect, IInv, TypeOK
  <1>8. CASE ReceiveDatagram
    BY <1>1, <1>8 DEF ReceiveDatagram, send_tcp
  <1>9. ASSUME NEW i \in ClientFd, ReceiveEnd(i) PROVE Listed'
    BY <1>1, <1>9 DEF ReceiveEnd, disconnect_subscriber
  <1>10. ASSUME NEW i \in ClientFd, ReceiveAction(i) PROVE Listed'
    <2>1. CASE unsubscribe(Head(up[conn[i]]), i)
      BY <1>1, <1>10, <2>1 DEF ReceiveAction, unsubscribe
    <2>2. CASE subscribe_to_topic(Head(up[conn[i]]), i)
      <3>1. PICK c \in Registered : c \in Id /\ \A d : IsOwner(d, i) <=> d = c
        BY <1>10, Subscriber DEF ReceiveAction
      <3>2. \A d \in ClientId : d # c => topics'[d] = topics[d]
        BY <2>2, <3>1 DEF subscribe_to_topic
      <3> QED BY <1>10, <3>1, <3>2 DEF ReceiveAction, RefInv, Listed, Registered,
                                       BrokerAssumption
    <2> QED BY <1>10, <2>1, <2>2 DEF ReceiveAction
  <1>11. CASE RecvId
    <2> DEFINE f  == newtcp_socket
               id == IF up[conn[f]] = <<>> THEN NoId ELSE SessId[conn[f]]
    <2>1. id \in ClientId /\ clients \in Seq(ClientId)
      BY <1>11 DEF IInv, RecvId, Round, OpenFd, TypeOK, ClientId, BrokerAssumption
    <2> HIDE DEF id
    <2>2. CASE id \notin Registered /\ add_new_client(id, f)
      <3>1. /\ clients' = Append(clients, id) /\ topics'[id] = <<>>
            /\ \A c \in ClientId : c # id => topics'[c] = topics[c]
        BY <2>1, <2>2 DEF add_new_client, IInv, TypeOK
      <3>2. /\ Registered' = Registered \cup {id} /\ Len(clients) \in Nat
            /\ DOMAIN clients' = 1..(Len(clients) + 1) /\ clients'[Len(clients) + 1] = id
            /\ DOMAIN clients = 1..Len(clients)
            /\ \A k \in 1..Len(clients) : clients'[k] = clients[k]
        BY <2>1, <3>1, AppendProperties DEF Registered
      <3>3. ASSUME NEW j \in DOMAIN clients', NEW k \in DOMAIN clients',
                   clients'[j] = clients'[k]
            PROVE  j = k
        <4>1. \A l \in DOMAIN clients : clients'[l] # id
          BY <2>2, <3>2 DEF Registered
        <4> QED BY <3>2, <3>3, <4>1 DEF RefInv, Listed
      <3> QED BY <2>1, <3>1, <3>2, <3>3 DEF RefInv, Listed
    <2>3. CASE UNCHANGED <<clients, topics>>
      BY <1>2, <2>3
    <2> QED BY <1>11, <2>2, <2>3 DEF RecvId, id
  <1> QED BY <1>5, <1>6, <1>7, <1>8, <1>9, <1>10, <1>11 DEF ServerStep

-----------------------------------------------------------------------------
(* What waits to be read, and what is kept.                                  *)

LEMMA StepGreeted ==
    ASSUME IInv, IInv', RefInv, [Next]_vars
    PROVE  Greeted'
  <1> USE DEF heap, rest, kernel
  <1>1. CASE /\ UNCHANGED up
             /\ \A f \in OpenFd' : f # newtcp_socket' \/ pc' = "flush" =>
                   /\ f \in OpenFd /\ conn'[f] = conn[f]
                   /\ f # newtcp_socket \/ pc = "flush"
    BY <1>1 DEF RefInv, Greeted
  <1>2. CASE UNCHANGED <<up, conn, newtcp_socket, pc>>
    <2>1. OpenFd' = OpenFd
      BY <1>2 DEF OpenFd
    <2> QED BY <1>1, <1>2, <2>1
  <1>3. CASE UNCHANGED vars
    BY <1>2, <1>3 DEF vars
  <1>4. CASE Dies
    BY <1>2, <1>4 DEF Dies
  <1> SUFFICES ASSUME status = "run", ServerStep \/ Environment, ~Dies
               PROVE  Greeted'
    BY <1>3, <1>4 DEF Next
  <1>5. ASSUME NEW s \in Session, Connect(s) \/ Leave(s) PROVE Greeted'
    BY <1>2, <1>5 DEF Connect, Leave
  <1>6. ASSUME NEW s \in Session, SendId(s) PROVE Greeted'
    <2>1. /\ up' = [up EXCEPT ![s] = Append(@, Hello)] /\ peer[s] = "connecting"
          /\ UNCHANGED <<conn, newtcp_socket, pc>> /\ OpenFd' = OpenFd
      BY <1>6 DEF SendId, OpenFd
    <2>2. \A f \in OpenFd : f # newtcp_socket \/ pc = "flush" => peer[conn[f]] # "connecting"
      BY DEF IInv, Served, Hailed
    <2>3. \A f \in OpenFd : f # newtcp_socket \/ pc = "flush" => up'[conn[f]] = up[conn[f]]
      BY <2>1, <2>2 DEF IInv, TypeOK, OpenFd
    <2>4. UNCHANGED <<conn, newtcp_socket, pc>> /\ OpenFd' = OpenFd
      BY <2>1
    <2> QED BY <2>3, <2>4 DEF RefInv, Greeted
  <1>7. ASSUME NEW s \in Session, NEW a \in SentActions, SendAction(s, a) PROVE Greeted'
    <2>1. a \in Action /\ a # Hello
      <3>1. a \in Action
        BY DEF BrokerAssumption
      <3>2. a.type # "id"
        <4>1. CASE a \in [type : {"subscribe"}, topic : Topic, sf : BOOLEAN]
          BY <4>1
        <4>2. CASE a \in [type : {"unsubscribe"}, topic : Topic, sf : {FALSE}]
          BY <4>2
        <4> QED BY <3>1, <4>1, <4>2 DEF Action
      <3> QED BY <3>1, <3>2 DEF Hello
    <2>2. /\ up' = [up EXCEPT ![s] = Append(@, a)]
          /\ UNCHANGED <<conn, newtcp_socket, pc>> /\ OpenFd' = OpenFd
      BY <1>7 DEF SendAction, OpenFd
    <2>3. \A r \in Session : \A j \in DOMAIN up'[r] :
             up'[r][j] = Hello => j \in DOMAIN up[r] /\ up[r][j] = Hello
      <3>1. up[s] \in Seq(Action \cup {Hello})
        BY DEF IInv, TypeOK
      <3> DEFINE q == Append(up[s], a)
      <3>2. \A j \in DOMAIN q : q[j] = Hello => j \in DOMAIN up[s] /\ up[s][j] = Hello
        BY <2>1, <3>1
      <3>3. /\ up'[s] = q /\ \A r \in Session : r # s => up'[r] = up[r]
        BY <2>2 DEF IInv, TypeOK
      <3> QED BY <3>2, <3>3
    <2>4. \A f \in OpenFd : conn[f] \in Session
      BY DEF IInv, TypeOK, OpenFd
    <2> QED BY <2>2, <2>3, <2>4 DEF RefInv, Greeted
  <1>8. CASE Environment
    <2>1. ASSUME NEW t \in PubTopic, NEW ok \in BOOLEAN, Publish(t, ok) PROVE Greeted'
      BY <1>2, <2>1 DEF Publish
    <2>2. ASSUME NEW line \in Lines, TypeLine(line) PROVE Greeted'
      BY <1>2, <2>2 DEF TypeLine
    <2> QED BY <1>5, <1>6, <1>7, <1>8, <2>1, <2>2 DEF Environment
  <1>9. CASE Select \/ FlushSlot \/ ReceiveDatagram
    BY <1>2, <1>9 DEF Select, FlushSlot, ReceiveDatagram
  <1>10. CASE ReadConsole
    <2>1. \A f \in OpenFd' : f \in OpenFd /\ conn'[f] = conn[f]
      BY <1>10 DEF ReadConsole, close_sockets, OpenFd, IInv, TypeOK
    <2>2. UNCHANGED <<up, newtcp_socket, pc>>
      BY <1>10 DEF ReadConsole
    <2> QED BY <1>1, <2>1, <2>2
  <1>11. CASE Accept
    <2>1. PICK f \in ClientFd :
            /\ conn[f] = NoSession /\ conn' = [conn EXCEPT ![f] = Head(backlog)]
            /\ newtcp_socket' = f /\ pc' = "recvid" /\ UNCHANGED up
      BY <1>11 DEF Accept
    <2>2. newtcp_socket = NoFd
      BY <1>11 DEF Accept, Turn, IInv, Round
    <2>3. \A g \in OpenFd' : g # f => g \in OpenFd /\ conn'[g] = conn[g] /\ g # NoFd
      BY <2>1 DEF OpenFd, IInv, TypeOK, NoFd, ClientFd, BrokerAssumption
    <2> QED BY <1>1, <2>1, <2>2, <2>3
  <1>12. CASE EndReconnect
    BY <1>1, <1>12 DEF EndReconnect, OpenFd
  <1>13. ASSUME NEW i \in ClientFd, ReceiveEnd(i) PROVE Greeted'
    <2>1. TypeOK /\ CloseFd(i) /\ i \in OpenFd /\ UNCHANGED <<up, newtcp_socket, pc>>
      BY <1>13 DEF ReceiveEnd, IInv, Round, Turn
    <2> QED BY <1>1, <2>1, CloseFdOpen
  <1>14. ASSUME NEW i \in ClientFd, ReceiveAction(i) PROVE Greeted'
    <2>1. /\ up' = [up EXCEPT ![conn[i]] = Tail(@)] /\ up[conn[i]] # <<>>
          /\ UNCHANGED <<conn, newtcp_socket, pc>> /\ OpenFd' = OpenFd
          /\ i \in OpenFd /\ newtcp_socket = NoFd /\ pc = "loop"
      BY <1>14 DEF ReceiveAction, OpenFd, IInv, Round, Turn
    <2>2. conn[i] \in Session /\ up[conn[i]] \in Seq(Action \cup {Hello})
      BY <2>1 DEF IInv, TypeOK, OpenFd
    <2>3. \A r \in Session : \A j \in DOMAIN up'[r] :
             up'[r][j] = Hello => \E k \in DOMAIN up[r] : up[r][k] = Hello
      <3> DEFINE q == up[conn[i]]
      <3>1. \A j \in DOMAIN Tail(q) : \E k \in DOMAIN q : Tail(q)[j] = q[k]
        <4>1. \A j \in DOMAIN Tail(q) : j + 1 \in DOMAIN q /\ Tail(q)[j] = q[j + 1]
          BY <2>1, <2>2
        <4> QED BY <4>1
      <3>2. /\ up'[conn[i]] = Tail(q)
            /\ \A r \in Session : r # conn[i] => up'[r] = up[r]
        BY <2>1, <2>2 DEF IInv, TypeOK
      <3> SUFFICES ASSUME NEW r \in Session, NEW j \in DOMAIN up'[r], up'[r][j] = Hello
                   PROVE  \E k \in DOMAIN up[r] : up[r][k] = Hello
        OBVIOUS
      <3>3. CASE r = conn[i]
        BY <3>1, <3>2, <3>3
      <3>4. CASE r # conn[i]
        BY <3>2, <3>4
      <3> QED BY <3>3, <3>4
    <2>4. UNCHANGED <<conn, newtcp_socket, pc>> /\ OpenFd' = OpenFd
          /\ \A f \in OpenFd : conn[f] \in Session
      BY <2>1 DEF IInv, TypeOK, OpenFd
    <2> QED BY <2>3, <2>4 DEF RefInv, Greeted
  <1>15. CASE RecvId
    <2> DEFINE f  == newtcp_socket
               s  == conn[f]
    <2>1. TypeOK /\ f \in OpenFd /\ s \in Session /\ pc = "recvid"
      BY <1>15 DEF IInv, RecvId, Round, OpenFd, TypeOK
    <2>2. up' = [up EXCEPT ![s] = <<>>]
      BY <1>15 DEF RecvId
    <2>3. up'[s] = <<>> /\ \A r \in Session : r # s => up'[r] = up[r]
      BY <2>1, <2>2 DEF TypeOK
    <2>4. \A g \in OpenFd' : g \in OpenFd /\ conn'[g] = conn[g]
      <3>1. CASE conn' = conn
        BY <3>1 DEF OpenFd
      <3>2. CASE CloseFd(f)
        BY <2>1, <3>2, CloseFdOpen
      <3> QED BY <1>15, <3>1, <3>2 DEF RecvId
    <2>5. \A g \in OpenFd : conn[g] \in Session
      BY <2>1 DEF TypeOK, OpenFd
    <2> QED BY <2>1, <2>3, <2>4, <2>5 DEF RefInv, Greeted
  <1> QED BY <1>8, <1>9, <1>10, <1>11, <1>12, <1>13, <1>14, <1>15 DEF ServerStep

LEMMA StepAddressed ==
    ASSUME TypeOK, Round, RefInv, [Next]_vars
    PROVE  Addressed'
  <1> USE DEF heap, rest, kernel
  <1>1. CASE UNCHANGED udpq
    BY <1>1 DEF RefInv, Addressed
  <1>2. ASSUME NEW t \in PubTopic, NEW ok \in BOOLEAN, Publish(t, ok) PROVE Addressed'
    <2> DEFINE d == [n |-> sent + 1, topic |-> t, ok |-> ok]
    <2>1. udpq \in Seq(Datagram) /\ udpq' = Append(udpq, d)
      BY <1>2 DEF Publish, TypeOK
    <2>2. d.topic \in PubTopic
      OBVIOUS
    <2> HIDE DEF d
    <2>3. \A k \in DOMAIN udpq' : (k \in DOMAIN udpq /\ udpq'[k] = udpq[k]) \/ udpq'[k] = d
      BY <2>1
    <2> QED BY <2>2, <2>3 DEF RefInv, Addressed
  <1>3. CASE udpq # <<>> /\ udpq' = Tail(udpq)
    <2>1. udpq \in Seq(Datagram)
      BY DEF TypeOK
    <2>2. \A k \in DOMAIN Tail(udpq) : k + 1 \in DOMAIN udpq /\ Tail(udpq)[k] = udpq[k + 1]
      BY <1>3, <2>1
    <2> QED BY <1>3, <2>2 DEF RefInv, Addressed
  <1>4. CASE status = "run" /\ ReceiveDatagram
    <2>1. udpq # <<>>
      BY <1>4 DEF ReceiveDatagram, Turn, Round
    <2> QED BY <1>1, <1>3, <1>4, <2>1 DEF ReceiveDatagram, Dies
  <1>5. CASE status = "run" /\ ServerStep /\ ~ReceiveDatagram
    <2>1. Dies => UNCHANGED udpq
      BY DEF Dies
    <2> QED BY <1>1, <1>5, <2>1 DEF ServerStep, Select, Accept, RecvId, FlushSlot,
              EndReconnect, ReadConsole, ReceiveAction, ReceiveEnd
  <1>6. CASE Environment
    BY <1>1, <1>2, <1>6 DEF Environment, Connect, SendId, Leave, SendAction, TypeLine
  <1> QED BY <1>1, <1>4, <1>5, <1>6 DEF Next, vars

\* What a slot may become keeps it one of its topic.
LEMMA StoredKeepsOwn ==
    ASSUME NEW sl \in Slot, NEW m \in Packet, NEW h \in Nat, KeepsOwn(sl),
           NoneAfter(sl.tcps, h), m.n = h + 1,
           sl.sf, sl.topic = m.topic, m.topic \in PubTopic
    PROVE  KeepsOwn(Stored(sl, m))
  <1> DEFINE q == sl.tcps
             r == Append(q, m)
  <1>1. q \in Seq(Packet)
    BY DEF Slot
  <1>2. /\ Stored(sl, m).tcps = r /\ Stored(sl, m).sf = sl.sf
        /\ Stored(sl, m).topic = sl.topic
    BY DEF Stored
  <1>3. /\ DOMAIN r = 1..(Len(q) + 1) /\ r[Len(q) + 1] = m /\ Len(q) \in Nat
        /\ DOMAIN q = 1..Len(q) /\ \A k \in 1..Len(q) : r[k] = q[k]
    BY <1>1, AppendProperties
  <1>4. \A k \in 1..Len(q) : q[k].n \in Nat /\ q[k].n <= h
    <2>1. \A k \in 1..Len(q) : q[k] \in Packet
      BY <1>1
    <2> QED BY <1>3, <2>1 DEF NoneAfter, Packet
  <1> HIDE DEF q, r
  <1>5. Ascending(q) /\ \A p \in DOMAIN q : q[p].topic = sl.topic
    BY DEF KeepsOwn, q
  <1>6. Ascending(r)
    <2> SUFFICES ASSUME NEW j \in DOMAIN r, NEW k \in DOMAIN r, j < k
                 PROVE  r[j].n < r[k].n
      BY DEF Ascending
    <2>1. CASE k = Len(q) + 1
      <3>1. j \in 1..Len(q)
        BY <1>3, <2>1
      <3> QED BY <1>3, <1>4, <2>1, <3>1
    <2>2. CASE k # Len(q) + 1
      <3>1. j \in 1..Len(q) /\ k \in 1..Len(q)
        BY <1>3, <2>2
      <3> QED BY <1>3, <1>5, <3>1 DEF Ascending
    <2> QED BY <2>1, <2>2
  <1>7. \A p \in DOMAIN r : r[p].topic = sl.topic
    BY <1>3, <1>5
  <1> QED BY <1>2, <1>6, <1>7 DEF KeepsOwn

LEMMA StepKept ==
    ASSUME IInv, Recorded, NoAlias, OrderInv, RefInv, [Next]_vars
    PROVE  Kept'
  <1> USE DEF heap, rest, kernel
  <1>1. CASE \A c \in ClientId : \A k \in DOMAIN topics'[c] :
               \/ k \in DOMAIN topics[c] /\ topics'[c][k] = topics[c][k]
               \/ topics'[c][k].tcps = <<>>
    <2>1. \A sl : sl.tcps = <<>> => KeepsOwn(sl)
      BY DEF KeepsOwn, Ascending
    <2> QED BY <1>1, <2>1 DEF RefInv, Kept
  <1>2. CASE UNCHANGED topics
    BY <1>1, <1>2
  <1>3. CASE UNCHANGED vars
    BY <1>2, <1>3 DEF vars
  <1>4. CASE Dies
    BY <1>2, <1>4 DEF Dies
  <1> SUFFICES ASSUME status = "run", ServerStep \/ Environment, ~Dies
               PROVE  Kept'
    BY <1>3, <1>4 DEF Next
  <1>a. \A c \in ClientId : topics[c] \in Seq(Slot)
    BY DEF IInv, TypeOK
  <1>5. CASE Environment
    BY <1>2, <1>5 DEF Environment, Connect, SendId, Leave, SendAction, Publish, TypeLine
  <1>6. CASE Select \/ FlushSlot \/ ReadConsole \/ Accept
    BY <1>2, <1>6 DEF Select, FlushSlot, ReadConsole, Accept
  <1>7. CASE RecvId
    <2>1. CASE UNCHANGED topics
      BY <1>2, <2>1
    <2>2. ASSUME NEW c, topics' = [topics EXCEPT ![c] = <<>>] PROVE Kept'
      BY <1>1, <2>2 DEF IInv, TypeOK
    <2> QED BY <1>7, <2>1, <2>2 DEF RecvId, add_new_client
  <1>8. CASE EndReconnect
    BY <1>1, <1>8 DEF EndReconnect, Emptied, IInv, TypeOK
  <1>9. ASSUME NEW i \in ClientFd, ReceiveEnd(i) PROVE Kept'
    BY <1>1, <1>9 DEF ReceiveEnd, disconnect_subscriber, Shelved
  <1>10. ASSUME NEW i \in ClientFd, ReceiveAction(i) PROVE Kept'
    <2> DEFINE a == Head(up[conn[i]])
    <2>1. PICK c \in Registered : connected[c] /\ c \in ClientId
                                 /\ \A d : IsOwner(d, i) <=> d = c
      BY <1>10, Subscriber DEF ReceiveAction
    <2>2. \A k \in DOMAIN topics[c] : topics[c][k].tcps = <<>>
      BY <2>1 DEF IInv, Served, EmptyHanded
    <2>3. CASE subscribe_to_topic(a, i)
      <3>1. \A d \in ClientId : d # c => topics'[d] = topics[d]
        BY <2>1, <2>3 DEF subscribe_to_topic
      <3>2. topics'[c] = Append(topics[c], new_topic(a))
        BY <2>1, <2>3 DEF subscribe_to_topic
      <3>3. \A k \in DOMAIN topics'[c] : \/ k \in DOMAIN topics[c] /\ topics'[c][k] = topics[c][k]
                                         \/ topics'[c][k] = new_topic(a)
        BY <1>a, <2>1, <3>2
      <3> QED BY <1>1, <3>1, <3>3 DEF new_topic
    <2>4. CASE unsubscribe(a, i)
      <3>1. \A d \in ClientId : \A k \in DOMAIN topics'[d] :
               /\ k \in DOMAIN topics[d]
               /\ \/ topics'[d][k] = topics[d][k]
                  \/ /\ topics'[d][k] = [topics[d][k] EXCEPT !.topic = Blank]
                     /\ IsUnsubscribed(d, k, a.topic, i)
        BY <2>4 DEF unsubscribe
      <3>2. \A d, k : IsUnsubscribed(d, k, a.topic, i) => d = c
        <4>1. \A d, k : IsUnsubscribed(d, k, a.topic, i) => d \in Registered /\ socket[d] = i
          BY DEF IsUnsubscribed, Registered
        <4> QED BY <2>1, <4>1, OwnerOf DEF IInv, RefInv
      <3>3. \A sl \in Slot : [sl EXCEPT !.topic = Blank].tcps = sl.tcps
        BY DEF Slot
      <3>4. \A k \in DOMAIN topics[c] : topics[c][k] \in Slot
        BY <1>a, <2>1
      <3>5. ASSUME NEW d \in ClientId, NEW k \in DOMAIN topics'[d],
                   topics'[d][k] # topics[d][k]
            PROVE  topics'[d][k].tcps = <<>>
        <4>1. d = c /\ topics'[d][k] = [topics[d][k] EXCEPT !.topic = Blank]
              /\ k \in DOMAIN topics[c]
          BY <3>1, <3>2, <3>5
        <4> QED BY <2>2, <3>3, <3>4, <4>1
      <3> QED BY <1>1, <3>1, <3>5
    <2> QED BY <1>10, <2>3, <2>4 DEF ReceiveAction
  <1>11. CASE ReceiveDatagram
    <2> DEFINE m == udp_to_tcp(Head(udpq))
    <2>1. udpq \in Seq(Datagram) /\ udpq # <<>> /\ send_tcp(m)
      BY <1>11 DEF ReceiveDatagram, Turn, IInv, Round, TypeOK
    <2>2. m \in Packet /\ m.n = Handled + 1 /\ Handled \in Nat /\ m.topic \in PubTopic
      <3>1. Head(udpq) \in Datagram /\ Head(udpq) = udpq[1] /\ 1 \in 1..Len(udpq)
            /\ 1 \in DOMAIN udpq
        BY <2>1
      <3> QED BY <3>1 DEF udp_to_tcp, Datagram, Packet, OrderInv, Numbered, RefInv, Addressed
    <2> HIDE DEF m
    <2>3. ASSUME NEW c \in ClientId, NEW k \in DOMAIN topics'[c]
          PROVE  KeepsOwn(topics'[c][k])
      <3>1. /\ k \in DOMAIN topics[c]
            /\ topics'[c][k] = IF StoresAt(c, k, m) THEN Stored(topics[c][k], m)
                                                    ELSE topics[c][k]
        BY <2>1, <2>3 DEF send_tcp
      <3>2. /\ topics[c][k] \in Slot /\ KeepsOwn(topics[c][k])
            /\ NoneAfter(topics[c][k].tcps, Handled)
        BY <1>a, <3>1 DEF RefInv, Kept, OrderInv, Shelves
      <3>3. StoresAt(c, k, m) => topics[c][k].topic = m.topic /\ topics[c][k].sf
        BY DEF StoresAt, IsTarget
      <3> QED BY <2>2, <3>1, <3>2, <3>3, StoredKeepsOwn
    <2> QED BY <2>3 DEF Kept
  <1> QED BY <1>5, <1>6, <1>7, <1>8, <1>9, <1>10, <1>11 DEF ServerStep

-----------------------------------------------------------------------------
(* Counting.                                                                 *)

LEMMA ImageFinite ==
    ASSUME NEW S, IsFiniteSet(S), NEW f
    PROVE  IsFiniteSet({f[x] : x \in S})
  <1> DEFINE T == {f[x] : x \in S}
             g == [x \in S |-> f[x]]
  <1>1. g \in Surjection(S, T)
    BY DEF Surjection
  <1> QED BY <1>1, FS_Surjection

LEMMA Tags ==
    ASSUME NEW a, NEW b, NEW c, NEW d
    PROVE  /\ SlotAt(a, b) = SlotAt(c, d) => a = c /\ b = d
           /\ ActionAt(a, b) = ActionAt(c, d) => a = c /\ b = d
           /\ SlotAt(a, b) # ActionAt(c, d)
           /\ PlaceOf(a, b) = PlaceOf(c, d) => a = c /\ b = d
  BY DEF SlotAt, ActionAt, PlaceOf

LEMMA AskedMember ==
    ASSUME NEW ts, NEW u, NEW e
    PROVE  e \in Asked(ts, u) <=>
              \/ \E c \in ClientId : \E k \in DOMAIN ts[c] : e = SlotAt(c, k)
              \/ \E s \in Session : \E j \in DOMAIN u[s] :
                    u[s][j] # Hello /\ e = ActionAt(s, j)
  <1>1. e \in SlotsIn(ts) <=> \E c \in ClientId : \E k \in DOMAIN ts[c] : e = SlotAt(c, k)
    BY SMT DEF SlotsIn
  <1>2. e \in ActionsIn(u) <=> \E s \in Session : \E j \in DOMAIN u[s] :
                                  u[s][j] # Hello /\ e = ActionAt(s, j)
    BY SMT DEF ActionsIn
  <1> QED BY <1>1, <1>2 DEF Asked

LEMMA PlacesMember ==
    ASSUME NEW g, NEW e
    PROVE  e \in Places(g) <=> \E s \in Session : \E j \in DOMAIN g[s] : e = PlaceOf(s, j)
  BY SMT DEF Places

\* A client has no more slots than actions have been sent.
LEMMA SlotsCounted ==
    ASSUME NEW ts, NEW u, NEW c \in ClientId, NEW n \in Nat, DOMAIN ts[c] = 1..n,
           IsFiniteSet(Asked(ts, u))
    PROVE  n <= Cardinality(Asked(ts, u))
  <1> DEFINE A == Asked(ts, u)
             f == [k \in 1..n |-> SlotAt(c, k)]
  <1>1. \A k \in 1..n : SlotAt(c, k) \in A
    BY AskedMember
  <1> HIDE DEF A
  <1>2. f \in Injection(1..n, A)
    BY <1>1, Tags DEF Injection, IsInjective
  <1>3. Cardinality(1..n) <= Cardinality(A) /\ Cardinality(1..n) = n
    BY <1>2, FS_Injection, FS_Interval DEF A
  <1> QED BY <1>3 DEF A

\* One element more.
LEMMA OneMore ==
    ASSUME NEW A, IsFiniteSet(A), NEW B, NEW y, B \subseteq A \cup {y}
    PROVE  /\ IsFiniteSet(B) /\ Cardinality(B) <= Cardinality(A) + 1
           /\ Cardinality(A) \in Nat /\ Cardinality(B) \in Nat
  <1> DEFINE C == A \cup {y}
  <1>1. /\ IsFiniteSet(C)
        /\ Cardinality(C) = IF y \in A THEN Cardinality(A) ELSE Cardinality(A) + 1
    BY FS_AddElement
  <1>2. Cardinality(A) \in Nat
    BY FS_CardinalityType
  <1> HIDE DEF C
  <1>3. IsFiniteSet(B) /\ Cardinality(B) <= Cardinality(C)
    BY <1>1, FS_Subset DEF C
  <1>4. Cardinality(B) \in Nat /\ Cardinality(C) \in Nat
    BY <1>1, <1>3, FS_CardinalityType
  <1> QED BY <1>1, <1>2, <1>3, <1>4

\* What is asked for when nothing comes to it.
LEMMA AskedShrinks ==
    ASSUME RefInv, acts' = acts, acts \in Nat,
           \A c \in ClientId : DOMAIN topics'[c] \subseteq DOMAIN topics[c],
           \A s \in Session : \A j \in DOMAIN up'[s] : up'[s][j] # Hello =>
               j \in DOMAIN up[s] /\ up[s][j] # Hello
    PROVE  Counted'
  <1> DEFINE A == Asked(topics, up)
             B == Asked(topics', up')
  <1>1. ASSUME NEW e \in B PROVE e \in A
    <2>1. CASE \E c \in ClientId : \E k \in DOMAIN topics'[c] : e = SlotAt(c, k)
      <3>1. \E c \in ClientId : \E k \in DOMAIN topics[c] : e = SlotAt(c, k)
        BY <2>1
      <3> QED BY <3>1, AskedMember
    <2>2. CASE \E s \in Session : \E j \in DOMAIN up'[s] :
                  up'[s][j] # Hello /\ e = ActionAt(s, j)
      <3>1. \E s \in Session : \E j \in DOMAIN up[s] : up[s][j] # Hello /\ e = ActionAt(s, j)
        BY <2>2
      <3> QED BY <3>1, AskedMember
    <2> QED BY <1>1, <2>1, <2>2, AskedMember
  <1>2. IsFiniteSet(A) /\ Cardinality(A) <= acts
    BY DEF RefInv, Counted
  <1> HIDE DEF A, B
  <1>3. IsFiniteSet(B) /\ Cardinality(B) <= Cardinality(A)
    BY <1>1, <1>2, FS_Subset
  <1>4. Cardinality(A) \in Nat /\ Cardinality(B) \in Nat
    BY <1>2, <1>3, FS_CardinalityType
  <1>5. Cardinality(B) <= acts
    BY <1>2, <1>3, <1>4
  <1> QED BY <1>3, <1>5 DEF Counted, B

\* An action that is read gives a slot at most.
LEMMA ReadCounted ==
    ASSUME IInv, NoAlias, RefInv, status = "run", NEW i \in ClientFd, ReceiveAction(i)
    PROVE  Counted'
  <1> DEFINE s == conn[i]
             q == up[s]
             a == Head(q)
             A == Asked(topics, up)
             B == Asked(topics', up')
  <1>1. /\ acts \in Nat /\ acts' = acts /\ s \in Session /\ q \in Seq(Action \cup {Hello})
        /\ q # <<>> /\ \A c \in ClientId : topics[c] \in Seq(Slot)
        /\ i \in OpenFd /\ newtcp_socket = NoFd /\ i # NoFd
    <2>1. i \in OpenFd /\ newtcp_socket = NoFd /\ i # NoFd
      BY DEF ReceiveAction, Turn, IInv, Round, NoFd, ClientFd, BrokerAssumption
    <2>2. s \in Session
      BY <2>1 DEF IInv, TypeOK, OpenFd
    <2> QED BY <2>1, <2>2 DEF ReceiveAction, IInv, TypeOK, BrokerAssumption
  <1>2. up'[s] = Tail(q) /\ \A r \in Session : r # s => up'[r] = up[r]
    BY <1>1 DEF ReceiveAction, IInv, TypeOK
  <1>3. \A j \in DOMAIN q : q[j] # Hello
    BY <1>1 DEF RefInv, Greeted
  <1>4. Len(q) \in DOMAIN q /\ DOMAIN Tail(q) = DOMAIN q \ {Len(q)}
    BY <1>1
  <1>5. \A r \in Session : \A j \in DOMAIN up'[r] : up'[r][j] # Hello =>
            j \in DOMAIN up[r] /\ up[r][j] # Hello /\ ~(r = s /\ j = Len(q))
    BY <1>2, <1>3, <1>4
  <1>6. CASE unsubscribe(a, i)
    <2>1. \A c \in ClientId : DOMAIN topics'[c] \subseteq DOMAIN topics[c]
      BY <1>6 DEF unsubscribe
    <2> QED BY <1>1, <1>5, <2>1, AskedShrinks
  <1>7. CASE subscribe_to_topic(a, i)
    <2>1. PICK c \in Registered : c \in ClientId /\ \A d : IsOwner(d, i) <=> d = c
      BY Subscriber DEF ReceiveAction
    <2>2. \A d \in ClientId : d # c => topics'[d] = topics[d]
      BY <1>7, <2>1 DEF subscribe_to_topic
    <2>3. topics'[c] = Append(topics[c], new_topic(a))
      BY <1>7, <2>1 DEF subscribe_to_topic
    <2>4. DOMAIN topics'[c] = DOMAIN topics[c] \cup {Len(topics[c]) + 1}
      BY <1>1, <2>1, <2>3
    <2> DEFINE x == ActionAt(s, Len(q))
               y == SlotAt(c, Len(topics[c]) + 1)
    <2>5. x \in A
      BY <1>1, <1>3, <1>4, AskedMember
    <2>6. ASSUME NEW e \in B PROVE e \in (A \ {x}) \cup {y}
      <3>1. CASE \E d \in ClientId : \E k \in DOMAIN topics'[d] : e = SlotAt(d, k)
        <4>0. PICK d \in ClientId : \E k \in DOMAIN topics'[d] : e = SlotAt(d, k)
          BY <3>1
        <4>1. PICK k \in DOMAIN topics'[d] : e = SlotAt(d, k)
          BY <4>0
        <4>2. CASE k \in DOMAIN topics[d]
          BY <4>1, <4>2, AskedMember, Tags
        <4>3. CASE k \notin DOMAIN topics[d]
          BY <2>2, <2>4, <4>1, <4>3
        <4> QED BY <4>2, <4>3
      <3>2. CASE \E r \in Session : \E j \in DOMAIN up'[r] :
                    up'[r][j] # Hello /\ e = ActionAt(r, j)
        <4>0. PICK r \in Session : \E j \in DOMAIN up'[r] :
                 up'[r][j] # Hello /\ e = ActionAt(r, j)
          BY <3>2
        <4>1. PICK j \in DOMAIN up'[r] : up'[r][j] # Hello /\ e = ActionAt(r, j)
          BY <4>0
        <4>2. j \in DOMAIN up[r] /\ up[r][j] # Hello /\ e # x
          BY <1>5, <4>1, Tags
        <4>3. e \in A
          BY <4>1, <4>2, AskedMember
        <4> QED BY <4>2, <4>3
      <3> QED BY <2>6, <3>1, <3>2, AskedMember
    <2>7. IsFiniteSet(A) /\ Cardinality(A) <= acts
      BY DEF RefInv, Counted
    <2> DEFINE C == A \ {x}
    <2> HIDE DEF A, B, x, y
    <2>8. IsFiniteSet(C) /\ Cardinality(C) = Cardinality(A) - 1 /\ Cardinality(A) \in Nat
      BY <2>5, <2>7, FS_RemoveElement, FS_CardinalityType
    <2> HIDE DEF C
    <2>9. B \subseteq C \cup {y}
      BY <2>6 DEF C
    <2>10. /\ IsFiniteSet(B) /\ Cardinality(B) <= Cardinality(C) + 1
           /\ Cardinality(C) \in Nat /\ Cardinality(B) \in Nat
      BY <2>8, <2>9, OneMore
    <2>11. Cardinality(B) <= acts'
      BY <1>1, <2>7, <2>8, <2>10
    <2> QED BY <2>10, <2>11 DEF Counted, B
  <1> QED BY <1>6, <1>7 DEF ReceiveAction

LEMMA StepCounted ==
    ASSUME IInv, NoAlias, RefInv, [Next]_vars
    PROVE  Counted'
  <1> USE DEF heap, rest, kernel
  <1>a. acts \in Nat /\ TypeOK
    BY DEF IInv, TypeOK, BrokerAssumption
  <1>1. CASE /\ UNCHANGED <<up, acts>>
             /\ \A c \in ClientId : DOMAIN topics'[c] \subseteq DOMAIN topics[c]
    BY <1>a, <1>1, AskedShrinks
  <1>2. CASE UNCHANGED <<topics, up, acts>>
    BY <1>1, <1>2
  <1>3. CASE UNCHANGED vars
    BY <1>2, <1>3 DEF vars
  <1>4. CASE Dies
    BY <1>2, <1>4 DEF Dies
  <1> SUFFICES ASSUME status = "run", ServerStep \/ Environment, ~Dies
               PROVE  Counted'
    BY <1>3, <1>4 DEF Next
  <1>5. CASE Select \/ FlushSlot \/ ReadConsole \/ Accept
    BY <1>2, <1>5 DEF Select, FlushSlot, ReadConsole, Accept
  <1>6. CASE EndReconnect
    BY <1>1, <1>6, <1>a DEF EndReconnect, TypeOK
  <1>7. CASE ReceiveDatagram
    BY <1>1, <1>7 DEF ReceiveDatagram, send_tcp
  <1>8. ASSUME NEW i \in ClientFd, ReceiveEnd(i) PROVE Counted'
    BY <1>1, <1>8 DEF ReceiveEnd, disconnect_subscriber
  <1>9. ASSUME NEW i \in ClientFd, ReceiveAction(i) PROVE Counted'
    BY <1>9, ReadCounted
  <1>10. CASE RecvId
    <2>1. \A c \in ClientId : DOMAIN topics'[c] \subseteq DOMAIN topics[c]
      <3>1. ASSUME NEW c, topics' = [topics EXCEPT ![c] = <<>>]
            PROVE  \A d \in ClientId : DOMAIN topics'[d] \subseteq DOMAIN topics[d]
        BY <1>a, <3>1 DEF TypeOK
      <3> QED BY <1>10, <3>1 DEF RecvId, add_new_client
    <2>2. \A s \in Session : up'[s] = up[s] \/ up'[s] = <<>>
      BY <1>10, <1>a DEF RecvId, TypeOK
    <2>3. acts' = acts
      BY <1>10 DEF RecvId
    <2> QED BY <1>a, <2>1, <2>2, <2>3, AskedShrinks
  <1>11. ASSUME NEW s \in Session, Connect(s) \/ Leave(s) PROVE Counted'
    BY <1>2, <1>11 DEF Connect, Leave
  <1>12. ASSUME NEW s \in Session, SendId(s) PROVE Counted'
    <2>1. up' = [up EXCEPT ![s] = Append(@, Hello)] /\ UNCHANGED <<topics, acts>>
      BY <1>12 DEF SendId
    <2>2. up[s] \in Seq(Action \cup {Hello})
      BY <1>a DEF TypeOK
    <2>3. \A j \in DOMAIN Append(up[s], Hello) : Append(up[s], Hello)[j] # Hello =>
              j \in DOMAIN up[s] /\ up[s][j] # Hello
      BY <2>2
    <2>4. up'[s] = Append(up[s], Hello) /\ \A r \in Session : r # s => up'[r] = up[r]
      BY <1>a, <2>1 DEF TypeOK
    <2>5. \A r \in Session : \A j \in DOMAIN up'[r] : up'[r][j] # Hello =>
              j \in DOMAIN up[r] /\ up[r][j] # Hello
      BY <2>3, <2>4
    <2> QED BY <1>a, <2>1, <2>5, AskedShrinks
  <1>13. ASSUME NEW s \in Session, NEW a \in SentActions, SendAction(s, a) PROVE Counted'
    <2> DEFINE A == Asked(topics, up)
               B == Asked(topics', up')
               y == ActionAt(s, Len(up[s]) + 1)
    <2>1. up' = [up EXCEPT ![s] = Append(@, a)] /\ topics' = topics /\ acts' = acts + 1
      BY <1>13 DEF SendAction
    <2>2. up[s] \in Seq(Action \cup {Hello})
      BY <1>a DEF TypeOK
    <2>3. \A j \in DOMAIN Append(up[s], a) :
             j = Len(up[s]) + 1 \/ (j \in DOMAIN up[s] /\ Append(up[s], a)[j] = up[s][j])
      BY <2>2
    <2>4. up'[s] = Append(up[s], a) /\ \A r \in Session : r # s => up'[r] = up[r]
      BY <1>a, <2>1 DEF TypeOK
    <2>5. ASSUME NEW e \in B PROVE e \in A \cup {y}
      <3>1. CASE \E d \in ClientId : \E k \in DOMAIN topics'[d] : e = SlotAt(d, k)
        BY <2>1, <3>1, AskedMember
      <3>2. CASE \E r \in Session : \E j \in DOMAIN up'[r] :
                    up'[r][j] # Hello /\ e = ActionAt(r, j)
        <4>0. PICK r \in Session : \E j \in DOMAIN up'[r] :
                 up'[r][j] # Hello /\ e = ActionAt(r, j)
          BY <3>2
        <4>1. PICK j \in DOMAIN up'[r] : up'[r][j] # Hello /\ e = ActionAt(r, j)
          BY <4>0
        <4>2. (j \in DOMAIN up[r] /\ up'[r][j] = up[r][j]) \/ (r = s /\ j = Len(up[s]) + 1)
          BY <2>3, <2>4, <4>1
        <4> QED BY <4>1, <4>2, AskedMember
      <3> QED BY <2>5, <3>1, <3>2, AskedMember
    <2>6. IsFiniteSet(A) /\ Cardinality(A) <= acts
      BY DEF RefInv, Counted
    <2> HIDE DEF A, B, y
    <2>7. /\ IsFiniteSet(B) /\ Cardinality(B) <= Cardinality(A) + 1
          /\ Cardinality(A) \in Nat /\ Cardinality(B) \in Nat
      BY <2>5, <2>6, OneMore
    <2>8. Cardinality(B) <= acts'
      BY <1>a, <2>1, <2>6, <2>7
    <2> QED BY <2>7, <2>8 DEF Counted, B
  <1>14. CASE Environment
    <2>1. ASSUME NEW t \in PubTopic, NEW ok \in BOOLEAN, Publish(t, ok) PROVE Counted'
      BY <1>2, <2>1 DEF Publish
    <2>2. ASSUME NEW line \in Lines, TypeLine(line) PROVE Counted'
      BY <1>2, <2>2 DEF TypeLine
    <2> QED BY <1>11, <1>12, <1>13, <1>14, <2>1, <2>2 DEF Environment
  <1> QED BY <1>5, <1>6, <1>7, <1>8, <1>9, <1>10, <1>14 DEF ServerStep

-----------------------------------------------------------------------------
(* What is written.                                                          *)

\* send_tcp writes a packet once, over the connection of each client it is for.
LEMMA SendsOnce ==
    ASSUME IInv, NoAlias, RefInv, status = "run", pc = "loop", NEW m \in Packet, send_tcp(m)
    PROVE  /\ \A c \in Receivers(m) :
                 c \in Id /\ conn[socket[c]] \in Session /\ SessId[conn[socket[c]]] = c
           /\ \A s \in Session : got'[s] =
                 IF \E c \in Receivers(m) : conn[socket[c]] = s THEN Append(got[s], m)
                                                                ELSE got[s]
  <1> DEFINE to == {c \in Receivers(m) : conn[socket[c]] # NoSession}
             at(s) == {c \in to : conn[socket[c]] = s}
             copies(s) == Cardinality(at(s))
  <1>1. TypeOK
    BY DEF IInv
  <1>2. newtcp_socket = NoFd
    BY DEF IInv, Round
  <1>3. ASSUME NEW c \in Receivers(m)
        PROVE  /\ c \in Id /\ conn[socket[c]] \in Session /\ SessId[conn[socket[c]]] = c
               /\ socket[c] \in OpenFd
    <2>1. c \in Registered /\ connected[c] /\ DOMAIN topics[c] # {}
      BY DEF Receivers, IsTarget
    <2>2. c \in ClientId /\ c # NoId
      BY <1>1, <2>1 DEF RefInv, Listed, Registered, TypeOK
    <2>3. socket[c] \in OpenFd /\ Owns(c, conn[socket[c]])
      BY <2>1 DEF RefInv, Reached
    <2> QED BY <1>1, <2>2, <2>3 DEF OpenFd, TypeOK, Owns, ClientId
  <1>4. ASSUME NEW s \in Session
        PROVE  got'[s] = IF \E c \in Receivers(m) : conn[socket[c]] = s
                         THEN Append(got[s], m) ELSE got[s]
    <2>1. got'[s] = got[s] \o [j \in 1..copies(s) |-> m]
      BY DEF send_tcp
    <2>2. got[s] \in Seq(Packet)
      BY <1>1 DEF TypeOK
    <2>3. CASE \E c \in Receivers(m) : conn[socket[c]] = s
      <3>1. PICK c \in Receivers(m) : conn[socket[c]] = s
        BY <2>3
      <3>2. \A d \in at(s) : d = c
        BY <1>3, <3>1 DEF IInv, Books, Placed, NoAlias, Receivers
      <3>3. c \in at(s)
        BY <1>3, <3>1 DEF BrokerAssumption
      <3>4. at(s) = {c}
        BY <3>2, <3>3
      <3> HIDE DEF at
      <3>5. copies(s) = 1
        BY <3>4, FS_Singleton
      <3> HIDE DEF copies
      <3>6. [j \in 1..copies(s) |-> m] = <<m>>
        BY <3>5
      <3>7. got'[s] = got[s] \o <<m>>
        BY <2>1, <3>6
      <3>8. Append(got[s], m) = got[s] \o <<m>>
        BY <2>2, AppendIsConcat
      <3> QED BY <2>3, <3>7, <3>8
    <2>4. CASE ~ \E c \in Receivers(m) : conn[socket[c]] = s
      <3>1. at(s) = {}
        BY <2>4
      <3> HIDE DEF at
      <3>2. copies(s) = 0
        BY <3>1, FS_EmptySet
      <3> HIDE DEF copies
      <3>3. [j \in 1..copies(s) |-> m] = <<>>
        BY <3>2
      <3> QED BY <2>1, <2>2, <2>4, <3>3, ConcatEmptySeq
    <2> QED BY <2>3, <2>4
  <1> QED BY <1>3, <1>4

\* The packet of the datagram that is handled.
LEMMA NextPacket ==
    ASSUME IInv, OrderInv, RefInv, status = "run", ReceiveDatagram
    PROVE  /\ udpq \in Seq(Datagram) /\ udpq # <<>> /\ pc = "loop"
           /\ udp_to_tcp(Head(udpq)) \in Packet
           /\ udp_to_tcp(Head(udpq)).n = Handled + 1
           /\ udp_to_tcp(Head(udpq)).topic \in PubTopic
           /\ Handled \in Nat /\ Handled < sent
  <1>1. udpq \in Seq(Datagram) /\ udpq # <<>> /\ pc = "loop"
    BY DEF ReceiveDatagram, Turn, IInv, Round, TypeOK
  <1>2. Head(udpq) \in Datagram /\ Head(udpq) = udpq[1] /\ 1 \in 1..Len(udpq)
        /\ 1 \in DOMAIN udpq
    BY <1>1
  <1>3. Handled \in Nat /\ Handled < sent
    BY <1>1 DEF OrderInv, Numbered, Handled, IInv, TypeOK, BrokerAssumption
  <1> QED BY <1>1, <1>2, <1>3 DEF udp_to_tcp, Datagram, Packet, OrderInv, Numbered,
                                  RefInv, Addressed

LEMMA PlacesGrow ==
    ASSUME NEW g, NEW h, IsFiniteSet(Places(g)), NEW N, IsFiniteSet(N),
           \A s \in Session : \A j \in DOMAIN h[s] : j \in DOMAIN g[s] \/ PlaceOf(s, j) \in N
    PROVE  IsFiniteSet(Places(h))
  <1>1. ASSUME NEW e \in Places(h) PROVE e \in Places(g) \cup N
    BY <1>1, PlacesMember
  <1>2. Places(h) \subseteq Places(g) \cup N
    BY <1>1
  <1> QED BY <1>2, FS_Union, FS_Subset

LEMMA StepPlaces ==
    ASSUME IInv, NoAlias, OrderInv, RefInv, [Next]_vars
    PROVE  IsFiniteSet(Places(got'))
  <1> USE DEF heap, rest, kernel
  <1>1. CASE UNCHANGED got
    BY <1>1 DEF RefInv
  <1>2. CASE UNCHANGED vars
    BY <1>1, <1>2 DEF vars
  <1>3. CASE Dies
    BY <1>1, <1>3 DEF Dies
  <1> SUFFICES ASSUME status = "run", ServerStep \/ Environment, ~Dies
               PROVE  IsFiniteSet(Places(got'))
    BY <1>2, <1>3 DEF Next
  <1>4. CASE Environment
    BY <1>1, <1>4 DEF Environment, Connect, SendId, Leave, SendAction, Publish, TypeLine
  <1>5. CASE Select \/ ReadConsole \/ Accept \/ RecvId \/ EndReconnect
    BY <1>1, <1>5 DEF Select, ReadConsole, Accept, RecvId, EndReconnect
  <1>6. ASSUME NEW i \in ClientFd, ReceiveAction(i) \/ ReceiveEnd(i)
        PROVE  IsFiniteSet(Places(got'))
    BY <1>1, <1>6 DEF ReceiveAction, ReceiveEnd
  <1>7. CASE FlushSlot
    <2> DEFINE s == conn[newtcp_socket]
               q == topics[client][slot].tcps
               f == [k \in 1..Len(q) |-> PlaceOf(s, Len(got[s]) + k)]
    <2>1. CASE got' = [got EXCEPT ![s] = @ \o q]
      <3>1. s \in Session /\ client \in ClientId /\ slot \in DOMAIN topics[client]
        BY <1>7 DEF FlushSlot, IInv, Round, OpenFd, TypeOK
      <3>2. q \in Seq(Packet) /\ got[s] \in Seq(Packet)
        BY <3>1, OrderTypes DEF IInv
      <3>3. got'[s] = got[s] \o q /\ \A r \in Session : r # s => got'[r] = got[r]
        BY <2>1, <3>1 DEF IInv, TypeOK
      <3> HIDE DEF q
      <3>4. \A j \in DOMAIN got'[s] : \/ j \in DOMAIN got[s]
                                      \/ \E k \in 1..Len(q) : j = Len(got[s]) + k
        <4>1. /\ got'[s] \in Seq(Packet) /\ Len(got'[s]) = Len(got[s]) + Len(q)
              /\ Len(q) \in Nat /\ Len(got[s]) \in Nat
          BY <3>2, <3>3, ConcatProperties
        <4>2. DOMAIN got'[s] = 1..Len(got'[s]) /\ DOMAIN got[s] = 1..Len(got[s])
          BY <3>2, <4>1
        <4>3. ASSUME NEW j \in DOMAIN got'[s], j \notin DOMAIN got[s]
              PROVE  j - Len(got[s]) \in 1..Len(q) /\ j = Len(got[s]) + (j - Len(got[s]))
          BY <4>1, <4>2, <4>3
        <4> QED BY <4>3
      <3> DEFINE N == {f[k] : k \in 1..Len(q)}
      <3>5. IsFiniteSet(N)
        <4>0. Len(q) \in Nat
          BY <3>2
        <4>1. IsFiniteSet(1..Len(q))
          BY <4>0, FS_Interval
        <4> HIDE DEF f
        <4> QED BY <4>1, ImageFinite
      <3>6. \A k \in 1..Len(q) : PlaceOf(s, Len(got[s]) + k) \in N
        OBVIOUS
      <3> HIDE DEF N
      <3>7. \A r \in Session : \A j \in DOMAIN got'[r] : j \in DOMAIN got[r] \/ PlaceOf(r, j) \in N
        BY <3>3, <3>4, <3>6
      <3> QED BY <3>5, <3>7, PlacesGrow DEF RefInv
    <2> QED BY <1>1, <1>7, <2>1 DEF FlushSlot
  <1>8. CASE ReceiveDatagram
    <2> DEFINE m == udp_to_tcp(Head(udpq))
               f == [c \in Id |-> PlaceOf(conn[socket[c]], Len(got[conn[socket[c]]]) + 1)]
               N == {f[c] : c \in Id}
    <2>1. m \in Packet /\ pc = "loop" /\ send_tcp(m)
      BY <1>8, NextPacket DEF ReceiveDatagram
    <2>2. IsFiniteSet(N)
      <3> HIDE DEF f
      <3> QED BY ImageFinite DEF BrokerAssumption
    <2>3. \A c \in Id : PlaceOf(conn[socket[c]], Len(got[conn[socket[c]]]) + 1) \in N
      OBVIOUS
    <2> HIDE DEF N, m
    <2>4. ASSUME NEW s \in Session, NEW j \in DOMAIN got'[s], j \notin DOMAIN got[s]
          PROVE  PlaceOf(s, j) \in N
      <3>1. PICK c \in Receivers(m) : conn[socket[c]] = s
        BY <2>1, <2>4, SendsOnce
      <3>2. c \in Id /\ got'[s] = Append(got[s], m)
        BY <2>1, <3>1, SendsOnce
      <3>3. j = Len(got[s]) + 1
        BY <2>1, <2>4, <3>2 DEF IInv, TypeOK
      <3> QED BY <2>3, <3>1, <3>2, <3>3
    <2> QED BY <2>2, <2>4, PlacesGrow DEF RefInv
  <1> QED BY <1>4, <1>5, <1>6, <1>7, <1>8 DEF ServerStep

LEMMA StepRef ==
    ASSUME IInv, IInv', Recorded, NoAlias, OrderInv, RefInv, [Next]_vars
    PROVE  RefInv'
  <1>1. Reached' /\ Listed' /\ Counted'
    BY StepReached, StepListed, StepCounted
  <1>2. Greeted' /\ Addressed' /\ Kept'
    BY StepGreeted, StepAddressed, StepKept DEF IInv
  <1>3. IsFiniteSet(Places(got))'
    BY StepPlaces DEF Places
  <1> QED BY <1>1, <1>2, <1>3 DEF RefInv

-----------------------------------------------------------------------------
(* What StoreForward sees.                                                   *)

\* Packet x of topic t lies in one of the slots K of a client.
Holds(ts, K, x, t) ==
    \E k \in K : \E p \in DOMAIN ts[k].tcps : ts[k].tcps[p].n = x /\ ts[k].tcps[p].topic = t

LEMMA HoldsAll ==
    ASSUME NEW ts \in Seq(Slot), NEW K \in SUBSET DOMAIN ts, NEW g \in Nat, NEW h \in Nat,
           h <= g, \A k \in DOMAIN ts : NoneAfter(ts[k].tcps, h), NEW t, NEW x
    PROVE  x \in {n \in 1..g : \E k \in K : \E p \in DOMAIN ts[k].tcps :
                                  ts[k].tcps[p] = [n |-> n, topic |-> t]}
           <=> Holds(ts, K, x, t)
  <1>1. ASSUME NEW k \in K, NEW p \in DOMAIN ts[k].tcps
        PROVE  /\ ts[k].tcps[p] = [n |-> x, topic |-> t]
                  <=> ts[k].tcps[p].n = x /\ ts[k].tcps[p].topic = t
               /\ ts[k].tcps[p].n \in 1..g
    <2>1. ts[k] \in Slot
      OBVIOUS
    <2>2. ts[k].tcps \in Seq(Packet)
      BY <2>1 DEF Slot
    <2>3. ts[k].tcps[p] \in Packet
      BY <2>2
    <2>4. ts[k].tcps[p].n <= h
      BY DEF NoneAfter
    <2> QED BY <2>3, <2>4 DEF Packet, BrokerAssumption
  <1> QED BY <1>1 DEF Holds

LEMMA OwedIs ==
    ASSUME IInv, OrderInv, IInv', OrderInv', NEW c \in ClientId, NEW t, NEW x
    PROVE  /\ x \in OwedOf(c, t) <=> Holds(topics[c], Unsent(c), x, t)
           /\ x \in OwedOf(c, t)' <=> Holds(topics'[c], Unsent(c)', x, t)
  <1>1. /\ topics[c] \in Seq(Slot) /\ Unsent(c) \in SUBSET DOMAIN topics[c]
        /\ sent \in Nat /\ Handled \in Nat /\ Handled <= sent
        /\ \A k \in DOMAIN topics[c] : NoneAfter(topics[c][k].tcps, Handled)
    <2>1. sent \in Nat /\ Len(udpq) \in Nat
      BY DEF IInv, TypeOK, BrokerAssumption
    <2>2. Handled \in Nat /\ Handled <= sent
      BY <2>1 DEF OrderInv, Numbered, Handled
    <2> QED BY <2>1, <2>2 DEF IInv, TypeOK, Unsent, OrderInv, Shelves
  <1>2. /\ topics'[c] \in Seq(Slot) /\ Unsent(c)' \in SUBSET DOMAIN topics'[c]
        /\ sent' \in Nat /\ Handled' \in Nat /\ Handled' <= sent'
        /\ \A k \in DOMAIN topics'[c] : NoneAfter(topics'[c][k].tcps, Handled')
    <2>1. sent' \in Nat /\ Len(udpq') \in Nat
      BY DEF IInv, TypeOK, BrokerAssumption
    <2>2. Handled' \in Nat /\ Handled' <= sent'
      BY <2>1 DEF OrderInv, Numbered, Handled
    <2> QED BY <2>1, <2>2 DEF IInv, TypeOK, Unsent, OrderInv, Shelves
  <1>3. x \in OwedOf(c, t) <=> Holds(topics[c], Unsent(c), x, t)
    BY <1>1, HoldsAll DEF OwedOf
  <1>4. x \in OwedOf(c, t)' <=> Holds(topics'[c], Unsent(c)', x, t)
    BY <1>2, HoldsAll DEF OwedOf
  <1> QED BY <1>3, <1>4

\* A client's slots that stay, with their topics and sf flags.
LEMMA SameSubscriptions ==
    ASSUME NEW c, DOMAIN topics'[c] = DOMAIN topics[c],
           \A k \in DOMAIN topics[c] : /\ topics'[c][k].topic = topics[c][k].topic
                                       /\ topics'[c][k].sf = topics[c][k].sf
    PROVE  Subscriptions(c)' = Subscriptions(c)
  <1>1. Subscribed(c)' = Subscribed(c) /\ Subscribed(c) \subseteq DOMAIN topics[c]
    BY DEF Subscribed
  <1> QED BY <1>1 DEF Subscriptions

LEMMA SameViews ==
    /\ (\A c \in Id : Subscriptions(c)' = Subscriptions(c)) => subs' = subs
    /\ (\A c \in Id : \A t \in Topic : OwedOf(c, t)' = OwedOf(c, t)) => owed' = owed
    /\ got' = got => written' = written
    /\ (\A c \in Id : connected'[c] <=> connected[c]) => present' = present
    /\ (sent' = sent /\ udpq' = udpq) => last' = last
  <1>1. (\A c \in Id : Subscriptions(c)' = Subscriptions(c)) => subs' = subs
    BY DEF subs
  <1>2. (\A c \in Id : \A t \in Topic : OwedOf(c, t)' = OwedOf(c, t)) => owed' = owed
    BY DEF owed
  <1>3. got' = got => written' = written
    BY DEF written, Copies
  <1>4. (\A c \in Id : connected'[c] <=> connected[c]) => present' = present
    BY DEF present
  <1>5. (sent' = sent /\ udpq' = udpq) => last' = last
    BY DEF last
  <1> QED BY <1>1, <1>2, <1>3, <1>4, <1>5

\* Slots as they were, and as much of them still to be sent.
LEMMA SameSlots ==
    ASSUME IInv, OrderInv, IInv', OrderInv', topics' = topics,
           \A c \in Id : Unsent(c)' = Unsent(c)
    PROVE  subs' = subs /\ owed' = owed
  <1>1. \A c \in Id : Subscriptions(c)' = Subscriptions(c)
    BY SameSubscriptions
  <1>2. \A c \in Id : \A t \in Topic : OwedOf(c, t)' = OwedOf(c, t)
    <2> SUFFICES ASSUME NEW c \in Id, NEW t \in Topic PROVE OwedOf(c, t)' = OwedOf(c, t)
      OBVIOUS
    <2>1. c \in ClientId
      BY DEF ClientId
    <2>2. \A x : x \in OwedOf(c, t)' <=> x \in OwedOf(c, t)
      BY <2>1, OwedIs
    <2> QED BY <2>2
  <1> QED BY <1>1, <1>2, SameViews

\* A step that a client does not notice.
LEMMA QuietStore ==
    ASSUME IInv, OrderInv, IInv', OrderInv',
           UNCHANGED <<connected, topics, got>>, last' = last,
           \A c \in Id : Unsent(c)' = Unsent(c)
    PROVE  UNCHANGED Store!promised
  BY SameSlots, SameViews DEF Store!promised

\* Where packet n lies in what has been written over connections of c.
CopiesIn(g, c, n) ==
    UNION {{PlaceOf(s, j) : j \in {i \in DOMAIN g[s] : g[s][i].n = n}} :
           s \in {r \in Session : SessId[r] = c}}

LEMMA CopiesAre ==
    ASSUME NEW c, NEW n
    PROVE  Copies(c, n) = CopiesIn(got, c, n) /\ Copies(c, n)' = CopiesIn(got', c, n)
  BY DEF Copies, CopiesIn, PlaceOf

LEMMA CopiesMember ==
    ASSUME NEW g, NEW c, NEW n, NEW e
    PROVE  e \in CopiesIn(g, c, n) <=>
              \E s \in Session : \E j \in DOMAIN g[s] :
                 SessId[s] = c /\ g[s][j].n = n /\ e = PlaceOf(s, j)
  BY SMT DEF CopiesIn

\* Nothing with that number has been added.
LEMMA SameCopies ==
    ASSUME NEW g, NEW h, NEW c, NEW n,
           \A s \in Session : SessId[s] = c =>
               \A j : j \in DOMAIN h[s] /\ h[s][j].n = n <=> j \in DOMAIN g[s] /\ g[s][j].n = n
    PROVE  CopiesIn(h, c, n) = CopiesIn(g, c, n)
  <1>1. ASSUME NEW e PROVE e \in CopiesIn(h, c, n) <=> e \in CopiesIn(g, c, n)
    BY CopiesMember
  <1> QED BY <1>1

\* One has been added.
LEMMA OneMoreCopy ==
    ASSUME NEW g, NEW h, NEW c, NEW n, IsFiniteSet(Places(g)),
           NEW r \in Session, SessId[r] = c, NEW i, i \notin DOMAIN g[r],
           \A s \in Session : SessId[s] = c =>
               \A j : j \in DOMAIN h[s] /\ h[s][j].n = n <=>
                         \/ j \in DOMAIN g[s] /\ g[s][j].n = n
                         \/ s = r /\ j = i
    PROVE  Cardinality(CopiesIn(h, c, n)) = Cardinality(CopiesIn(g, c, n)) + 1
  <1> DEFINE G == CopiesIn(g, c, n)
             H == CopiesIn(h, c, n)
             x == PlaceOf(r, i)
  <1>1. ASSUME NEW e PROVE e \in H <=> e \in G \/ e = x
    BY CopiesMember
  <1>2. x \notin G
    <2> SUFFICES ASSUME x \in G PROVE FALSE
      OBVIOUS
    <2>1. PICK s \in Session : \E j \in DOMAIN g[s] : x = PlaceOf(s, j)
      BY CopiesMember
    <2>2. PICK j \in DOMAIN g[s] : PlaceOf(r, i) = PlaceOf(s, j)
      BY <2>1
    <2> QED BY <2>2, Tags
  <1>3. G \subseteq Places(g)
    BY CopiesMember, PlacesMember
  <1> HIDE DEF G, H, x
  <1>4. IsFiniteSet(G)
    BY <1>3, FS_Subset
  <1>5. H = G \cup {x}
    BY <1>1
  <1>6. Cardinality(H) = Cardinality(G) + 1
    BY <1>2, <1>4, <1>5, FS_AddElement
  <1> QED BY <1>6 DEF G, H

LEMMA LeastPlace ==
    ASSUME NEW T \in SUBSET Nat, T # {}
    PROVE  \E x \in T : \A y \in T : x <= y
  <1> DEFINE R == {ss \in Nat \X Nat : ss[1] < ss[2]}
  <1>1. IsWellFoundedOn(R, Nat)
    BY NatLessThanWellFounded DEF OpToRel
  <1>2. \A y, x \in Nat : <<y, x>> \in R <=> y < x
    OBVIOUS
  <1>3. PICK x \in T : \A y \in T : <<y, x>> \notin R
    <2> HIDE DEF R
    <2> QED BY <1>1, WFMin
  <1>4. \A y \in T : ~(y < x)
    BY <1>2, <1>3
  <1> QED BY <1>4

\* Who wants a packet is who has a slot at which the scan for its topic stops.
LEMMA WantsIs ==
    ASSUME IInv, NEW c \in Id, NEW t \in Topic
    PROVE  Store!Wants(c, t) <=> \E k \in DOMAIN topics[c] : IsTarget(c, k, t)
  <1> DEFINE hit(j) == /\ topics[c][j].topic = t
                       /\ connected[c] \/ topics[c][j].sf
  <1>1. topics[c] \in Seq(Slot) /\ t # Blank
    BY DEF IInv, TypeOK, ClientId, BrokerAssumption
  <1>2. Store!Wants(c, t) <=> \E k \in DOMAIN topics[c] : hit(k)
    <2>1. DOMAIN subs[c] = Subscribed(c)
          /\ \A k \in Subscribed(c) : /\ subs[c][k].topic = topics[c][k].topic
                                      /\ subs[c][k].sf = topics[c][k].sf
      BY DEF subs, Subscriptions
    <2>2. c \in present <=> connected[c]
      BY DEF present
    <2> QED BY <1>1, <2>1, <2>2 DEF Store!Wants, Subscribed
  <1>3. \A k : IsTarget(c, k, t) <=> /\ k \in DOMAIN topics[c] /\ hit(k)
                                     /\ \A j \in 1..(k - 1) : ~hit(j)
    BY DEF IsTarget
  <1> DEFINE T == {k \in DOMAIN topics[c] : hit(k)}
  <1>4. ASSUME NEW k \in T PROVE \E l \in DOMAIN topics[c] : IsTarget(c, l, t)
    <2>1. DOMAIN topics[c] = 1..Len(topics[c]) /\ Len(topics[c]) \in Nat
      BY <1>1
    <2>2. T \in SUBSET Nat
      BY <2>1
    <2>3. PICK l \in T : \A j \in T : l <= j
      <3> HIDE DEF T
      <3> QED BY <1>4, <2>2, LeastPlace
    <2>4. \A j \in 1..(l - 1) : ~hit(j)
      <3> SUFFICES ASSUME NEW j \in 1..(l - 1), hit(j) PROVE FALSE
        OBVIOUS
      <3>1. j \in T /\ j < l /\ l \in Nat /\ j \in Nat
        BY <2>1
      <3> QED BY <2>3, <3>1
    <2> QED BY <1>3, <2>3, <2>4
  <1> QED BY <1>2, <1>3, <1>4

-----------------------------------------------------------------------------
(* Forward: a datagram is handled.                                           *)

LEMMA ForwardsReceivers ==
    ASSUME IInv, RefInv, NEW m \in Packet, m.topic \in Topic, NEW c \in Id
    PROVE  /\ c \in Receivers(m) <=> c \in present /\ Store!Wants(c, m.topic)
           /\ (\E k \in DOMAIN topics[c] : StoresAt(c, k, m))
              <=> c \notin present /\ Store!Wants(c, m.topic)
  <1>1. c \in ClientId
    BY DEF ClientId
  <1>2. Store!Wants(c, m.topic) <=> \E k \in DOMAIN topics[c] : IsTarget(c, k, m.topic)
    BY WantsIs
  <1>3. Store!Wants(c, m.topic) => c \in Registered
    BY <1>1, <1>2 DEF RefInv, Listed
  <1>4. c \in present <=> connected[c]
    BY DEF present
  <1> QED BY <1>2, <1>3, <1>4 DEF Receivers, StoresAt

\* Every receiver is written one copy, and nobody else anything.
LEMMA ForwardsCopies ==
    ASSUME IInv, NoAlias, RefInv, status = "run", pc = "loop", NEW m \in Packet,
           m.topic \in Topic, send_tcp(m), NEW c \in Id, NEW n
    PROVE  Cardinality(CopiesIn(got', c, n)) =
              IF c \in Receivers(m) /\ n = m.n THEN Cardinality(CopiesIn(got, c, n)) + 1
                                               ELSE Cardinality(CopiesIn(got, c, n))
  <1>1. \A s \in Session : got[s] \in Seq(Packet)
    BY DEF IInv, TypeOK
  <1>2. \A s \in Session : SessId[s] = c =>
            got'[s] = IF c \in Receivers(m) /\ conn[socket[c]] = s THEN Append(got[s], m)
                                                                  ELSE got[s]
    BY SendsOnce
  <1>3. ASSUME NEW q \in Seq(Packet)
        PROVE  /\ m.n # n => \A j : j \in DOMAIN Append(q, m) /\ Append(q, m)[j].n = n
                                      <=> j \in DOMAIN q /\ q[j].n = n
               /\ m.n = n => \A j : j \in DOMAIN Append(q, m) /\ Append(q, m)[j].n = n
                                      <=> \/ j \in DOMAIN q /\ q[j].n = n
                                          \/ j = Len(q) + 1
               /\ Len(q) + 1 \notin DOMAIN q
    <2>1. /\ DOMAIN Append(q, m) = 1..(Len(q) + 1) /\ Append(q, m)[Len(q) + 1] = m
          /\ DOMAIN q = 1..Len(q) /\ Len(q) \in Nat
          /\ \A j \in 1..Len(q) : Append(q, m)[j] = q[j]
      BY AppendProperties
    <2> DEFINE r == Append(q, m)
    <2> HIDE DEF r
    <2>2. \A j : j \in DOMAIN r <=> j \in DOMAIN q \/ j = Len(q) + 1
      BY <2>1 DEF r
    <2> QED BY <2>1, <2>2 DEF r
  <1>4. CASE c \in Receivers(m) /\ n = m.n
    <2> DEFINE r == conn[socket[c]]
    <2>1. r \in Session /\ SessId[r] = c
      BY <1>4, SendsOnce
    <2>2. got'[r] = Append(got[r], m)
      BY <1>2, <1>4, <2>1
    <2>3. \A s \in Session : SessId[s] = c =>
             \A j : j \in DOMAIN got'[s] /\ got'[s][j].n = n <=>
                       \/ j \in DOMAIN got[s] /\ got[s][j].n = n
                       \/ s = r /\ j = Len(got[r]) + 1
      <3> HIDE DEF r
      <3> SUFFICES ASSUME NEW s \in Session, SessId[s] = c
                   PROVE  \A j : j \in DOMAIN got'[s] /\ got'[s][j].n = n <=>
                                    \/ j \in DOMAIN got[s] /\ got[s][j].n = n
                                    \/ s = r /\ j = Len(got[r]) + 1
        OBVIOUS
      <3>1. CASE s = r
        <4>1. got[r] \in Seq(Packet) /\ m.n = n
          BY ONLY <1>1, <1>4, <2>1
        <4>2. \A j : j \in DOMAIN Append(got[r], m) /\ Append(got[r], m)[j].n = n <=>
                        \/ j \in DOMAIN got[r] /\ got[r][j].n = n
                        \/ j = Len(got[r]) + 1
          BY ONLY <1>3, <4>1
        <4> QED BY ONLY <2>2, <3>1, <4>2
      <3>2. CASE s # r
        BY <1>2, <3>2 DEF r
      <3> QED BY <3>1, <3>2
    <2>4. Len(got[r]) + 1 \notin DOMAIN got[r]
      BY <1>1, <1>3, <2>1
    <2>5. IsFiniteSet(Places(got))
      BY DEF RefInv
    <2> HIDE DEF r
    <2>6. Cardinality(CopiesIn(got', c, n)) = Cardinality(CopiesIn(got, c, n)) + 1
      BY <2>1, <2>3, <2>4, <2>5, OneMoreCopy
    <2> QED BY <1>4, <2>6
  <1>5. CASE ~(c \in Receivers(m) /\ n = m.n)
    <2>1. \A s \in Session : SessId[s] = c =>
             \A j : j \in DOMAIN got'[s] /\ got'[s][j].n = n <=>
                       j \in DOMAIN got[s] /\ got[s][j].n = n
      <3> SUFFICES ASSUME NEW s \in Session, SessId[s] = c
                   PROVE  \A j : j \in DOMAIN got'[s] /\ got'[s][j].n = n <=>
                                    j \in DOMAIN got[s] /\ got[s][j].n = n
        OBVIOUS
      <3>1. CASE got'[s] = got[s]
        BY <3>1
      <3>2. CASE got'[s] = Append(got[s], m) /\ m.n # n
        <4>1. got[s] \in Seq(Packet)
          BY <1>1
        <4>2. \A j : j \in DOMAIN Append(got[s], m) /\ Append(got[s], m)[j].n = n <=>
                        j \in DOMAIN got[s] /\ got[s][j].n = n
          BY ONLY <1>3, <3>2, <4>1
        <4> QED BY ONLY <3>2, <4>2
      <3> QED BY <1>2, <1>5, <3>1, <3>2
    <2>2. CopiesIn(got', c, n) = CopiesIn(got, c, n)
      BY <2>1, SameCopies
    <2> QED BY <1>5, <2>2
  <1> QED BY <1>4, <1>5

\* What is kept for others is what was kept, and this packet where it is stored.
LEMMA ForwardsOwed ==
    ASSUME IInv, OrderInv, IInv', OrderInv', RefInv, pc = "loop", pc' = "loop",
           NEW m \in Packet, send_tcp(m), NEW c \in Id, NEW t, NEW x
    PROVE  x \in OwedOf(c, t)' <=>
              \/ x \in OwedOf(c, t)
              \/ x = m.n /\ t = m.topic /\ \E k \in DOMAIN topics[c] : StoresAt(c, k, m)
  <1>1. c \in ClientId /\ topics[c] \in Seq(Slot)
    BY DEF IInv, TypeOK, ClientId
  <1>2. topics'[c] = [k \in DOMAIN topics[c] |->
                        IF StoresAt(c, k, m) THEN Stored(topics[c][k], m) ELSE topics[c][k]]
    BY <1>1 DEF send_tcp
  <1>3. Unsent(c) = DOMAIN topics[c] /\ Unsent(c)' = DOMAIN topics[c]
    BY <1>2 DEF Unsent
  <1>4. ASSUME NEW k \in DOMAIN topics[c]
        PROVE  (\E p \in DOMAIN topics'[c][k].tcps :
                   topics'[c][k].tcps[p].n = x /\ topics'[c][k].tcps[p].topic = t)
               <=> \/ \E p \in DOMAIN topics[c][k].tcps :
                         topics[c][k].tcps[p].n = x /\ topics[c][k].tcps[p].topic = t
                   \/ x = m.n /\ t = m.topic /\ StoresAt(c, k, m)
    <2> DEFINE q == topics[c][k].tcps
               r == Append(q, m)
    <2>1. CASE StoresAt(c, k, m)
      <3>1. topics'[c][k].tcps = r
        <4>1. topics'[c][k] = Stored(topics[c][k], m)
          BY ONLY <1>2, <2>1, k \in DOMAIN topics[c]
        <4>2. Stored(topics[c][k], m).tcps = r
          BY ONLY DEF Stored
        <4> QED BY ONLY <4>1, <4>2
      <3>2. q \in Seq(Packet)
        <4>1. topics[c][k] \in Slot
          BY <1>1
        <4> QED BY <4>1 DEF Slot
      <3>3. /\ DOMAIN r = DOMAIN q \cup {Len(q) + 1} /\ r[Len(q) + 1] = m
            /\ \A p \in DOMAIN q : r[p] = q[p]
        <4>1. /\ DOMAIN r = 1..(Len(q) + 1) /\ DOMAIN q = 1..Len(q) /\ Len(q) \in Nat
              /\ r[Len(q) + 1] = m /\ \A p \in 1..Len(q) : r[p] = q[p]
          BY <3>2, AppendProperties
        <4> HIDE DEF q, r
        <4> QED BY <4>1
      <3> HIDE DEF r
      <3> QED BY <2>1, <3>1, <3>3
    <2>2. CASE ~StoresAt(c, k, m)
      BY <1>2, <2>2
    <2> QED BY <2>1, <2>2
  <1>5. x \in OwedOf(c, t)' <=> Holds(topics'[c], DOMAIN topics[c], x, t)
    BY <1>1, <1>3, OwedIs
  <1>6. x \in OwedOf(c, t) <=> Holds(topics[c], DOMAIN topics[c], x, t)
    BY <1>1, <1>3, OwedIs
  <1> QED BY <1>4, <1>5, <1>6 DEF Holds

LEMMA StepForward ==
    ASSUME IInv, OrderInv, IInv', OrderInv', NoAlias, RefInv, status = "run",
           ReceiveDatagram, ~Dies, Blank \notin PubTopic
    PROVE  [Store!Next]_(Store!promised)
  <1> DEFINE m == udp_to_tcp(Head(udpq))
             t == m.topic
             n == m.n
  <1>1. /\ m \in Packet /\ n = Handled + 1 /\ t \in Topic /\ udpq \in Seq(Datagram)
        /\ udpq # <<>> /\ pc = "loop" /\ Handled \in Nat
    BY NextPacket DEF BrokerAssumption
  <1>2. /\ send_tcp(m) /\ udpq' = Tail(udpq)
        /\ UNCHANGED <<connected, sent, pc>>
    BY DEF ReceiveDatagram, rest
  <1>3. n \in 1..MaxMsgs
    BY <1>1 DEF Packet
  <1> HIDE DEF m
  <1>4. n = last + 1 /\ last' = n
    <2>1. Len(Tail(udpq)) = Len(udpq) - 1 /\ Len(udpq) \in Nat /\ sent \in Nat
      BY <1>1 DEF IInv, TypeOK, BrokerAssumption
    <2> QED BY <1>1, <1>2, <2>1 DEF last, Handled
  <1>5. subs' = subs
    <2>1. ASSUME NEW c \in Id PROVE Subscriptions(c)' = Subscriptions(c)
      <3>1. topics'[c] = [k \in DOMAIN topics[c] |->
               IF StoresAt(c, k, m) THEN Stored(topics[c][k], m) ELSE topics[c][k]]
        BY <1>2 DEF send_tcp, ClientId
      <3>2. \A k \in DOMAIN topics[c] : /\ topics'[c][k].topic = topics[c][k].topic
                                        /\ topics'[c][k].sf = topics[c][k].sf
        BY SMTT(20), <3>1 DEF Stored
      <3> QED BY <3>1, <3>2, SameSubscriptions
    <2> QED BY <2>1, SameViews
  <1>6. present' = present
    BY <1>2, SameViews
  <1>7. written' = [c \in Id |->
                      Store!Written(c, IF c \in present /\ Store!Wants(c, t) THEN {n} ELSE {})]
    <2>1. ASSUME NEW c \in Id, NEW k \in 1..MaxMsgs
          PROVE  Cardinality(Copies(c, k)') =
                    written[c][k] + (IF k \in (IF c \in present /\ Store!Wants(c, t)
                                               THEN {n} ELSE {}) THEN 1 ELSE 0)
      <3>1. written[c][k] = Cardinality(CopiesIn(got, c, k))
        BY CopiesAre DEF written
      <3>2. Cardinality(CopiesIn(got, c, k)) \in Nat
        <4>1. CopiesIn(got, c, k) \subseteq Places(got)
          BY CopiesMember, PlacesMember
        <4> QED BY <4>1, FS_Subset, FS_CardinalityType DEF RefInv
      <3>3. Copies(c, k)' = CopiesIn(got', c, k)
        BY CopiesAre
      <3>4. c \in Receivers(m) <=> c \in present /\ Store!Wants(c, t)
        BY <1>1, ForwardsReceivers
      <3>5. Cardinality(CopiesIn(got', c, k)) =
              IF c \in Receivers(m) /\ k = n THEN Cardinality(CopiesIn(got, c, k)) + 1
                                            ELSE Cardinality(CopiesIn(got, c, k))
        BY <1>1, <1>2, ForwardsCopies
      <3> QED BY <3>1, <3>2, <3>3, <3>4, <3>5
    <2> QED BY <2>1 DEF written, Store!Written
  <1>8. owed' = [c \in Id |->
                   IF c \notin present /\ Store!Wants(c, t)
                   THEN [owed[c] EXCEPT ![t] = @ \cup {n}] ELSE owed[c]]
    <2>1. ASSUME NEW c \in Id, NEW u \in Topic
          PROVE  OwedOf(c, u)' = IF c \notin present /\ Store!Wants(c, t) /\ u = t
                                 THEN OwedOf(c, u) \cup {n} ELSE OwedOf(c, u)
      <3>1. \A x : x \in OwedOf(c, u)' <=>
                      \/ x \in OwedOf(c, u)
                      \/ x = n /\ u = t /\ \E k \in DOMAIN topics[c] : StoresAt(c, k, m)
        BY <1>1, <1>2, ForwardsOwed
      <3>2. (\E k \in DOMAIN topics[c] : StoresAt(c, k, m))
            <=> c \notin present /\ Store!Wants(c, t)
        BY <1>1, ForwardsReceivers
      <3> QED BY <3>1, <3>2
    <2> HIDE DEF n, t
    <2>2. ASSUME NEW c \in Id
          PROVE  [u \in Topic |-> OwedOf(c, u)'] =
                    IF c \notin present /\ Store!Wants(c, t)
                    THEN [owed[c] EXCEPT ![t] = @ \cup {n}] ELSE owed[c]
      <3>1. owed[c] = [u \in Topic |-> OwedOf(c, u)]
        BY DEF owed
      <3> QED BY <2>1, <3>1
    <2> QED BY <2>2 DEF owed
  <1>9. Store!Forward(n, t)
    BY <1>4, <1>5, <1>6, <1>7, <1>8 DEF Store!Forward
  <1> QED BY <1>1, <1>3, <1>9 DEF Store!Next

-----------------------------------------------------------------------------
(* Deliver: a slot is sent to a client that comes back.                      *)

\* From g to h, q has been written over s.
WritesOver(g, h, s, q) ==
    h[s] = g[s] \o q /\ \A r \in Session : r # s => h[r] = g[r]

\* Of packets in ascending order, written over s, each is one copy for its client.
LEMMA DeliversCopies ==
    ASSUME NEW g \in [Session -> Seq(Packet)], IsFiniteSet(Places(g)), NEW s \in Session,
           NEW q \in Seq(Packet), Ascending(q), NEW c, NEW n, NEW h,
           WritesOver(g, h, s, q)
    PROVE  Cardinality(CopiesIn(h, c, n)) =
              IF c = SessId[s] /\ (\E p \in DOMAIN q : q[p].n = n)
              THEN Cardinality(CopiesIn(g, c, n)) + 1 ELSE Cardinality(CopiesIn(g, c, n))
  <1>1. g[s] \in Seq(Packet) /\ h[s] = g[s] \o q /\ \A r \in Session : r # s => h[r] = g[r]
    BY DEF WritesOver
  <1> DEFINE l == Len(g[s])
  <1>2. /\ l \in Nat /\ DOMAIN g[s] = 1..l /\ Len(q) \in Nat /\ DOMAIN q = 1..Len(q)
        /\ DOMAIN h[s] = 1..(l + Len(q))
        /\ \A j \in 1..l : h[s][j] = g[s][j]
        /\ \A p \in 1..Len(q) : h[s][l + p] = q[p]
    <2>1. /\ Len(g[s] \o q) = Len(g[s]) + Len(q) /\ g[s] \o q \in Seq(Packet)
          /\ \A i \in 1..Len(g[s]) + Len(q) :
                (g[s] \o q)[i] = IF i <= Len(g[s]) THEN g[s][i] ELSE q[i - Len(g[s])]
      BY <1>1, ConcatProperties
    <2> DEFINE r == g[s] \o q
    <2> HIDE DEF r
    <2>2. DOMAIN r = 1..(l + Len(q)) /\ h[s] = r
          /\ \A i \in 1..l + Len(q) : r[i] = IF i <= l THEN g[s][i] ELSE q[i - l]
      BY <1>1, <2>1 DEF r
    <2>3. l \in Nat /\ Len(q) \in Nat /\ DOMAIN g[s] = 1..l /\ DOMAIN q = 1..Len(q)
      BY <1>1
    <2> HIDE DEF l
    <2>4. \A p \in 1..Len(q) : l + p \in 1..l + Len(q) /\ ~(l + p <= l) /\ (l + p) - l = p
      BY <2>3
    <2>5. \A p \in 1..Len(q) : r[l + p] = q[p]
      BY <2>2, <2>4
    <2>6. \A j \in 1..l : j \in 1..l + Len(q) /\ j <= l
      BY <2>3
    <2>7. \A j \in 1..l : r[j] = g[s][j]
      BY <2>2, <2>6
    <2> QED BY <2>2, <2>3, <2>5, <2>7
  <1> HIDE DEF l
  <1>3. \A j : j \in DOMAIN h[s] /\ h[s][j].n = n <=>
                  \/ j \in DOMAIN g[s] /\ g[s][j].n = n
                  \/ \E p \in DOMAIN q : q[p].n = n /\ j = l + p
    <2>1. \A j : j \in 1..(l + Len(q)) <=> j \in 1..l \/ \E p \in 1..Len(q) : j = l + p
      <3>1. ASSUME NEW j \in 1..(l + Len(q)), j \notin 1..l
            PROVE  j - l \in 1..Len(q) /\ j = l + (j - l)
        BY <1>2, <3>1
      <3>2. ASSUME NEW p \in 1..Len(q) PROVE l + p \in 1..(l + Len(q))
        BY <1>2
      <3>3. \A j \in 1..l : j \in 1..(l + Len(q))
        BY <1>2
      <3> QED BY <3>1, <3>2, <3>3
    <2> DEFINE u == h[s]
               v == g[s]
    <2>2. /\ \A j : j \in DOMAIN u <=> j \in DOMAIN v \/ \E p \in DOMAIN q : j = l + p
          /\ \A j \in DOMAIN v : u[j] = v[j]
          /\ \A p \in DOMAIN q : u[l + p] = q[p]
      BY <1>2, <2>1
    <2> HIDE DEF u, v
    <2>3. \A j : j \in DOMAIN u /\ u[j].n = n <=>
                    \/ j \in DOMAIN v /\ v[j].n = n
                    \/ \E p \in DOMAIN q : q[p].n = n /\ j = l + p
      BY <2>2
    <2> QED BY <2>3 DEF u, v
  <1>4. CASE c = SessId[s] /\ \E p \in DOMAIN q : q[p].n = n
    <2>1. PICK p \in DOMAIN q : q[p].n = n
      BY <1>4
    <2>2. \A r \in DOMAIN q : q[r].n = n => r = p
      <3>1. \A r \in DOMAIN q : q[r] \in Packet
        OBVIOUS
      <3>2. \A r \in DOMAIN q : q[r].n \in Int /\ r \in Int
        BY <1>2, <3>1 DEF Packet
      <3>3. ASSUME NEW r \in DOMAIN q, q[r].n = q[p].n PROVE r = p
        <4>1. ~(r < p) /\ ~(p < r)
          BY <3>2, <3>3 DEF Ascending
        <4> QED BY <3>2, <4>1
      <3> QED BY <2>1, <3>3
    <2>3. l + p \notin DOMAIN g[s]
      BY <1>2, <2>1
    <2>4. \A r \in Session : SessId[r] = c =>
             \A j : j \in DOMAIN h[r] /\ h[r][j].n = n <=>
                       \/ j \in DOMAIN g[r] /\ g[r][j].n = n
                       \/ r = s /\ j = l + p
      BY <1>1, <1>3, <2>1, <2>2
    <2>5. SessId[s] = c
      BY <1>4
    <2>6. Cardinality(CopiesIn(h, c, n)) = Cardinality(CopiesIn(g, c, n)) + 1
      BY <2>3, <2>4, <2>5, OneMoreCopy
    <2> QED BY <1>4, <2>6
  <1>5. CASE ~(c = SessId[s] /\ \E p \in DOMAIN q : q[p].n = n)
    <2>1. \A r \in Session : SessId[r] = c =>
             \A j : j \in DOMAIN h[r] /\ h[r][j].n = n <=> j \in DOMAIN g[r] /\ g[r][j].n = n
      BY <1>1, <1>3, <1>5
    <2>2. CopiesIn(h, c, n) = CopiesIn(g, c, n)
      BY <2>1, SameCopies
    <2> QED BY <1>5, <2>2
  <1> QED BY <1>4, <1>5

\* What is kept of the topic of the slot that is sent is in that slot.
LEMMA DeliversOwed ==
    ASSUME IInv, OrderInv, IInv', OrderInv', RefInv, pc = "flush", pc' = "flush",
           client' = client, slot' = slot + 1, topics' = topics,
           slot \in DOMAIN topics[client], NEW q, q = topics[client][slot].tcps,
           NEW c \in Id, NEW t \in Topic, NEW x
    PROVE  /\ x \in OwedOf(c, t)' <=>
                 x \in OwedOf(c, t)
                 /\ ~(q # <<>> /\ c = client /\ t = topics[client][slot].topic)
           /\ q # <<>> /\ c = client /\ t = topics[client][slot].topic =>
                 (x \in OwedOf(c, t) <=> \E p \in DOMAIN q : q[p].n = x)
  <1>1. c \in ClientId /\ client \in ClientId /\ t # Blank
        /\ topics[client] \in Seq(Slot) /\ slot \in Nat
    BY DEF IInv, TypeOK, ClientId, BrokerAssumption
  <1>2. /\ x \in OwedOf(c, t) <=> Holds(topics[c], Unsent(c), x, t)
        /\ x \in OwedOf(c, t)' <=> Holds(topics[c], Unsent(c)', x, t)
    BY <1>1, OwedIs
  <1>3. CASE c # client
    <2>1. Unsent(c)' = Unsent(c)
      BY <1>3 DEF Unsent
    <2> QED BY <1>2, <1>3, <2>1
  <1>4. CASE c = client
    <2> DEFINE ts == topics[client]
               sl == ts[slot]
    <2>1. \A k \in DOMAIN ts : /\ k \in Unsent(c) <=> slot <= k
                               /\ k \in Unsent(c)' <=> slot + 1 <= k
                               /\ k \in Nat
      BY <1>1, <1>4 DEF Unsent
    <2>2. Unsent(c) \subseteq DOMAIN ts /\ Unsent(c)' \subseteq DOMAIN ts
      BY <1>4 DEF Unsent
    <2>3. \A k : k \in Unsent(c) <=> k = slot \/ k \in Unsent(c)'
      BY <1>1, <2>1, <2>2
    <2>4. KeepsOwn(sl) /\ Foremost(ts)
      BY <1>1 DEF RefInv, Kept, OrderInv, Shelves
    <2>5. q \in Seq(Packet)
      <3>1. sl \in Slot
        BY <1>1
      <3> QED BY <3>1 DEF Slot
    <2> DEFINE here == \E p \in DOMAIN q : q[p].n = x /\ q[p].topic = t
               later == Holds(ts, Unsent(c)', x, t)
    <2>6. /\ x \in OwedOf(c, t)' <=> later
          /\ x \in OwedOf(c, t) <=> here \/ later
      BY <1>2, <1>4, <2>3 DEF Holds
    <2>7. here => q # <<>> /\ t = sl.topic
      BY <2>4, <2>5 DEF KeepsOwn
    <2>8. q # <<>> /\ t = sl.topic => ~later /\ (here <=> \E p \in DOMAIN q : q[p].n = x)
      <3> SUFFICES ASSUME q # <<>>, t = sl.topic
                   PROVE  ~later /\ (here <=> \E p \in DOMAIN q : q[p].n = x)
        OBVIOUS
      <3>1. 1 \in DOMAIN q
        BY <2>5
      <3>2. sl.sf /\ \A p \in DOMAIN q : q[p].topic = t
        BY <2>4, <3>1 DEF KeepsOwn
      <3>3. ~later
        BY <1>1, <2>1, <2>2, <2>4, <3>2 DEF Holds, Foremost
      <3> QED BY <3>2, <3>3
    <2> HIDE DEF here, later
    <2> QED BY <1>4, <2>6, <2>7, <2>8
  <1> QED BY <1>3, <1>4

LEMMA StepDeliver ==
    ASSUME IInv, OrderInv, IInv', OrderInv', NoAlias, RefInv, status = "run", FlushSlot,
           Blank \notin PubTopic
    PROVE  [Store!Next]_(Store!promised)
  <1> DEFINE s == conn[newtcp_socket]
             sl == topics[client][slot]
             q == sl.tcps
             t == sl.topic
  <1>1. /\ s \in Session /\ client \in ClientId /\ slot \in DOMAIN topics[client]
        /\ pc = "flush" /\ pc' = "flush" /\ topics[client] \in Seq(Slot)
    BY DEF FlushSlot, IInv, Round, OpenFd, TypeOK
  <1>2. UNCHANGED <<topics, connected, client, sent, udpq>>
    BY DEF FlushSlot, heap, rest
  <1>3. client \in Id
    BY <1>1 DEF RefInv, Listed, ClientId
  <1>4. SessId[s] = client /\ ~connected[client]
    BY <1>3 DEF RefInv, Reached, Owns, FlushSlot, IInv, Served, Flushing, BrokerAssumption
  <1>5. sl \in Slot /\ q \in Seq(Packet) /\ KeepsOwn(sl)
    <2>1. sl \in Slot
      BY <1>1
    <2> QED BY <1>1, <2>1 DEF RefInv, Kept, Slot
  <1>6. got \in [Session -> Seq(Packet)] /\ IsFiniteSet(Places(got))
    BY DEF IInv, TypeOK, RefInv
  <1>7. last' = last /\ present' = present /\ subs' = subs
    <2>1. \A c \in Id : Subscriptions(c)' = Subscriptions(c)
      BY <1>2, SameSubscriptions
    <2> QED BY <1>2, <2>1, SameViews
  <1>8. CASE UNCHANGED <<got, slot>>
    <2>1. \A c \in Id : Unsent(c)' = Unsent(c)
      BY <1>1, <1>2, <1>8 DEF Unsent
    <2> QED BY <1>2, <1>7, <1>8, <2>1, QuietStore
  <1>9. CASE got' = [got EXCEPT ![s] = @ \o q] /\ slot' = slot + 1
    <2>1. \A c \in Id, u \in Topic : \A x :
             /\ x \in OwedOf(c, u)' <=> x \in OwedOf(c, u) /\ ~(q # <<>> /\ c = client /\ u = t)
             /\ q # <<>> /\ c = client /\ u = t =>
                   (x \in OwedOf(c, u) <=> \E p \in DOMAIN q : q[p].n = x)
      BY <1>1, <1>2, <1>9, DeliversOwed
    <2>2. CASE q = <<>>
      <3>1. owed' = owed
        <4>1. ASSUME NEW c \in Id, NEW u \in Topic PROVE OwedOf(c, u)' = OwedOf(c, u)
          <5>1. \A x : x \in OwedOf(c, u)' <=> x \in OwedOf(c, u)
            BY ONLY <2>1, <2>2, c \in Id, u \in Topic
          <5> QED BY ONLY <5>1
        <4> QED BY <4>1, SameViews
      <3>2. got' = got
        <4>1. got[s] \o q = got[s]
          <5>1. got[s] \in Seq(Packet)
            BY ONLY <1>1, <1>6
          <5> HIDE DEF q
          <5> QED BY ONLY <2>2, <5>1, ConcatEmptySeq
        <4> QED BY <1>1, <1>6, <1>9, <4>1
      <3>3. written' = written
        BY <3>2, SameViews
      <3> QED BY <1>7, <3>1, <3>3 DEF Store!promised
    <2>3. CASE q # <<>>
      <3>1. 1 \in DOMAIN q
        BY <1>5, <2>3
      <3>2. t \in Topic
        <4>1. t \in PubTopic /\ t = q[1].topic
          BY <1>5, <3>1 DEF KeepsOwn
        <4> QED BY <4>1 DEF BrokerAssumption
      <3>3. owed[client][t] = PacketsIn(sl) /\ owed[client][t] # {}
        <4>1. \A x : x \in OwedOf(client, t) <=> x \in PacketsIn(sl)
          BY <1>3, <2>1, <2>3, <3>2 DEF PacketsIn
        <4>2. q[1].n \in PacketsIn(sl)
          BY <3>1 DEF PacketsIn
        <4> QED BY <1>3, <3>2, <4>1, <4>2 DEF owed
      <3>4. owed' = [owed EXCEPT ![client][t] = {}]
        <4>1. ASSUME NEW c \in Id, NEW u \in Topic
              PROVE  OwedOf(c, u)' = IF c = client /\ u = t THEN {} ELSE OwedOf(c, u)
          <5>1. CASE c = client /\ u = t
            <6>1. \A x : x \notin OwedOf(c, u)'
              BY <2>1, <2>3, <5>1
            <6> QED BY <5>1, <6>1
          <5>2. CASE ~(c = client /\ u = t)
            <6>1. \A x : x \in OwedOf(c, u)' <=> x \in OwedOf(c, u)
              BY <2>1, <5>2
            <6> QED BY <5>2, <6>1
          <5> QED BY <5>1, <5>2
        <4> HIDE DEF t
        <4>2. owed' = [c \in Id |-> [u \in Topic |->
                          IF c = client /\ u = t THEN {} ELSE OwedOf(c, u)]]
          BY <4>1 DEF owed
        <4> QED BY <1>3, <3>2, <4>2 DEF owed
      <3>5. written' = [written EXCEPT ![client] = Store!Written(client, owed[client][t])]
        <4>1. ASSUME NEW c \in Id, NEW n \in 1..MaxMsgs
              PROVE  Cardinality(Copies(c, n)') =
                       IF c = client
                       THEN written[c][n] + (IF n \in PacketsIn(sl) THEN 1 ELSE 0)
                       ELSE written[c][n]
          <5>1. /\ written[c][n] = Cardinality(CopiesIn(got, c, n))
                /\ Copies(c, n)' = CopiesIn(got', c, n)
            BY CopiesAre DEF written
          <5>2. Cardinality(CopiesIn(got, c, n)) \in Nat
            <6>1. CopiesIn(got, c, n) \subseteq Places(got)
              BY CopiesMember, PlacesMember
            <6> QED BY <1>6, <6>1, FS_Subset, FS_CardinalityType
          <5>3. WritesOver(got, got', s, q)
            BY <1>1, <1>6, <1>9 DEF WritesOver
          <5>4. n \in PacketsIn(sl) <=> \E p \in DOMAIN q : q[p].n = n
            BY DEF PacketsIn
          <5> HIDE DEF s, sl, q
          <5>5. Ascending(q)
            BY <1>5 DEF KeepsOwn, q
          <5>6. Cardinality(CopiesIn(got', c, n)) =
                  IF c = SessId[s] /\ (\E p \in DOMAIN q : q[p].n = n)
                  THEN Cardinality(CopiesIn(got, c, n)) + 1
                  ELSE Cardinality(CopiesIn(got, c, n))
            <6>1. s \in Session /\ q \in Seq(Packet) /\ got \in [Session -> Seq(Packet)]
                  /\ IsFiniteSet(Places(got))
              BY <1>1, <1>5, <1>6
            <6> QED BY ONLY SMTT(20), <6>1, <5>3, <5>5, DeliversCopies
          <5> QED BY <1>4, <5>1, <5>2, <5>4, <5>6
        <4> HIDE DEF s, sl, q, t
        <4>2. ASSUME NEW c \in Id
              PROVE  [n \in 1..MaxMsgs |-> Cardinality(Copies(c, n)')] =
                        IF c = client THEN Store!Written(client, owed[client][t])
                                      ELSE written[c]
          <5>1. written[c] = [n \in 1..MaxMsgs |-> written[c][n]]
            BY DEF written
          <5> QED BY <3>3, <4>1, <5>1 DEF Store!Written
        <4>3. written' = [c \in Id |-> [n \in 1..MaxMsgs |-> Cardinality(Copies(c, n)')]]
          BY DEF written
        <4>4. DOMAIN written = Id /\ written = [c \in Id |-> written[c]]
          BY DEF written
        <4> QED BY <4>2, <4>3, <4>4
      <3>6. client \notin present
        BY <1>4 DEF present
      <3>7. Store!Deliver(client, t)
        <4> HIDE DEF t
        <4> QED BY <1>7, <3>3, <3>4, <3>5, <3>6 DEF Store!Deliver
      <3> QED BY <1>3, <3>2, <3>7 DEF Store!Next
    <2> QED BY <2>2, <2>3
  <1> QED BY <1>8, <1>9 DEF FlushSlot

-----------------------------------------------------------------------------
(* Come and Go.                                                              *)

\* Nothing is kept for a client any more, or nothing else than before.
LEMMA OwedStays ==
    ASSUME IInv, OrderInv, IInv', OrderInv', NEW c \in Id,
           \A t, x : Holds(topics'[c], Unsent(c)', x, t) <=> Holds(topics[c], Unsent(c), x, t)
    PROVE  \A t \in Topic : OwedOf(c, t)' = OwedOf(c, t)
  <1> SUFFICES ASSUME NEW t \in Topic PROVE OwedOf(c, t)' = OwedOf(c, t)
    OBVIOUS
  <1>1. c \in ClientId
    BY DEF ClientId
  <1>2. \A x : x \in OwedOf(c, t)' <=> x \in OwedOf(c, t)
    BY <1>1, OwedIs
  <1> QED BY <1>2

\* Who is there has nothing kept for it; nor has who comes back when all is sent.
LEMMA OwedNothing ==
    ASSUME IInv, OrderInv, IInv', OrderInv', NEW c \in Id,
           \A k \in Unsent(c) : topics[c][k].tcps = <<>>
    PROVE  \A t \in Topic : owed[c][t] = {} /\ \A x : ~Holds(topics[c], Unsent(c), x, t)
  <1> SUFFICES ASSUME NEW t \in Topic
               PROVE  owed[c][t] = {} /\ \A x : ~Holds(topics[c], Unsent(c), x, t)
    OBVIOUS
  <1>1. c \in ClientId
    BY DEF ClientId
  <1>2. \A x : ~Holds(topics[c], Unsent(c), x, t)
    BY DEF Holds
  <1>3. \A x : x \notin OwedOf(c, t)
    BY <1>1, <1>2, OwedIs
  <1>4. owed[c][t] = OwedOf(c, t)
    BY DEF owed
  <1> QED BY <1>2, <1>3, <1>4

LEMMA EndReconnectComes ==
    ASSUME IInv, OrderInv, IInv', OrderInv', RefInv, status = "run", EndReconnect
    PROVE  [Store!Next]_(Store!promised)
  <1>1. /\ client \in ClientId /\ client \in Registered /\ ~connected[client]
        /\ slot \in Nat /\ slot >= 1 /\ slot \notin DOMAIN topics[client]
        /\ pc = "flush" /\ pc' = "loop"
    BY DEF EndReconnect, IInv, TypeOK, Served, Flushing, RefInv, Reached
  <1>2. topics \in [ClientId -> Seq(Slot)] /\ connected \in [ClientId -> BOOLEAN]
    BY DEF IInv, TypeOK
  <1>3. /\ topics' = [topics EXCEPT ![client] = [k \in DOMAIN @ |-> Emptied(@[k])]]
        /\ connected' = [connected EXCEPT ![client] = TRUE]
        /\ UNCHANGED <<got, sent, udpq>>
    BY DEF EndReconnect, rest
  <1>4. last' = last /\ written' = written
    BY <1>3, SameViews
  <1>5. subs' = subs
    <2>1. ASSUME NEW c \in Id PROVE Subscriptions(c)' = Subscriptions(c)
      <3>1. c \in ClientId
        BY DEF ClientId
      <3> QED BY <1>2, <1>3, <3>1, SameSubscriptions DEF Emptied
    <2> QED BY <2>1, SameViews
  <1>6. Unsent(client) = {}
    <2>1. DOMAIN topics[client] = 1..Len(topics[client]) /\ Len(topics[client]) \in Nat
      BY <1>1, <1>2
    <2> QED BY <1>1, <2>1 DEF Unsent
  <1>7. owed' = owed
    <2>1. ASSUME NEW c \in Id
          PROVE  \A t, x : Holds(topics'[c], Unsent(c)', x, t) <=> Holds(topics[c], Unsent(c), x, t)
      <3>0. c \in ClientId
        BY DEF ClientId
      <3>1. CASE c = client
        <4>1. Unsent(c)' \subseteq DOMAIN topics'[c]
          BY DEF Unsent
        <4>2. \A k \in DOMAIN topics'[c] : topics'[c][k].tcps = <<>>
          BY <1>2, <1>3, <3>0, <3>1 DEF Emptied
        <4> QED BY <1>6, <3>1, <4>1, <4>2 DEF Holds
      <3>2. CASE c # client
        <4>1. topics'[c] = topics[c]
          BY <1>2, <1>3, <3>0, <3>2
        <4>2. Unsent(c)' = Unsent(c)
          BY <1>1, <3>2, <4>1 DEF Unsent
        <4> QED BY <4>1, <4>2
      <3> QED BY <3>1, <3>2
    <2>2. \A c \in Id : \A t \in Topic : OwedOf(c, t)' = OwedOf(c, t)
      BY <2>1, OwedStays
    <2> QED BY <2>2, SameViews
  <1>8. CASE client \in Id
    <2>1. \A t \in Topic : owed[client][t] = {}
      BY <1>6, <1>8, OwedNothing
    <2>2. present' = present \cup {client} /\ client \notin present
      BY <1>1, <1>2, <1>3, <1>8 DEF present, ClientId
    <2>3. Store!Come(client)
      BY <1>4, <1>5, <1>7, <2>1, <2>2 DEF Store!Come
    <2> QED BY <1>8, <2>3 DEF Store!Next
  <1>9. CASE client \notin Id
    <2>1. present' = present
      BY <1>1, <1>2, <1>3, <1>9 DEF present, ClientId
    <2> QED BY <1>4, <1>5, <1>7, <2>1 DEF Store!promised
  <1> QED BY <1>8, <1>9

LEMMA RecvIdComes ==
    ASSUME IInv, OrderInv, IInv', OrderInv', RefInv, status = "run", RecvId
    PROVE  [Store!Next]_(Store!promised)
  <1> DEFINE f  == newtcp_socket
             s  == conn[f]
             id == IF up[s] = <<>> THEN NoId ELSE SessId[s]
  <1>1. id \in ClientId /\ pc = "recvid" /\ UNCHANGED <<got, sent, udpq>>
    BY DEF RecvId, IInv, Round, OpenFd, TypeOK, ClientId, BrokerAssumption
  <1>2. topics \in [ClientId -> Seq(Slot)] /\ connected \in [ClientId -> BOOLEAN]
    BY DEF IInv, TypeOK
  <1>3. last' = last /\ written' = written
    BY <1>1, SameViews
  <1> HIDE DEF id
  <1>4. CASE id \notin Registered /\ add_new_client(id, f) /\ pc' = "loop"
    <2>1. topics' = topics
      <3>1. topics[id] = <<>>
        <4>1. DOMAIN topics[id] = {} /\ topics[id] \in Seq(Slot)
          BY <1>1, <1>2, <1>4 DEF RefInv, Listed
        <4>2. \A q \in Seq(Slot) : q # <<>> => 1 \in DOMAIN q
          OBVIOUS
        <4> QED BY <4>1, <4>2
      <3> QED BY <1>1, <1>2, <1>4, <3>1 DEF add_new_client
    <2>2. \A c \in Id : Unsent(c)' = Unsent(c)
      BY <1>1, <1>4, <2>1 DEF Unsent
    <2>3. subs' = subs /\ owed' = owed
      BY <2>1, <2>2, SameSlots
    <2>4. ~connected[id] /\ connected' = [connected EXCEPT ![id] = TRUE]
      BY <1>1, <1>4 DEF IInv, Served, EmptyHanded, add_new_client
    <2>5. CASE id \in Id
      <3>1. Unsent(id) = {}
        BY <1>1, <1>4 DEF RefInv, Listed, Unsent
      <3>2. \A t \in Topic : owed[id][t] = {}
        BY <2>5, <3>1, OwedNothing
      <3>3. present' = present \cup {id} /\ id \notin present
        BY <1>1, <1>2, <2>4, <2>5 DEF present, ClientId
      <3>4. Store!Come(id)
        BY <1>3, <2>3, <3>2, <3>3 DEF Store!Come
      <3> QED BY <2>5, <3>4 DEF Store!Next
    <2>6. CASE id \notin Id
      <3>1. present' = present
        BY <1>1, <1>2, <2>4, <2>6 DEF present, ClientId
      <3> QED BY <1>3, <2>3, <3>1 DEF Store!promised
    <2> QED BY <2>5, <2>6
  <1>5. CASE UNCHANGED <<connected, topics>> /\ (pc' = "loop" \/ (pc' = "flush" /\ slot' = 1))
    <2>1. \A c \in Id : \A k \in DOMAIN topics[c] : 1 <= k
      BY <1>2 DEF ClientId
    <2>2. \A c \in Id : Unsent(c)' = Unsent(c)
      BY <1>1, <1>5, <2>1 DEF Unsent
    <2> QED BY <1>1, <1>3, <1>5, <2>2, QuietStore
  <1> QED BY <1>4, <1>5 DEF RecvId, id, begin_reconnect

LEMMA StepGo ==
    ASSUME IInv, OrderInv, IInv', OrderInv', NoAlias, RefInv, status = "run",
           NEW i \in ClientFd, ReceiveEnd(i), ~Dies
    PROVE  [Store!Next]_(Store!promised)
  <1>1. /\ Turn(i) /\ pc = "loop" /\ pc' = "loop" /\ disconnect_subscriber(i)
        /\ UNCHANGED <<got, sent, udpq>>
    BY DEF ReceiveEnd, Turn, rest
  <1>2. PICK c \in Registered :
           connected[c] /\ c \in ClientId /\ \A d : IsOwner(d, i) <=> d = c
    BY <1>1, Subscriber
  <1>3. topics \in [ClientId -> Seq(Slot)] /\ connected \in [ClientId -> BOOLEAN]
    BY DEF IInv, TypeOK
  <1>4. ASSUME NEW d \in Id
        PROVE  /\ DOMAIN topics'[d] = DOMAIN topics[d]
               /\ \A k \in DOMAIN topics[d] :
                     /\ topics'[d][k].topic = topics[d][k].topic
                     /\ topics'[d][k].sf = topics[d][k].sf
                     /\ topics'[d][k].tcps = topics[d][k].tcps
    <2>1. d \in ClientId /\ topics[d] \in Seq(Slot)
      BY <1>3 DEF ClientId
    <2>2. topics'[d] = [k \in DOMAIN topics[d] |->
                          IF d = c THEN Shelved(topics[d][k]) ELSE topics[d][k]]
      BY <1>1, <1>2, <2>1 DEF disconnect_subscriber
    <2>3. ASSUME NEW k \in DOMAIN topics[d], d = c
          PROVE  /\ Shelved(topics[d][k]).topic = topics[d][k].topic
                 /\ Shelved(topics[d][k]).sf = topics[d][k].sf
                 /\ Shelved(topics[d][k]).tcps = topics[d][k].tcps
      <3>1. topics[d][k] \in Slot
        BY <2>1
      <3>2. topics[d][k].sf \in BOOLEAN
        BY <3>1 DEF Slot
      <3>3. topics[d][k].tcps = <<>>
        BY <1>2, <2>1, <2>3 DEF IInv, Served, EmptyHanded
      <3> QED BY <3>2, <3>3 DEF Shelved
    <2> QED BY <2>2, <2>3
  <1>5. last' = last /\ written' = written
    BY <1>1, SameViews
  <1>6. subs' = subs
    <2>1. \A d \in Id : Subscriptions(d)' = Subscriptions(d)
      BY <1>4, SameSubscriptions
    <2> QED BY <2>1, SameViews
  <1>7. owed' = owed
    <2>1. ASSUME NEW d \in Id
          PROVE  \A t, x : Holds(topics'[d], Unsent(d)', x, t) <=> Holds(topics[d], Unsent(d), x, t)
      <3>1. Unsent(d)' = DOMAIN topics[d] /\ Unsent(d) = DOMAIN topics[d]
        BY <1>1, <1>4 DEF Unsent
      <3> QED BY <1>4, <3>1 DEF Holds
    <2>2. \A d \in Id : \A t \in Topic : OwedOf(d, t)' = OwedOf(d, t)
      BY <2>1, OwedStays
    <2> QED BY <2>2, SameViews
  <1>8. \A d \in Id : connected'[d] <=> connected[d] /\ d # c
    BY <1>1, <1>2 DEF disconnect_subscriber, ClientId
  <1>9. CASE c \in Id
    <2>1. present' = present \ {c} /\ c \in present
      BY <1>2, <1>8, <1>9 DEF present
    <2>2. Store!Go(c)
      BY <1>5, <1>6, <1>7, <2>1 DEF Store!Go
    <2> QED BY <1>9, <2>2 DEF Store!Next
  <1>10. CASE c \notin Id
    <2>1. present' = present
      BY <1>8, <1>10, SameViews
    <2> QED BY <1>5, <1>6, <1>7, <2>1 DEF Store!promised
  <1> QED BY <1>9, <1>10

-----------------------------------------------------------------------------
(* Subscribe and Unsubscribe.                                                *)

LEMMA StepAsk ==
    ASSUME IInv, OrderInv, IInv', OrderInv', NoAlias, RefInv, RefInv', status = "run",
           NEW i \in ClientFd, ReceiveAction(i)
    PROVE  [Store!Next]_(Store!promised)
  <1> DEFINE a == Head(up[conn[i]])
  <1>1. /\ Turn(i) /\ pc = "loop" /\ pc' = "loop" /\ up[conn[i]] # <<>>
        /\ subscribe_to_topic(a, i) \/ unsubscribe(a, i)
        /\ UNCHANGED <<clients, connected, socket, got, sent, udpq>>
    BY DEF ReceiveAction, Turn
  <1>2. PICK c \in Registered : /\ connected[c] /\ c \in Id
                                /\ \A d : IsOwner(d, i) <=> d = c
                                /\ socket[c] = i
                                /\ \A d \in Registered : socket[d] = i => d = c
    BY <1>1, Subscriber
  <1>3. /\ topics \in [ClientId -> Seq(Slot)] /\ topics' \in [ClientId -> Seq(Slot)]
        /\ c \in ClientId /\ Id \subseteq ClientId
    BY <1>2 DEF IInv, TypeOK, ClientId
  <1>4. a \in Action
    <2>1. conn[i] \in Session /\ i \in OpenFd /\ newtcp_socket = NoFd /\ i # NoFd
      BY <1>1, Subscriber DEF NoFd, ClientFd
    <2>2. up[conn[i]] \in Seq(Action \cup {Hello})
      BY <2>1 DEF IInv, TypeOK
    <2>3. 1 \in DOMAIN up[conn[i]] /\ a = up[conn[i]][1] /\ a \in Action \cup {Hello}
      BY <1>1, <2>2
    <2>4. a # Hello
      BY <2>1, <2>3 DEF RefInv, Greeted
    <2> QED BY <2>3, <2>4
  <1>5. a.topic \in Topic /\ a.topic # Blank /\ a.sf \in BOOLEAN
    BY <1>4 DEF Action, BrokerAssumption
  <1>6. last' = last /\ written' = written /\ present' = present
    BY <1>1, SameViews
  <1>7. c \in present
    BY <1>2 DEF present
  <1>8. \A d \in Id : Unsent(d) = DOMAIN topics[d] /\ Unsent(d)' = DOMAIN topics'[d]
    BY <1>1 DEF Unsent
  <1> HIDE DEF a
  <1>9. CASE subscribe_to_topic(a, i)
    <2> DEFINE ts == topics[c]
               k  == Len(ts) + 1
               s  == [topic |-> a.topic, sf |-> a.sf]
    <2>1. topics'[c] = Append(ts, new_topic(a)) /\ \A d \in Id : d # c => topics'[d] = topics[d]
      BY <1>2, <1>3, <1>9 DEF subscribe_to_topic
    <2>2. /\ DOMAIN topics'[c] = 1..k /\ DOMAIN ts = 1..(k - 1) /\ k \in Nat \ {0}
          /\ topics'[c][k] = new_topic(a) /\ \A j \in 1..(k - 1) : topics'[c][j] = ts[j]
      <3>1. ts \in Seq(Slot) /\ new_topic(a) \in Slot
        <4>1. new_topic(a) \in Slot
          BY <1>5 DEF new_topic, Slot, TopicName
        <4> QED BY <1>3, <4>1
      <3> HIDE DEF ts
      <3> QED BY <2>1, <3>1, AppendProperties
    <2> HIDE DEF k
    <2>3. DOMAIN topics'[c] = DOMAIN ts \cup {k} /\ k \notin DOMAIN ts
      BY <2>2
    <2>4. owed' = owed
      <3>1. ASSUME NEW d \in Id
            PROVE  \A t, x : Holds(topics'[d], Unsent(d)', x, t) <=> Holds(topics[d], Unsent(d), x, t)
        <4>1. CASE d = c
          <5>1. topics'[c][k].tcps = <<>>
            BY <2>2 DEF new_topic
          <5> QED BY <1>8, <2>2, <2>3, <4>1, <5>1 DEF Holds
        <4>2. CASE d # c
          BY <1>8, <2>1, <4>2
        <4> QED BY <4>1, <4>2
      <3>2. \A d \in Id : \A t \in Topic : OwedOf(d, t)' = OwedOf(d, t)
        BY <3>1, OwedStays
      <3> QED BY <3>2, SameViews
    <2>5. Subscribed(c)' = Subscribed(c) \cup {k} /\ k \notin Subscribed(c)
      BY <1>5, <2>2, <2>3 DEF Subscribed, new_topic
    <2>6. subs' = [subs EXCEPT ![c] = [j \in DOMAIN subs[c] \cup {k} |->
                                          IF j = k THEN s ELSE subs[c][j]]]
      <3>1. ASSUME NEW d \in Id, d # c PROVE Subscriptions(d)' = Subscriptions(d)
        BY <2>1, <3>1, SameSubscriptions
      <3>2. Subscriptions(c)' = [j \in Subscribed(c) \cup {k} |->
                                    IF j = k THEN s ELSE Subscriptions(c)[j]]
        <4>1. topics'[c][k].topic = a.topic /\ topics'[c][k].sf = a.sf
          BY <2>2 DEF new_topic
        <4>2. Subscriptions(c)' = [j \in Subscribed(c) \cup {k} |->
                 [topic |-> topics'[c][j].topic, sf |-> topics'[c][j].sf]]
          BY <2>5 DEF Subscriptions
        <4>3. \A j \in Subscribed(c) : topics'[c][j] = ts[j] /\ j # k
          BY <2>2, <2>3 DEF Subscribed
        <4> QED BY <4>1, <4>2, <4>3 DEF Subscriptions
      <3>3. subs[c] = Subscriptions(c) /\ DOMAIN subs[c] = Subscribed(c)
        BY <1>2 DEF subs, Subscriptions
      <3> HIDE DEF s
      <3> QED BY <1>2, <3>1, <3>2, <3>3 DEF subs
    <2>7. k \in 1..MaxActions
      <3>1. /\ IsFiniteSet(Asked(topics', up')) /\ Cardinality(Asked(topics', up')) <= acts'
            /\ acts' <= MaxActions /\ acts' \in Nat
        BY DEF RefInv, Counted, IInv, TypeOK
      <3>2. k <= Cardinality(Asked(topics', up'))
        BY <1>3, <2>2, <3>1, SlotsCounted
      <3>3. Cardinality(Asked(topics', up')) \in Nat
        BY <3>1, FS_CardinalityType
      <3> QED BY <2>2, <3>1, <3>2, <3>3
    <2>8. s \in Store!Subscription
      BY <1>5 DEF Store!Subscription
    <2>9. k \notin DOMAIN subs[c]
      BY <1>2, <2>5 DEF subs, Subscriptions
    <2> HIDE DEF s
    <2>10. Store!Subscribe(c, k, s)
      BY <1>6, <1>7, <2>4, <2>6, <2>9 DEF Store!Subscribe
    <2> QED BY <1>2, <2>7, <2>8, <2>10 DEF Store!Next
  <1>10. CASE unsubscribe(a, i)
    <2>1. ASSUME NEW d \in Id
          PROVE  topics'[d] = [j \in DOMAIN topics[d] |->
                    IF IsUnsubscribed(d, j, a.topic, i)
                    THEN [topics[d][j] EXCEPT !.topic = Blank] ELSE topics[d][j]]
      BY <1>3, <1>10 DEF unsubscribe
    <2>2. ASSUME NEW d \in Id, NEW j \in DOMAIN topics[d]
          PROVE  /\ j \in DOMAIN topics'[d] /\ DOMAIN topics'[d] = DOMAIN topics[d]
                 /\ topics'[d][j].tcps = topics[d][j].tcps
                 /\ topics'[d][j].sf = topics[d][j].sf
                 /\ topics'[d][j].topic = IF IsUnsubscribed(d, j, a.topic, i)
                                          THEN Blank ELSE topics[d][j].topic
      <3>1. topics[d] \in Seq(Slot)
        BY <1>3
      <3>2. topics[d][j] \in Slot
        BY <3>1
      <3>3. /\ [topics[d][j] EXCEPT !.topic = Blank].tcps = topics[d][j].tcps
            /\ [topics[d][j] EXCEPT !.topic = Blank].sf = topics[d][j].sf
            /\ [topics[d][j] EXCEPT !.topic = Blank].topic = Blank
        BY <3>2 DEF Slot
      <3> QED BY <2>1, <3>3
    <2>3. owed' = owed
      <3>1. ASSUME NEW d \in Id
            PROVE  \A t, x : Holds(topics'[d], Unsent(d)', x, t) <=> Holds(topics[d], Unsent(d), x, t)
        <4>1. ASSUME NEW j \in DOMAIN topics[d] PROVE topics'[d][j].tcps = topics[d][j].tcps
          BY <2>2
        <4>2. DOMAIN topics'[d] = DOMAIN topics[d]
          BY <2>1
        <4> QED BY <1>8, <4>1, <4>2 DEF Holds
      <3>2. \A d \in Id : \A t \in Topic : OwedOf(d, t)' = OwedOf(d, t)
        BY <3>1, OwedStays
      <3> QED BY <3>2, SameViews
    <2>4. ASSUME NEW d \in Id, d # c PROVE Subscriptions(d)' = Subscriptions(d)
      <3>1. \A j : ~IsUnsubscribed(d, j, a.topic, i)
        BY <1>2, <2>4 DEF IsUnsubscribed, Registered
      <3>2. DOMAIN topics'[d] = DOMAIN topics[d]
        BY <2>1
      <3>3. \A j \in DOMAIN topics[d] : /\ topics'[d][j].topic = topics[d][j].topic
                                        /\ topics'[d][j].sf = topics[d][j].sf
        BY <2>2, <3>1
      <3> QED BY <3>2, <3>3, SameSubscriptions
    <2>5. CASE \A j \in DOMAIN topics[c] : ~IsUnsubscribed(c, j, a.topic, i)
      <3>1. DOMAIN topics'[c] = DOMAIN topics[c]
        BY <1>2, <2>1
      <3>2. \A j \in DOMAIN topics[c] : /\ topics'[c][j].topic = topics[c][j].topic
                                        /\ topics'[c][j].sf = topics[c][j].sf
        BY <1>2, <2>2, <2>5
      <3>3. Subscriptions(c)' = Subscriptions(c)
        BY <3>1, <3>2, SameSubscriptions
      <3>4. subs' = subs
        BY <2>4, <3>3, SameViews
      <3> QED BY <1>6, <2>3, <3>4 DEF Store!promised
    <2>6. CASE \E j \in DOMAIN topics[c] : IsUnsubscribed(c, j, a.topic, i)
      <3>1. PICK k \in DOMAIN topics[c] : IsUnsubscribed(c, k, a.topic, i)
        BY <2>6
      <3>2. DOMAIN topics[c] = 1..Len(topics[c]) /\ Len(topics[c]) \in Nat
        BY <1>3
      <3>3. \A j \in DOMAIN topics[c] : IsUnsubscribed(c, j, a.topic, i) <=> j = k
        <4>1. ASSUME NEW j \in DOMAIN topics[c], IsUnsubscribed(c, j, a.topic, i), j # k
              PROVE  FALSE
          <5>1. j < k => ~(socket[c] = i /\ topics[c][j].topic = a.topic)
            BY <3>1, <3>2 DEF IsUnsubscribed
          <5>2. k < j => ~(socket[c] = i /\ topics[c][k].topic = a.topic)
            BY <3>2, <4>1 DEF IsUnsubscribed
          <5>3. socket[c] = i /\ topics[c][j].topic = a.topic /\ topics[c][k].topic = a.topic
            BY <3>1, <4>1 DEF IsUnsubscribed
          <5> QED BY <3>2, <4>1, <5>1, <5>2, <5>3
        <4> QED BY <3>1, <4>1
      <3>4. topics[c][k].topic = a.topic
        BY <3>1 DEF IsUnsubscribed
      <3>5. k \in Subscribed(c)
        BY <1>5, <3>4 DEF Subscribed
      <3>6. Subscribed(c)' = Subscribed(c) \ {k}
        <4>1. DOMAIN topics'[c] = DOMAIN topics[c]
          BY <1>2, <2>1
        <4>2. \A j \in DOMAIN topics[c] :
                 topics'[c][j].topic = IF j = k THEN Blank ELSE topics[c][j].topic
          BY <1>2, <2>2, <3>3
        <4> QED BY <4>1, <4>2 DEF Subscribed
      <3>7. Subscriptions(c)' = [j \in Subscribed(c) \ {k} |-> Subscriptions(c)[j]]
        <4>1. \A j \in Subscribed(c) \ {k} : /\ topics'[c][j].topic = topics[c][j].topic
                                             /\ topics'[c][j].sf = topics[c][j].sf
          BY <1>2, <2>2, <3>3 DEF Subscribed
        <4> QED BY <3>6, <4>1 DEF Subscriptions
      <3>8. subs[c] = Subscriptions(c) /\ DOMAIN subs[c] = Subscribed(c)
        BY <1>2 DEF subs, Subscriptions
      <3>9. subs' = [subs EXCEPT ![c] = [j \in DOMAIN subs[c] \ {k} |-> subs[c][j]]]
        BY <1>2, <2>4, <3>7, <3>8 DEF subs
      <3>10. k \in 1..MaxActions
        <4>1. /\ IsFiniteSet(Asked(topics, up)) /\ Cardinality(Asked(topics, up)) <= acts
              /\ acts <= MaxActions /\ acts \in Nat
          BY DEF RefInv, Counted, IInv, TypeOK
        <4>2. Len(topics[c]) <= Cardinality(Asked(topics, up))
          BY <1>3, <3>2, <4>1, SlotsCounted
        <4>3. Cardinality(Asked(topics, up)) \in Nat
          BY <4>1, FS_CardinalityType
        <4> QED BY <3>2, <4>1, <4>2, <4>3
      <3>11. Store!Unsubscribe(c, k)
        BY <1>6, <1>7, <2>3, <3>5, <3>8, <3>9 DEF Store!Unsubscribe
      <3> QED BY <1>2, <3>10, <3>11 DEF Store!Next
    <2> QED BY <2>5, <2>6
  <1> QED BY <1>1, <1>9, <1>10

-----------------------------------------------------------------------------
(* All together.                                                             *)

LEMMA InitStore == Init => Store!Init
  <1> SUFFICES ASSUME Init PROVE Store!Init
    OBVIOUS
  <1>1. /\ \A c \in ClientId : topics[c] = <<>> /\ ~connected[c]
        /\ \A s \in Session : got[s] = <<>>
        /\ sent = 0 /\ udpq = <<>> /\ Id \subseteq ClientId
    BY DEF Init, ClientId
  <1>2. subs = [c \in Id |-> <<>>]
    <2>1. ASSUME NEW c \in Id PROVE Subscriptions(c) = <<>>
      <3>1. Subscribed(c) = {}
        BY <1>1 DEF Subscribed
      <3> QED BY <3>1 DEF Subscriptions
    <2> QED BY <2>1 DEF subs
  <1>3. present = {}
    BY <1>1 DEF present
  <1>4. last = 0
    <2>1. Len(udpq) = 0 /\ sent = 0
      BY <1>1
    <2> QED BY <2>1 DEF last
  <1>5. owed = [c \in Id |-> [t \in Topic |-> {}]]
    <2>1. ASSUME NEW c \in Id, NEW t \in Topic PROVE OwedOf(c, t) = {}
      BY <1>1 DEF OwedOf
    <2> QED BY <2>1 DEF owed
  <1>6. written = [c \in Id |-> [n \in 1..MaxMsgs |-> 0]]
    <2>1. ASSUME NEW c \in Id, NEW n \in 1..MaxMsgs PROVE Cardinality(Copies(c, n)) = 0
      <3>1. CopiesIn(got, c, n) = {}
        BY <1>1, CopiesMember
      <3> QED BY <3>1, CopiesAre, FS_EmptySet
    <2> QED BY <2>1 DEF written
  <1> QED BY <1>2, <1>3, <1>4, <1>5, <1>6 DEF Store!Init

LEMMA StepStore ==
    ASSUME IInv, OrderInv, IInv', OrderInv', NoAlias, RefInv, RefInv', [Next]_vars,
           Blank \notin PubTopic
    PROVE  [Store!Next]_(Store!promised)
  <1> USE DEF heap, rest, kernel
  <1>1. CASE /\ UNCHANGED <<connected, topics, got, sent, udpq>>
             /\ UNCHANGED <<pc, client, slot>> \/ (pc # "flush" /\ pc' # "flush")
    <2>1. \A c \in Id : Unsent(c)' = Unsent(c)
      BY <1>1 DEF Unsent
    <2>2. last' = last
      BY <1>1, SameViews
    <2> QED BY <1>1, <2>1, <2>2, QuietStore
  <1>2. CASE UNCHANGED vars
    BY <1>1, <1>2 DEF vars
  <1>3. CASE Dies
    BY <1>1, <1>3 DEF Dies
  <1> SUFFICES ASSUME status = "run", ServerStep \/ Environment, ~Dies
               PROVE  [Store!Next]_(Store!promised)
    BY <1>2, <1>3 DEF Next
  <1>4. CASE Select \/ ReadConsole \/ Accept
    BY <1>1, <1>4 DEF Select, ReadConsole, Accept, Turn
  <1>5. ASSUME NEW s \in Session, Connect(s) \/ SendId(s) \/ Leave(s)
        PROVE  [Store!Next]_(Store!promised)
    BY <1>1, <1>5 DEF Connect, SendId, Leave
  <1>6. ASSUME NEW s \in Session, NEW a \in SentActions, SendAction(s, a)
        PROVE  [Store!Next]_(Store!promised)
    BY <1>1, <1>6 DEF SendAction
  <1>7. ASSUME NEW line \in Lines, TypeLine(line) PROVE [Store!Next]_(Store!promised)
    BY <1>1, <1>7 DEF TypeLine
  <1>8. ASSUME NEW t \in PubTopic, NEW ok \in BOOLEAN, Publish(t, ok)
        PROVE  [Store!Next]_(Store!promised)
    <2> DEFINE d == [n |-> sent + 1, topic |-> t, ok |-> ok]
    <2>1. /\ UNCHANGED <<connected, topics, got, pc, client, slot>>
          /\ sent' = sent + 1 /\ udpq' = Append(udpq, d)
      BY <1>8 DEF Publish
    <2>2. udpq \in Seq(Datagram) /\ udpq' \in Seq(Datagram) /\ sent \in Nat
      BY DEF IInv, TypeOK, BrokerAssumption
    <2>3. last' = last
      <3> HIDE DEF d
      <3>1. Len(udpq') = Len(udpq) + 1 /\ Len(udpq) \in Nat
        BY <2>1, <2>2
      <3> QED BY <2>1, <2>2, <3>1 DEF last
    <2>4. \A c \in Id : Unsent(c)' = Unsent(c)
      BY <2>1 DEF Unsent
    <2> QED BY <2>1, <2>3, <2>4, QuietStore
  <1>9. CASE RecvId \/ EndReconnect
    BY <1>9, RecvIdComes, EndReconnectComes
  <1>10. CASE FlushSlot
    BY <1>10, StepDeliver
  <1>11. CASE ReceiveDatagram
    BY <1>11, StepForward
  <1>12. ASSUME NEW i \in ClientFd, ReceiveAction(i) PROVE [Store!Next]_(Store!promised)
    BY <1>12, StepAsk
  <1>13. ASSUME NEW i \in ClientFd, ReceiveEnd(i) PROVE [Store!Next]_(Store!promised)
    BY <1>13, StepGo
  <1> QED BY <1>4, <1>5, <1>6, <1>7, <1>8, <1>9, <1>10, <1>11, <1>12, <1>13
          DEF ServerStep, Environment

\* As long as no two clients are recorded under one descriptor, and no datagram has
\* the empty topic that marks a slot without a subscription, every packet is written
\* once to whoever was subscribed to it, at once or after the return, and nothing
\* that is kept is lost or overtaken: the server implements StoreForward.
THEOREM ImplementsStoreForward ==
    ASSUME Blank \notin PubTopic PROVE StableSpec => IsStoreForward
  <1>1. Init => IInv /\ Recorded /\ OrderInv /\ NoAlias /\ RefInv
    <2>1. Init => IInv
      BY InitStructure, InitBooks, InitServed DEF IInv
    <2>2. Init => Recorded /\ NoAlias
      BY DEF Init, Recorded, NoAlias, Registered
    <2> QED BY <2>1, <2>2, InitOrder, InitRef
  <1>2. IInv /\ Recorded /\ OrderInv /\ NoAlias /\ RefInv /\ [Next /\ NoAlias']_vars
        => (IInv /\ Recorded /\ OrderInv /\ NoAlias /\ RefInv)'
    <2> SUFFICES ASSUME IInv, Recorded, OrderInv, NoAlias, RefInv, [Next /\ NoAlias']_vars
                 PROVE  (IInv /\ Recorded /\ OrderInv /\ NoAlias /\ RefInv)'
      OBVIOUS
    <2>1. [Next]_vars
      OBVIOUS
    <2>2. IInv'
      BY <2>1, StepStructure, StepBooks, StepServed DEF IInv
    <2>3. NoAlias'
      BY DEF NoAlias, Registered, vars
    <2>4. Recorded' /\ OrderInv'
      BY <2>1, <2>2, StepRecorded, StepOrder DEF IInv
    <2>5. RefInv'
      BY <2>1, <2>2, StepRef
    <2> QED BY <2>2, <2>3, <2>4, <2>5
  <1>3. /\ IInv /\ OrderInv /\ NoAlias /\ RefInv
        /\ IInv' /\ OrderInv' /\ RefInv' /\ [Next /\ NoAlias']_vars
        => [Store!Next]_(Store!promised)
    BY StepStore
  <1> QED BY <1>1, <1>2, <1>3, InitStore, PTL DEF StableSpec, IsStoreForward, Store!Spec

=============================================================================
