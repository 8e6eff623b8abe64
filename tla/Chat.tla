-------------------------------- MODULE Chat --------------------------------
(***************************************************************************)
(* The chat of lab 8.  The server numbers its clients by their descriptors,*)
(* announces who comes and who goes, and sends a line on to the descriptor *)
(* that the line begins with.  One thread around select(), one action per  *)
(* handler; the clients and the kernel are the other actions.  fdmax only  *)
(* grows and is left out.                                                  *)
(***************************************************************************)
EXTENDS Integers, Sequences, FiniteSets

CONSTANTS
    MaxUsers,   \* bound: connections made; a client process makes one
    FirstFd,    \* the first descriptor accept() returns (4)
    LastFd,     \* bound: the last one
    Room,       \* length of the array of clients (10)
    MaxLines    \* bound: lines typed

User     == 1..MaxUsers     \* in the order they connect
Nobody   == 0
sockfd   == FirstFd - 1
UserFd   == FirstFd..LastFd
NoNumber == -1      \* what a line begins with, if not with a number
\* A line is meant for whoever had its number when it was typed.
Line == [n : 1..MaxLines, dest : UserFd \cup {NoNumber}, for : User \cup {Nobody}]
News == [is : {"new", "closed"}, fds : {{f} : f \in UserFd}]
        \cup [is : {"list"}, fds : SUBSET UserFd]
Text == [is : {"text"}, lines : Seq(Line)]

ASSUME ChatAssumption ==
    /\ FirstFd \in Nat \ {0} /\ LastFd \in Nat
    /\ MaxUsers \in Nat /\ MaxUsers <= LastFd - FirstFd + 1
    /\ Room \in Nat /\ MaxLines \in Nat

VARIABLES
    clients,    \* descriptors in order of arrival; idx is the length
    read_fds, tmp_fds,
    at_fd,      \* kernel: whose connection a descriptor is
    backlog,    \* kernel: connections not yet accepted
    line,       \* per connection: "none", "open"; ended: "fin", "rst", "sent"
                \* (something has been sent there since)
    up,         \* per connection: lines the server has not read
    told,       \* per connection: what the server has sent
    typed,      \* lines typed so far
    chat        \* "run", "died", "undefined"

chat_vars == <<clients, read_fds, tmp_fds, at_fd, backlog, line, up, told, typed,
               chat>>

ChatInit ==
    /\ clients = <<>> /\ read_fds = {sockfd} /\ tmp_fds = {}
    /\ at_fd = [f \in UserFd |-> Nobody] /\ backlog = <<>>
    /\ line = [u \in User |-> "none"]
    /\ up = [u \in User |-> <<>>] /\ told = [u \in User |-> <<>>]
    /\ typed = 0 /\ chat = "run"

-----------------------------------------------------------------------------
(* The server                                                               *)

Ended(u) == line[u] \in {"fin", "rst", "sent"}

\* The send() calls of a handler: what each connection is sent, in order.  To one
\* that is closed they fail unnoticed.  The first to a connection that has ended may
\* draw a reset, and then the next raises SIGPIPE.
SendAll(sends) ==
    LET n(u) == Len(sends[u]) + (IF line[u] = "sent" THEN 1 ELSE 0)
    IN  \/ /\ \E u \in User : Ended(u) /\ sends[u] # <<>> /\ n(u) >= 2
           /\ chat' = "died"
           /\ UNCHANGED <<told, line>>
        \/ /\ told' = [u \in User |-> told[u] \o sends[u]]
           /\ line' = [u \in User |-> IF Ended(u) /\ sends[u] # <<>> THEN "sent"
                                                                    ELSE line[u]]
           /\ UNCHANGED chat

\* Everyone in the array is sent something, once for each index at which it has
\* the descriptor; fds are the descriptors in force.
Indices(u, fds)      == {k \in DOMAIN clients : fds[clients[k]] = u}
OncePer(indices, it) == [j \in 1..Cardinality(indices) |-> it]

SelectChat ==
    LET ready == {f \in read_fds :
                    \/ f = sockfd /\ backlog # <<>>
                    \/ f # sockfd /\ (up[at_fd[f]] # <<>> \/ Ended(at_fd[f]))}
    IN  /\ tmp_fds = {} /\ ready # {} /\ tmp_fds' = ready
        /\ UNCHANGED <<clients, read_fds, at_fd, backlog, line, up, told, typed, chat>>

TurnOf(i) == i \in tmp_fds /\ (\A j \in tmp_fds : i <= j) /\ tmp_fds' = tmp_fds \ {i}

all_numbers == [is |-> "list", fds |-> {clients[k] : k \in DOMAIN clients}]

\* Variant: the new client is sent the list, but nobody else hears of it.
AnnouncedNot(f, fds) == [u \in User |-> IF u = fds[f] THEN <<all_numbers>> ELSE <<>>]
\* Everyone in the array is told the new number, and it is told all of them.
Announced(f, fds) ==
    [u \in User |-> OncePer(Indices(u, fds), [is |-> "new", fds |-> {f}])
                    \o IF u = fds[f] /\ clients # <<>> THEN <<all_numbers>> ELSE <<>>]

\* A new connection.  The array is written to without a look at its length.
AcceptChat ==
    /\ TurnOf(sockfd)
    /\ \E f \in UserFd :
          /\ at_fd[f] = Nobody /\ \A g \in UserFd : g < f => at_fd[g] # Nobody
          /\ at_fd' = [at_fd EXCEPT ![f] = Head(backlog)]
          /\ read_fds' = read_fds \cup {f}
          /\ \/ /\ Len(clients) < Room
                /\ clients' = Append(clients, f)
                /\ SendAll(Announced(f, at_fd'))
             \/ /\ Len(clients) >= Room
                /\ chat' = "undefined" /\ UNCHANGED <<clients, told, line>>
    /\ backlog' = Tail(backlog)
    /\ UNCHANGED <<up, typed>>

addressee(lines) == Head(lines).dest

\* recv() takes all lines that have arrived.  Their text goes where the first
\* one says; if it begins with no number, to what dest happens to hold.  A send()
\* to the listening socket raises SIGPIPE.
Relay(i) ==
    LET u == at_fd[i]
        lines == up[u]
    IN  /\ TurnOf(i) /\ lines # <<>>
        /\ up' = [up EXCEPT ![u] = <<>>]
        /\ \E dest \in UserFd \cup {sockfd, NoNumber} :
              /\ addressee(lines) # NoNumber => dest = addressee(lines)
              /\ \/ dest = sockfd /\ chat' = "died" /\ UNCHANGED <<told, line>>
                 \/ /\ dest # sockfd
                    /\ SendAll([v \in User |->
                                  IF dest \in UserFd /\ at_fd[dest] = v
                                  THEN <<[is |-> "text", lines |-> lines]>> ELSE <<>>])
        /\ UNCHANGED <<clients, read_fds, at_fd, backlog, typed>>

\* recv() returns 0, or -1 after a reset.  Everyone in the array is told, except
\* at the index that equals the descriptor.
CloseChat(i) ==
    LET u == at_fd[i]
    IN  /\ TurnOf(i) /\ up[u] = <<>>
        /\ \/ line[u] = "rst" /\ chat' = "died" /\ UNCHANGED <<told, line, at_fd, read_fds>>
           \/ /\ line[u] # "rst"
              /\ SendAll([v \in User |->
                    OncePer(Indices(v, at_fd) \ {i + 1}, [is |-> "closed", fds |-> {i}])])
              /\ at_fd' = [at_fd EXCEPT ![i] = Nobody]
              /\ read_fds' = read_fds \ {i}
        /\ UNCHANGED <<clients, backlog, up, typed>>

ChatServer ==
    \/ SelectChat \/ AcceptChat
    \/ \E i \in UserFd : Relay(i) \/ CloseChat(i)

-----------------------------------------------------------------------------
(* The clients                                                              *)

kept == <<clients, read_fds, tmp_fds, at_fd, told, chat>>

Dial(u) ==
    /\ line[u] = "none" /\ \A v \in User : v < u => line[v] # "none"
    /\ line' = [line EXCEPT ![u] = "open"]
    /\ backlog' = Append(backlog, u)
    /\ UNCHANGED <<kept, up, typed>>

\* The numbers a client has been told of and not told to be closed since.
Numbers(u) ==
    LET at(is, f) == {j \in DOMAIN told[u] : told[u][j].is \in is /\ f \in told[u][j].fds}
    IN  {f \in UserFd : \E j \in at({"new", "list"}, f) :
                           \A k \in at({"closed"}, f) : k < j}

\* A line with one of these, or with no number.
TypeText(u) ==
    /\ line[u] = "open" /\ typed < MaxLines
    /\ \E dest \in Numbers(u) \cup {NoNumber} :
          up' = [up EXCEPT ![u] = Append(@, [n |-> typed + 1, dest |-> dest,
                   for |-> IF dest = NoNumber THEN Nobody ELSE at_fd[dest]])]
    /\ typed' = typed + 1
    /\ UNCHANGED <<kept, backlog, line>>

\* exit, or killed; what is left unread turns the end into a reset.
HangUp(u) ==
    /\ line[u] = "open"
    /\ \E how \in {"fin", "rst"} :
          (how = "rst" => told[u] # <<>>) /\ line' = [line EXCEPT ![u] = how]
    /\ UNCHANGED <<kept, backlog, up, typed>>

ChatNext ==
    /\ chat = "run"
    /\ ChatServer \/ \E u \in User : Dial(u) \/ TypeText(u) \/ HangUp(u)

ChatFairness == WF_chat_vars(chat = "run" /\ ChatServer)

-----------------------------------------------------------------------------
(* Properties                                                               *)

ChatTypeOK ==
    /\ clients \in Seq(UserFd) /\ Len(clients) <= Room
    /\ read_fds \subseteq UserFd \cup {sockfd} /\ tmp_fds \subseteq read_fds
    /\ at_fd \in [UserFd -> User \cup {Nobody}] /\ backlog \in Seq(User)
    /\ line \in [User -> {"none", "open", "fin", "rst", "sent"}]
    /\ up \in [User -> Seq(Line)] /\ told \in [User -> Seq(News \cup Text)]
    /\ typed \in 0..MaxLines /\ chat \in {"run", "died", "undefined"}

\* Client numbers reach everyone although they are reused and the array never
\* shrinks: who is connected knows the number of everyone else who is, and a
\* number it was given when its owner came is still somebody's, unless its own
\* index in the array is that number (then it is not told of the end).
NumbersAgree ==
    chat = "run" =>
        \A f, g \in UserFd :
            LET u == at_fd[f]
                last(is) == {j \in DOMAIN told[u] : told[u][j].is \in is
                                                     /\ g \in told[u][j].fds}
            IN  u # Nobody /\ f # g =>
                  /\ at_fd[g] # Nobody => g \in Numbers(u)
                  /\ (\E j \in last({"new"}) : \A k \in last({"closed", "list"}) : k < j)
                       => \/ at_fd[g] # Nobody
                          \/ g + 1 \in DOMAIN clients /\ clients[g + 1] = f

\* The first line of what one recv() takes goes to the client it was meant for,
\* or to a later one with the same number only when that client has gone.
ReachesItsReader ==
    \A u \in User : \A j \in DOMAIN told[u] :
        told[u][j].is = "text" =>
            LET first == Head(told[u][j].lines)
            IN  \/ first.dest = NoNumber \/ first.for = u
                \/ first.for = Nobody \/ Ended(first.for)

\* The numbers the clients go by stay right, and lines go where they say.
NumbersHold == NumbersAgree /\ ReachesItsReader

\* Every line is read and every connection accepted while the server runs.
ChatServes ==
    LET waits(u) == up[u] # <<>> \/ u \in {backlog[k] : k \in DOMAIN backlog}
    IN  \A u \in User : waits(u) ~> chat # "run" \/ ~waits(u)
=============================================================================
