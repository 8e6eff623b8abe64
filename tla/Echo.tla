-------------------------------- MODULE Echo --------------------------------
(***************************************************************************)
(* Lab 7: a server that accepts one client and sends back what it says     *)
(* (run_echo_server, which main() calls), or accepts two and sends what    *)
(* one says to the other, in turns (run_chat_server, which it may call     *)
(* instead); and its clients, which take an answer for every line they     *)
(* send.  The bytes are not told apart: the streams only keep their order. *)
(***************************************************************************)
EXTENDS Integers

CONSTANTS
    EchoBuffer,     \* the server's BUFLEN
    LineLengths,    \* of the lines typed, with their NUL
    MaxSays         \* bound: lines a client sends

ASSUME EchoAssumption ==
    EchoBuffer \in Nat \ {0} /\ LineLengths \subseteq Nat \ {0} /\ MaxSays \in Nat

Speaker == {1, 2}
Peer(c) == 3 - c

VARIABLES
    calls,      \* "echo" or "chat": what main() calls
    echo_at,    \* "accept", "serve", "over", "died", "astray"
    has,        \* connections accepted
    from,       \* whom receive_and_send() reads from next
    speaker,    \* per client: "away", "types", "waits", "left", "lost" (left,
                \* and its end is a reset), "died"
    says,       \* per client: lines sent
    remaining,  \* per client: bytes asked of recv()
    sends, ups, downs, shows
                \* per client: bytes it has sent, on their way to the server, on
                \* their way to it, received by it

echo == <<calls, echo_at, has, from, speaker, says, remaining, sends, ups, downs, shows>>

EchoInit ==
    /\ calls \in {"echo", "chat"} /\ echo_at = "accept" /\ has = {} /\ from = 1
    /\ speaker = [c \in Speaker |-> "away"]
    /\ says = [c \in Speaker |-> 0] /\ remaining = [c \in Speaker |-> 0]
    /\ sends = [c \in Speaker |-> 0] /\ ups = [c \in Speaker |-> 0]
    /\ downs = [c \in Speaker |-> 0] /\ shows = [c \in Speaker |-> 0]

HasLeft(c) == speaker[c] \in {"left", "lost", "died"}
to(c)      == IF calls = "echo" THEN c ELSE Peer(c)

-----------------------------------------------------------------------------
(* The server                                                               *)

\* Clients are accepted in the order of their numbers.
AcceptSpeaker ==
    /\ echo_at = "accept"
    /\ \E c \in Speaker \ has :
          /\ \A d \in Speaker : d < c => d \in has
          /\ speaker[c] # "away"
          /\ has' = has \cup {c}
          /\ echo_at' = IF calls = "echo" \/ c = 2 THEN "serve" ELSE "accept"
    /\ UNCHANGED <<calls, from, speaker, says, remaining, sends, ups, downs, shows>>

\* Variant: all of the buffer is sent.
bytes_sendAll(n) == EchoBuffer
bytes_send(n) == n

\* receive_and_send() with something received.  What is sent to one that has left
\* draws a reset; after that, send() fails unnoticed or raises SIGPIPE.
Passes ==
    /\ echo_at = "serve" /\ ups[from] > 0
    /\ \E n \in 1..(IF ups[from] < EchoBuffer THEN ups[from] ELSE EchoBuffer) :
          /\ ups' = [ups EXCEPT ![from] = @ - n]
          /\ \/ /\ speaker[to(from)] = "lost" /\ echo_at' = "died"
                /\ UNCHANGED <<from, downs, speaker>>
             \/ /\ from' = to(from) /\ UNCHANGED echo_at
                /\ IF HasLeft(to(from))
                   THEN /\ UNCHANGED downs
                        /\ speaker' \in {speaker, [speaker EXCEPT ![to(from)] = "lost"]}
                   ELSE /\ downs' = [downs EXCEPT ![to(from)] = @ + bytes_send(n)]
                        /\ UNCHANGED speaker
    /\ UNCHANGED <<calls, has, says, remaining, sends, shows>>

\* recv() returns 0, after a reset too if an earlier call has been told of it: the
\* sockets are closed, which resets every connection that is not served.
Closes ==
    /\ echo_at = "serve" /\ ups[from] = 0 /\ HasLeft(from)
    /\ echo_at' = "over"
    /\ UNCHANGED <<calls, has, from, speaker, says, remaining, sends, ups, downs, shows>>

\* recv() returns -1, which send() takes for the largest size.  What becomes of
\* that, and of the chat, whose loop goes on if it was the first of its two
\* calls, is not followed.
Fails ==
    /\ echo_at = "serve" /\ ups[from] = 0 /\ speaker[from] = "lost"
    /\ echo_at' = "astray"
    /\ UNCHANGED <<calls, has, from, speaker, says, remaining, sends, ups, downs, shows>>

EchoServer == AcceptSpeaker \/ Passes \/ Closes \/ Fails
ServerGone == echo_at \in {"over", "died"}

-----------------------------------------------------------------------------
(* The clients                                                              *)

echo_kept == <<calls, echo_at, has, from>>

Calls(c) ==
    /\ speaker[c] = "away" /\ ~ServerGone /\ (c = 2 => speaker[1] # "away")
    /\ speaker' = [speaker EXCEPT ![c] = "types"]
    /\ UNCHANGED <<echo_kept, says, remaining, sends, ups, downs, shows>>

\* A line is read and sent: to a server that has gone the first draws a reset.
Says(c) ==
    /\ speaker[c] = "types" /\ says[c] < MaxSays
    /\ says' = [says EXCEPT ![c] = @ + 1]
    /\ \E n \in LineLengths :
          /\ remaining' = [remaining EXCEPT ![c] = n]
          /\ \/ /\ speaker' = [speaker EXCEPT ![c] = "waits"]
                /\ sends' = [sends EXCEPT ![c] = @ + n]
                /\ ups' = [ups EXCEPT ![c] = @ + n]
             \/ /\ ServerGone /\ speaker' = [speaker EXCEPT ![c] = "died"]
                /\ UNCHANGED <<sends, ups>>
    /\ UNCHANGED <<echo_kept, downs, shows>>

\* recv(), of up to as many bytes as were sent; 0 or -1 if the server has gone.
Shows(c) ==
    /\ speaker[c] = "waits"
    /\ speaker' = [speaker EXCEPT ![c] = "types"]
    /\ \/ \E n \in 1..(IF downs[c] < remaining[c] THEN downs[c] ELSE remaining[c]) :
             /\ downs' = [downs EXCEPT ![c] = @ - n]
             /\ shows' = [shows EXCEPT ![c] = @ + n]
       \/ downs[c] = 0 /\ ServerGone /\ UNCHANGED <<downs, shows>>
    /\ UNCHANGED <<echo_kept, says, remaining, sends, ups>>

\* An empty line or the end of the input; with something unread the end of the
\* connection may be a reset.
Leaves(c) ==
    /\ speaker[c] = "types"
    /\ speaker' \in {[speaker EXCEPT ![c] = e] :
                       e \in IF downs[c] > 0 THEN {"lost"} ELSE {"left"}}
    /\ UNCHANGED <<echo_kept, says, remaining, sends, ups, downs, shows>>

EchoNext == EchoServer \/ \E c \in Speaker : Calls(c) \/ Says(c) \/ Shows(c) \/ Leaves(c)

\* The server runs, and whoever waits reads.
EchoFairness == WF_echo(EchoServer) /\ \A c \in Speaker : WF_echo(Shows(c))

-----------------------------------------------------------------------------
(* Properties                                                               *)

EchoTypeOK ==
    /\ calls \in {"echo", "chat"} /\ echo_at \in {"accept", "serve", "over", "died", "astray"}
    /\ has \subseteq Speaker /\ from \in Speaker
    /\ speaker \in [Speaker -> {"away", "types", "waits", "left", "lost", "died"}]
    /\ says \in [Speaker -> 0..MaxSays] /\ remaining \in [Speaker -> LineLengths \cup {0}]
    /\ sends \in [Speaker -> Nat] /\ ups \in [Speaker -> Nat]
    /\ downs \in [Speaker -> Nat] /\ shows \in [Speaker -> Nat]

\* What a client is shown is what was said to it, from the beginning and without
\* a gap, however the server's and its own reads cut it, and although an answer
\* may still be part of an earlier one; and the echo of what a waiting client has
\* said is never used up before: it does not wait for nothing.
AnswersKeepPace ==
    \A c \in Speaker :
        /\ ~HasLeft(c) => shows[c] + downs[c] + ups[to(c)] = sends[to(c)]
        /\ (speaker[c] = "waits" /\ calls = "echo") => shows[c] < sends[c]

\* The client that is served by the echo is never left waiting, nor is anybody by
\* a server that has ended.
EchoServes ==
    \A c \in Speaker :
        (speaker[c] = "waits" /\ ((calls = "echo" /\ c = 1) \/ ServerGone))
            ~> speaker[c] # "waits"
=============================================================================
