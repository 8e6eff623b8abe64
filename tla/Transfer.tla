------------------------------ MODULE Transfer ------------------------------
(***************************************************************************)
(* The file transfer of "Sliding Window-lab3": send.c and recv.c, with the *)
(* link emulator between them as a Channel from sender to receiver and,    *)
(* since the replies carry nothing that is looked at, as a counter in the  *)
(* other direction.  With a window of 0 it is the transfer of lab 2.       *)
(*                                                                         *)
(* There is no timer and no retransmission: both programs block in         *)
(* recv_message().  A step is what one of them does up to its next         *)
(* blocking call or its next message.                                      *)
(***************************************************************************)
EXTENDS Integers, Sequences

CONSTANTS
    COUNT,      \* rounds of empty messages before the file (100)
    MSGSIZE,    \* payload bytes of a message (1396)
    Scale,      \* factor in the formula for the window (100)
    Sizes,      \* sizes of file.in; -1 if it cannot be opened
    Counts,     \* values of the program's argument, the BDP
    Emulators   \* what the emulator does: subsets of {"loss", "corrupt"}

ASSUME TransferAssumption ==
    /\ COUNT \in Nat \ {0} /\ MSGSIZE \in Nat \ {0} /\ Scale \in Nat
    /\ Sizes \subseteq Nat \cup {-1} /\ Counts \subseteq Nat
    /\ \E x \in Sizes \cup {0} : \A y \in Sizes : y <= x
    /\ Emulators \subseteq SUBSET {"loss", "corrupt"}

VARIABLES
    size, count, emulator,  \* the run: chosen at the start
    spc, warmed, i, sent_size,              \* send.c
    rpc, echoed, rsize, received_size, file, \* recv.c
    taken,      \* messages the receiver has read
    acks,       \* replies on their way to the sender
    entry, transit, exit                    \* the channel

link     == <<entry, transit, exit>>
sender   == <<spc, warmed, i, sent_size>>
receiver == <<rpc, echoed, rsize, received_size, file, taken>>
run      == <<size, count, emulator>>
vars     == <<run, sender, receiver, acks, link>>

\* The kinds of message differ in what the receiver makes of the payload: a
\* name, a number, or bytes, here the number of the chunk.
MaxSize == CHOOSE x \in Sizes \cup {0} : \A y \in Sizes : y <= x
Message ==
    [kind : {"warm", "name"}, val : {0}, len : {MSGSIZE}, ok : BOOLEAN]
    \cup [kind : {"size"}, val : -1..MaxSize + 1, len : {1}, ok : BOOLEAN]
    \cup [kind : {"data"}, val : 1..MaxSize + 1, len : 0..MSGSIZE, ok : BOOLEAN]
text(kind, val, len) == [kind |-> kind, val |-> val, len |-> len, ok |-> TRUE]

\* One bit of the payload flipped: atoi() makes some other number of the size;
\* an empty payload stops the emulator instead.
damaged(x) ==
    IF x.len = 0 THEN {}
    ELSE IF x.kind = "size"
         THEN {[x EXCEPT !.val = v, !.ok = FALSE] : v \in -1..MaxSize + 1}
         ELSE {[x EXCEPT !.ok = FALSE]}

Link == INSTANCE Channel WITH Damage <- [x \in Message |-> damaged(x)]

Chunks == IF size <= 0 THEN 0 ELSE (size + MSGSIZE - 1) \div MSGSIZE
\* With a size of -1 the quotient is not positive, which is as good as 0.
Window == IF size <= 0 THEN 0 ELSE (count * Scale) \div (8 * size)

Init ==
    /\ size \in Sizes /\ count \in Counts /\ emulator \in Emulators
    /\ spc = "warm" /\ warmed = 0 /\ i = 0 /\ sent_size = 0
    /\ rpc = "init" /\ echoed = 0 /\ rsize = 0 /\ received_size = 0
    /\ file = <<>> /\ taken = 0 /\ acks = 0
    /\ Link!Init

-----------------------------------------------------------------------------
(* send.c                                                                   *)

Put(kind, val, len) ==
    Link!Put(text(kind, val, len)) /\ UNCHANGED <<run, receiver, acks>>
Check == acks > 0 /\ acks' = acks - 1 /\ UNCHANGED <<run, receiver, link>>

WarmedUp(k) == k = COUNT

SendWarm ==
    /\ spc = "warm" /\ Put("warm", 0, MSGSIZE)
    /\ spc' = "warm_ack" /\ UNCHANGED <<warmed, i, sent_size>>
WarmAck ==
    /\ spc = "warm_ack" /\ Check
    /\ warmed' = warmed + 1
    /\ spc' = IF WarmedUp(warmed + 1) THEN "name" ELSE "warm"
    /\ UNCHANGED <<i, sent_size>>

SendName ==
    /\ spc = "name" /\ Put("name", 0, MSGSIZE)
    /\ spc' = "name_ack" /\ UNCHANGED <<warmed, i, sent_size>>
NameAck ==
    /\ spc = "name_ack" /\ Check
    /\ spc' = "size" /\ UNCHANGED <<warmed, i, sent_size>>

SendSize ==
    /\ spc = "size" /\ Put("size", size, 1)
    /\ spc' = "size_ack" /\ UNCHANGED <<warmed, i, sent_size>>
\* The window is computed: with an empty file this divides by zero.
SizeAck ==
    /\ spc = "size_ack" /\ Check
    /\ spc' = IF size = 0 THEN "crashed"
              ELSE IF 0 < Window THEN "window" ELSE "body"
    /\ UNCHANGED <<warmed, i, sent_size>>

\* What read() returns at offset sent_size, 0 at the end of the file.
fp2 == IF size - sent_size < MSGSIZE THEN size - sent_size ELSE MSGSIZE
\* Variant: the read goes to the place that the loop counter names.
SendChunkByIndex == Put("data", i + 1, fp2)
SendChunk == Put("data", sent_size \div MSGSIZE + 1, fp2)

FillWindow ==
    /\ spc = "window" /\ SendChunk
    /\ sent_size' = sent_size + fp2 /\ i' = i + 1
    /\ spc' = IF i + 1 < Window THEN "window" ELSE "body"
    /\ UNCHANGED warmed

SendNext ==
    /\ spc = "body" /\ sent_size < size /\ SendChunk
    /\ spc' = "body_ack" /\ UNCHANGED <<warmed, i, sent_size>>
BodyAck ==
    /\ spc = "body_ack" /\ Check
    /\ sent_size' = sent_size + fp2
    /\ spc' = "body" /\ UNCHANGED <<warmed, i>>

AllSent ==
    /\ spc = "body" /\ sent_size >= size
    /\ i' = 0 /\ spc' = IF 0 < Window THEN "drain" ELSE "done"
    /\ UNCHANGED <<warmed, sent_size, run, receiver, acks, link>>

\* Variant: one reply too many is waited for.
DrainedLate == i >= Window
Drained == i + 1 >= Window
Drain ==
    /\ spc = "drain" /\ Check
    /\ i' = i + 1
    /\ spc' = IF Drained THEN "done" ELSE "drain"
    /\ UNCHANGED <<warmed, sent_size>>

Sender ==
    SendWarm \/ WarmAck \/ SendName \/ NameAck \/ SendSize \/ SizeAck
    \/ FillWindow \/ SendNext \/ BodyAck \/ AllSent \/ Drain

-----------------------------------------------------------------------------
(* recv.c                                                                   *)

r == exit[taken + 1]

\* recv_message() and the reply; the checksum is only reported.
Receive ==
    /\ taken < Len(exit)
    /\ taken' = taken + 1 /\ acks' = acks + 1
    /\ UNCHANGED <<run, sender, link>>

Start ==
    /\ rpc = "init" /\ rpc' = "warm"
    /\ UNCHANGED <<run, sender, echoed, rsize, received_size, file, taken, acks,
                   link>>

\* Variant: the loop starts at 1.
EchoedAllEarly(k) == k + 1 = COUNT
EchoedAll(k) == k = COUNT

Echo ==
    /\ rpc = "warm" /\ Receive
    /\ echoed' = echoed + 1
    /\ rpc' = IF EchoedAll(echoed + 1) THEN "name" ELSE "warm"
    /\ UNCHANGED <<rsize, received_size, file>>

GetName ==
    /\ rpc = "name" /\ Receive
    /\ rpc' = "size" /\ UNCHANGED <<echoed, rsize, received_size, file>>

Expects(got, all) == got < all

GetSize ==
    /\ rpc = "size" /\ Receive
    /\ rsize' = r.val
    /\ rpc' = IF Expects(0, r.val) THEN "body" ELSE "done"
    /\ UNCHANGED <<echoed, received_size, file>>

GetChunk ==
    /\ rpc = "body" /\ Receive
    /\ file' = IF r.len > 0 THEN Append(file, r) ELSE file
    /\ received_size' = received_size + r.len
    /\ rpc' = IF Expects(received_size + r.len, rsize) THEN "body" ELSE "done"
    /\ UNCHANGED <<echoed, rsize>>

Receiver == Start \/ Echo \/ GetName \/ GetSize \/ GetChunk

-----------------------------------------------------------------------------
(* The emulator.  It loses what it delivers before the receiver has shown   *)
(* up, and otherwise only what it is told to lose.                          *)

Works ==
    /\ \/ \E x \in Message : Link!Accept(x) /\ (x.ok \/ "corrupt" \in emulator)
       \/ rpc # "init" /\ Link!Deliver
    /\ UNCHANGED <<run, sender, receiver, acks>>
Loses ==
    /\ \/ "loss" \in emulator /\ Link!Drop
       \/ rpc = "init" /\ Link!Lose
    /\ UNCHANGED <<run, sender, receiver, acks>>

Next == Sender \/ Receiver \/ Works \/ Loses

Spec == Init /\ [][Next]_vars

\* Each program runs, and the emulator forwards what it has accepted (Link).
Fairness == WF_vars(Sender) /\ WF_vars(Receiver) /\ WF_vars(Works)
FairSpec == Spec /\ Fairness

-----------------------------------------------------------------------------
(* Properties                                                               *)

TypeOK ==
    /\ size \in Sizes /\ count \in Counts /\ emulator \in Emulators
    /\ spc \in {"warm", "warm_ack", "name", "name_ack", "size", "size_ack",
               "window", "body", "body_ack", "drain", "done", "crashed"}
    /\ rpc \in {"init", "warm", "name", "size", "body", "done"}
    /\ warmed \in 0..COUNT /\ echoed \in 0..COUNT
    /\ i \in Nat /\ sent_size \in Nat /\ received_size \in Nat
    /\ rsize \in Int /\ file \in Seq(Message)
    /\ taken \in 0..Len(exit) /\ acks \in Nat
    /\ entry \in Seq(Message) /\ transit \in Seq(Message)
    /\ exit \in Seq(Message)

\* The receiver takes every message for what it was sent as, although none says
\* what it is: names, sizes and chunks are told apart by their position only.
InStep ==
    taken < Len(exit) =>
        \/ rpc \in {"warm", "name", "size", "done"} /\ (rpc = "done" \/ r.kind = rpc)
        \/ rpc = "body" /\ r.kind = "data"

\* Never are more messages and replies under way than the window and one more:
\* an emulator whose buffer holds that many does not overflow.
FlowControlled ==
    Len(entry) + Len(transit) + (Len(exit) - taken) + acks
        <= (IF Window > 0 THEN Window ELSE 0) + 1

\* Counting and waiting are all the discipline there is between the two programs.
Disciplined == TypeOK /\ InStep /\ FlowControlled

\* What is in the file is the beginning of the original, chunk by chunk, unless
\* one of several messages under way may be lost; and all of it is there when the
\* sender says that its job is done, whatever is lost or damaged: it cannot get
\* there without all the replies.
FileIsPrefix ==
    /\ "loss" \notin emulator \/ Window <= 0 => \A k \in DOMAIN file : file[k].val = k
    /\ spc = "done" => [k \in DOMAIN file |-> file[k].val] = [k \in 1..Chunks |-> k]

\* If the receiver is there in time and nothing is lost or
\* damaged, both programs come to their end.
Completes ==
    (rpc # "init" /\ taken = 0 /\ entry = <<>> /\ spc = "warm" /\ emulator = {}
        /\ size # 0 /\ Window <= Chunks)
    ~> (spc = "done" /\ rpc = "done")
=============================================================================
