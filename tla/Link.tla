-------------------------------- MODULE Link --------------------------------
(***************************************************************************)
(* The link emulator of "Sliding Window-lab3/link_emulator" (that of lab 2 *)
(* differs only in how it damages a byte): link.c, with its queue.  The    *)
(* sender's datagrams reach socket s1 and leave through s2 after a delay,  *)
(* the receiver's reach s2 and leave through s1 at once.                   *)
(*                                                                         *)
(* Three threads share the queue "buffer" under buffer_lock: forwarding    *)
(* fills it, the scheduler moves it to the packets in flight, the main     *)
(* thread forwards in the other direction.  Every critical section is one  *)
(* action, and so is every stretch of a thread between two of them that    *)
(* touches nothing shared.                                                 *)
(***************************************************************************)
EXTENDS Integers, Sequences

CONSTANTS
    MaxMsgs,        \* bound: datagrams from the sender in a behaviour
    MaxReplies,     \* bound: datagrams from the receiver
    Lens,           \* values of the len field that the sender uses
    Loss, Corrupt,  \* may a packet be dropped, damaged
    BUFFER_SIZE,    \* 1000 in the code
    serialization_delay, delay

ASSUME LinkAssumption ==
    /\ MaxMsgs \in Nat /\ MaxReplies \in Nat /\ Lens \subseteq Nat
    /\ Loss \in BOOLEAN /\ Corrupt \in BOOLEAN
    /\ BUFFER_SIZE \in Nat \ {0}
    /\ serialization_delay \in Nat \ {0} /\ delay \in Nat

msg == [n : 1..MaxMsgs, len : Lens, ok : BOOLEAN]
\* a message of which one payload bit has been flipped
flipped(m) == [m EXCEPT !.ok = FALSE]

VARIABLES
    clock,          \* what now() returns
    s1, s2,         \* datagrams that wait in the two sockets
    link_up1, link_up2,
    buffer,         \* queue shared by two threads
    in_flight,      \* the scheduler's queue: messages with their finish_time
    crt_time, idle_time, stuff, \* locals of link_scheduler
    wake,           \* when its usleep() may return
    pc,             \* where link_scheduler is
    m, fw,          \* run_forwarding: its message and where it is
    out1, out2,     \* datagrams that have reached sender and receiver
    status, sent, replied

sched   == <<crt_time, idle_time, stuff, wake, in_flight>>
threads == <<sched, pc, buffer, m, fw, link_up1, link_up2, out1, out2, status>>
vars == <<clock, s1, s2, link_up1, link_up2, buffer, in_flight, crt_time,
          idle_time, stuff, wake, pc, m, fw, out1, out2, status, sent, replied>>

NoMsg == [n |-> 0, len |-> 0, ok |-> FALSE]

Init ==
    /\ clock = 0 /\ s1 = <<>> /\ s2 = <<>>
    /\ link_up1 = FALSE /\ link_up2 = FALSE
    /\ buffer = <<>> /\ in_flight = <<>>
    /\ crt_time = 0 /\ idle_time = 0 /\ stuff = FALSE /\ wake = 0
    /\ pc = "top" /\ m = NoMsg /\ fw = "receive"
    /\ out1 = <<>> /\ out2 = <<>>
    /\ status = "run" /\ sent = 0 /\ replied = 0

-----------------------------------------------------------------------------
(* link_scheduler                                                           *)

\* crt_time = now(): used until the next round, however late that is.
ReadClock ==
    /\ pc = "top"
    /\ crt_time' = clock /\ pc' = "send"
    /\ UNCHANGED <<clock, s1, s2, link_up1, link_up2, buffer, in_flight,
                   idle_time, stuff, wake, m, fw, out1, out2, status, sent,
                   replied>>

Due == in_flight # <<>> /\ crt_time >= Head(in_flight).finish_time

\* Variant: the packet stays in the queue.
leavesNot == UNCHANGED in_flight
leaves == in_flight' = Tail(in_flight)

\* One turn of the first loop; without an address sendto() fails.
SendDue ==
    /\ pc = "send" /\ Due
    /\ leaves
    /\ out2' = IF link_up2 THEN Append(out2, Head(in_flight).m) ELSE out2
    /\ UNCHANGED <<clock, s1, s2, link_up1, link_up2, buffer, crt_time,
                   idle_time, stuff, wake, pc, m, fw, out1, status, sent,
                   replied>>

\* Variant: "stuff" is only ever set.
SeesStuffLate == stuff \/ buffer # <<>>
SeesStuff == buffer # <<>>

\* The first critical section: is there anything in the buffer?
Peek ==
    /\ pc = "send" /\ ~Due
    /\ stuff' = SeesStuff /\ pc' = "plan"
    /\ UNCHANGED <<clock, s1, s2, link_up1, link_up2, buffer, in_flight,
                   crt_time, idle_time, wake, m, fw, out1, out2, status, sent,
                   replied>>

\* Variant: the channel is not marked as busy.
begin_flightIdle ==
    /\ UNCHANGED idle_time
    /\ in_flight' = Append(in_flight,
          [m |-> Head(buffer),
           finish_time |-> crt_time + serialization_delay + delay])
\* The message at the head goes on the wire.
begin_flight ==
    /\ idle_time' = crt_time + serialization_delay
    /\ in_flight' = Append(in_flight,
          [m |-> Head(buffer),
           finish_time |-> crt_time + serialization_delay + delay])

\* The second critical section, if the channel is idle: dequeue and enqueue.
Take ==
    /\ pc = "plan" /\ stuff /\ crt_time >= idle_time
    /\ begin_flight
    /\ buffer' = Tail(buffer)
    /\ pc' = "rest"
    /\ UNCHANGED <<clock, s1, s2, link_up1, link_up2, crt_time, stuff, wake, m,
                   fw, out1, out2, status, sent, replied>>

KeepAll ==
    /\ pc = "plan" /\ ~(stuff /\ crt_time >= idle_time)
    /\ pc' = "rest"
    /\ UNCHANGED <<clock, s1, s2, link_up1, link_up2, sched, buffer, m, fw, out1,
                   out2, status, sent, replied>>

wait_time_idle == idle_time - crt_time
wait_time_send ==
    IF in_flight = <<>> THEN 0 ELSE Head(in_flight).finish_time - crt_time

\* The shorter wait; with an idle channel the initial 0 stays.
wait_time ==
    IF wait_time_idle <= 0 THEN 0
    ELSE IF wait_time_send > 0 /\ wait_time_send < wait_time_idle
         THEN wait_time_send ELSE wait_time_idle

\* Variant: a packet in flight is no reason to stay awake.
MustWaitForIdle == wait_time_idle > 0
MustWait == wait_time_idle > 0 \/ wait_time_send > 0

Sleep ==
    /\ pc = "rest" /\ MustWait
    /\ wake' = clock + wait_time /\ pc' = "sleep"
    /\ UNCHANGED <<clock, s1, s2, link_up1, link_up2, buffer, in_flight,
                   crt_time, idle_time, stuff, m, fw, out1, out2, status, sent,
                   replied>>

Wake ==
    /\ pc = "sleep" /\ clock >= wake
    /\ pc' = "top"
    /\ UNCHANGED <<clock, s1, s2, link_up1, link_up2, sched, buffer, m, fw, out1,
                   out2, status, sent, replied>>

\* Nothing to wait for: on to the third critical section.
GoIdle ==
    /\ pc = "rest" /\ ~MustWait
    /\ pc' = "idle"
    /\ UNCHANGED <<clock, s1, s2, link_up1, link_up2, sched, buffer, m, fw, out1,
                   out2, status, sent, replied>>

\* assert(!buffer->size), then pthread_cond_wait() gives up the lock.
WaitOnCond ==
    /\ pc = "idle"
    /\ \/ buffer = <<>> /\ pc' = "wait" /\ UNCHANGED status
       \/ buffer # <<>> /\ status' = "aborted" /\ UNCHANGED pc
    /\ UNCHANGED <<clock, s1, s2, link_up1, link_up2, sched, buffer, m, fw, out1,
                   out2, sent, replied>>

\* pthread_cond_wait() may also return without a signal.
Spurious ==
    /\ pc = "wait"
    /\ pc' = "top"
    /\ UNCHANGED <<clock, s1, s2, link_up1, link_up2, sched, buffer, m, fw, out1,
                   out2, status, sent, replied>>

link_scheduler ==
    ReadClock \/ SendDue \/ Peek \/ Take \/ KeepAll \/ Sleep \/ Wake \/ GoIdle
    \/ WaitOnCond

-----------------------------------------------------------------------------
(* run_forwarding and run_reverse_forwarding                                *)

first_datagram == link_up1' = TRUE /\ UNCHANGED <<m, fw>>

\* receive_message1: the first datagram only tells the sender's address.
receive_message1 ==
    /\ fw = "receive" /\ s1 # <<>>
    /\ s1' = Tail(s1)
    /\ \/ ~link_up1 /\ first_datagram
       \/ link_up1 /\ m' = Head(s1) /\ fw' = "check" /\ UNCHANGED link_up1
    /\ UNCHANGED <<clock, s2, link_up2, sched, pc, buffer, out1, out2, status,
                   sent, replied>>

\* Variant: one more than fits.
OverflowLate == Len(buffer) > BUFFER_SIZE
Overflow == Len(buffer) >= BUFFER_SIZE

\* The first critical section, and what is decided after it; "% m->len" with an
\* empty message is a division by zero.
CheckSpace ==
    /\ fw = "check"
    /\ \/ /\ Overflow \/ Loss
          /\ fw' = "receive" /\ m' = NoMsg /\ UNCHANGED status
       \/ /\ ~Overflow
          /\ fw' = "enqueue" /\ UNCHANGED <<m, status>>
       \/ /\ ~Overflow /\ Corrupt /\ m.len > 0
          /\ fw' = "enqueue" /\ m' = flipped(m) /\ UNCHANGED status
       \/ /\ ~Overflow /\ Corrupt /\ m.len = 0
          /\ status' = "crashed" /\ UNCHANGED <<m, fw>>
    /\ UNCHANGED <<clock, s1, s2, link_up1, link_up2, sched, pc, buffer, out1,
                   out2, sent, replied>>

\* Variant: enqueue without a signal.
enqueue(x) == buffer' = Append(buffer, x)
signalNone == UNCHANGED pc
signal == pc' = IF pc = "wait" THEN "top" ELSE pc

\* The second critical section: the scheduler, if it waits, is woken.
Enqueue ==
    /\ fw = "enqueue"
    /\ enqueue(m) /\ signal
    /\ m' = NoMsg /\ fw' = "receive"
    /\ UNCHANGED <<clock, s1, s2, link_up1, link_up2, sched, out1, out2, status,
                   sent, replied>>

run_forwarding == receive_message1 \/ CheckSpace \/ Enqueue

receive_message2 == s2 # <<>> /\ s2' = Tail(s2) /\ link_up2' = TRUE
send_message1(r) == out1' = IF link_up1 THEN Append(out1, r) ELSE out1

\* Here too, the first datagram only tells the receiver's address.
run_reverse_forwarding ==
    /\ receive_message2
    /\ \/ ~link_up2 /\ UNCHANGED out1
       \/ link_up2 /\ send_message1(Head(s2))
    /\ UNCHANGED <<clock, s1, link_up1, sched, pc, buffer, m, fw, out2, status,
                   sent, replied>>

-----------------------------------------------------------------------------
(* The world: time, and the programs at both ends.                          *)

\* Time passes between any two steps, as far as some deadline lies ahead.
Tick ==
    /\ \/ clock < idle_time
       \/ pc = "sleep" /\ clock < wake
       \/ \E k \in DOMAIN in_flight : clock < in_flight[k].finish_time
    /\ clock' = clock + 1
    /\ UNCHANGED <<s1, s2, threads, sent, replied>>

Send(l) ==
    /\ sent < MaxMsgs
    /\ sent' = sent + 1
    /\ s1' = Append(s1, [n |-> sent + 1, len |-> l, ok |-> TRUE])
    /\ UNCHANGED <<clock, s2, threads, replied>>

Reply ==
    /\ replied < MaxReplies
    /\ replied' = replied + 1
    /\ s2' = Append(s2, replied + 1)
    /\ UNCHANGED <<clock, s1, threads, sent>>

Next ==
    /\ status = "run"
    /\ \/ link_scheduler \/ Spurious \/ run_forwarding \/ run_reverse_forwarding
       \/ Tick \/ (\E l \in Lens : Send(l)) \/ Reply

Spec == Init /\ [][Next]_vars

\* The threads run and time passes; what the two programs send is their affair.
Fairness ==
    /\ WF_vars(status = "run" /\ link_scheduler)
    /\ WF_vars(status = "run" /\ run_forwarding)
    /\ WF_vars(status = "run" /\ Tick)

FairSpec == Spec /\ Fairness

-----------------------------------------------------------------------------
(* Properties                                                               *)

TypeOK ==
    /\ clock \in Nat /\ crt_time \in Nat /\ idle_time \in Nat /\ wake \in Nat
    /\ s1 \in Seq(msg) /\ s2 \in Seq(1..MaxReplies)
    /\ link_up1 \in BOOLEAN /\ link_up2 \in BOOLEAN /\ stuff \in BOOLEAN
    /\ buffer \in Seq(msg)
    /\ in_flight \in Seq([m : msg, finish_time : Nat])
    /\ pc \in {"top", "send", "plan", "rest", "sleep", "idle", "wait"}
    /\ fw \in {"receive", "check", "enqueue"}
    /\ m \in msg \cup {NoMsg} /\ (fw # "receive" => m \in msg)
    /\ out1 \in Seq(1..MaxReplies) /\ out2 \in Seq(msg)
    /\ status \in {"run", "aborted", "crashed"}
    /\ sent \in 0..MaxMsgs /\ replied \in 0..MaxReplies

\* The size is tested in one critical section and the message added in another,
\* yet the buffer never outgrows its limit.
BufferBounded == Len(buffer) <= BUFFER_SIZE

\* dequeue() of the scheduler's second critical section always finds what its
\* first one saw (the assert on mif->m).
DequeueFindsOne == pc = "plan" /\ stuff => buffer # <<>>

\* The scheduler sleeps on the condition variable only when it has nothing left
\* to send: no packet in flight is forgotten, no signal is missed.
SleepsEmptyHanded == pc = "wait" => buffer = <<>> /\ in_flight = <<>>

\* Packets on the wire are a serialization delay apart, and the channel counts
\* as busy at least until the last one has been serialized.
Paced ==
    /\ \A j, k \in DOMAIN in_flight : j < k =>
          in_flight[k].finish_time - in_flight[j].finish_time
             >= serialization_delay
    /\ \A k \in DOMAIN in_flight : in_flight[k].finish_time <= idle_time + delay

held == IF fw = "enqueue" THEN <<m>> ELSE <<>>
transit == [k \in DOMAIN in_flight |-> in_flight[k].m] \o buffer \o held
entry == (IF fw = "check" THEN <<m>> ELSE <<>>) \o s1

\* What has been accepted leaves the emulator in the end, unless it halts.
Forwarded ==
    \A n \in 1..MaxMsgs :
        (\E k \in DOMAIN transit : transit[k].n = n)
        ~> (\A k \in DOMAIN transit : transit[k].n # n) \/ status # "run"

\* The emulator is a channel that keeps order.
Abstract == INSTANCE Channel WITH
    Message <- msg,
    Damage <- [x \in msg |-> IF Corrupt THEN {flipped(x)} ELSE {}],
    entry <- entry, transit <- transit, exit <- out2
IsChannel == Abstract!Spec

\* "assert(!buffer->size)" (link.c:272)
AssertHolds == status # "aborted"
=============================================================================
