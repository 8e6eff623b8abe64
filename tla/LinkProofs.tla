----------------------------- MODULE LinkProofs -----------------------------
(* Proofs about Link, for every size of the buffer, every delay and any      *)
(* number of datagrams.                                                      *)
EXTENDS Link, SequenceTheorems, TLAPS

USE LinkAssumption

-----------------------------------------------------------------------------
(* Sequences.                                                                *)

\* What is appended to a sequence in front comes before the sequence behind.
LEMMA AppendInFront ==
    ASSUME NEW S, NEW a \in Seq(S), NEW b \in Seq(S), NEW x \in S
    PROVE  Append(a, x) \o b = a \o (<<x>> \o b)
  <1>1. <<x>> \in Seq(S) /\ Append(a, x) = a \o <<x>>
    BY AppendIsConcat
  <1> QED BY <1>1, ConcatAssociative

LEMMA AppendBehind ==
    ASSUME NEW S, NEW a \in Seq(S), NEW b \in Seq(S), NEW x \in S
    PROVE  a \o Append(b, x) = Append(a \o b, x)
  <1>1. <<x>> \in Seq(S) /\ Append(b, x) = b \o <<x>>
    BY AppendIsConcat
  <1>2. a \o b \in Seq(S) /\ Append(a \o b, x) = (a \o b) \o <<x>>
    BY AppendIsConcat, ConcatProperties
  <1> QED BY <1>1, <1>2, ConcatAssociative

\* A sequence is its head and then its tail.
LEMMA HeadThenTail ==
    ASSUME NEW S, NEW a \in Seq(S), a # <<>>
    PROVE  a = <<Head(a)>> \o Tail(a) /\ Head(a) \in S /\ Tail(a) \in Seq(S)
  <1>1. Head(a) \in S /\ Tail(a) \in Seq(S) /\ Len(Tail(a)) = Len(a) - 1
        /\ \A i \in 1..Len(Tail(a)) : Tail(a)[i] = a[i + 1]
    BY HeadTailProperties
  <1>2. Len(a) \in Nat /\ a[1] = Head(a)
    BY LenProperties
  <1>3. <<Head(a)>> \in Seq(S) /\ Len(<<Head(a)>>) = 1 /\ <<Head(a)>>[1] = Head(a)
    BY <1>1
  <1> DEFINE b == <<Head(a)>> \o Tail(a)
  <1>4. b \in Seq(S) /\ Len(b) = 1 + Len(Tail(a))
        /\ \A i \in 1..(1 + Len(Tail(a))) :
              b[i] = IF i <= 1 THEN <<Head(a)>>[i] ELSE Tail(a)[i - 1]
    BY <1>1, <1>3, ConcatProperties
  <1>5. Len(a) = Len(b) /\ \A i \in 1..Len(a) : a[i] = b[i]
    <2> HIDE DEF b
    <2> QED BY <1>1, <1>2, <1>3, <1>4
  <1>6. a = b
    BY <1>4, <1>5, SeqEqual
  <1> QED BY <1>1, <1>6

LEMMA HeadOfFront ==
    ASSUME NEW S, NEW b \in Seq(S), NEW x \in S
    PROVE  /\ <<x>> \o b \in Seq(S) /\ <<x>> \o b # <<>>
           /\ Head(<<x>> \o b) = x /\ Tail(<<x>> \o b) = b
  <1> DEFINE a == <<x>> \o b
  <1>1. <<x>> \in Seq(S) /\ Len(<<x>>) = 1 /\ <<x>>[1] = x
    OBVIOUS
  <1>2. a \in Seq(S) /\ Len(a) = 1 + Len(b)
        /\ \A i \in 1..(1 + Len(b)) : a[i] = IF i <= 1 THEN <<x>>[i] ELSE b[i - 1]
    BY <1>1, ConcatProperties
  <1>3. Len(b) \in Nat
    BY LenProperties
  <1> HIDE DEF a
  <1>4. a # <<>> /\ Head(a) = x
    BY <1>1, <1>2, <1>3
  <1>5. Tail(a) \in Seq(S) /\ Len(Tail(a)) = Len(a) - 1
        /\ \A i \in 1..Len(Tail(a)) : Tail(a)[i] = a[i + 1]
    BY <1>2, <1>4, HeadTailProperties
  <1>6. Len(Tail(a)) = Len(b) /\ \A i \in 1..Len(b) : Tail(a)[i] = b[i]
    BY <1>2, <1>3, <1>5
  <1>7. Tail(a) = b
    BY <1>5, <1>6, SeqEqual
  <1> QED BY <1>2, <1>4, <1>7 DEF a

LEMMA FrontOfConcat ==
    ASSUME NEW S, NEW a \in Seq(S), NEW b \in Seq(S), a # <<>>
    PROVE  a \o b # <<>> /\ Head(a \o b) = Head(a) /\ Tail(a \o b) = Tail(a) \o b
  <1> DEFINE h == Head(a)
             t == Tail(a)
  <1>1. h \in S /\ t \in Seq(S) /\ a = <<h>> \o t
    BY HeadThenTail
  <1> HIDE DEF h, t
  <1>2. <<h>> \in Seq(S)
    BY <1>1
  <1>3. a \o b = <<h>> \o (t \o b) /\ t \o b \in Seq(S)
    BY <1>1, <1>2, ConcatAssociative, ConcatProperties
  <1>4. a \o b # <<>> /\ Head(a \o b) = h /\ Tail(a \o b) = t \o b
    BY <1>1, <1>3, HeadOfFront
  <1> QED BY <1>4 DEF h, t

\* The messages of a sequence of packets in flight.
Flight    == [m : msg, finish_time : Nat]
carried(q) == [k \in DOMAIN q |-> q[k].m]

LEMMA CarriedIsSeq ==
    ASSUME NEW q \in Seq(Flight)
    PROVE  carried(q) \in Seq(msg) /\ Len(carried(q)) = Len(q)
           /\ DOMAIN q = 1..Len(q) /\ \A k \in 1..Len(q) : carried(q)[k] = q[k].m
  <1>1. Len(q) \in Nat /\ DOMAIN q = 1..Len(q)
    BY LenProperties
  <1>2. \A k \in 1..Len(q) : q[k] \in Flight
    BY ElementOfSeq
  <1>3. \A k \in 1..Len(q) : q[k].m \in msg
    BY <1>2 DEF Flight
  <1>4. carried(q) \in [1..Len(q) -> msg]
    BY <1>1, <1>3 DEF carried
  <1>5. carried(q) \in Seq(msg) /\ Len(carried(q)) = Len(q)
    BY <1>1, <1>4
  <1> QED BY <1>1, <1>5 DEF carried

LEMMA CarriedAppend ==
    ASSUME NEW q \in Seq(Flight), NEW p \in Flight
    PROVE  carried(Append(q, p)) = Append(carried(q), p.m)
  <1>1. Append(q, p) \in Seq(Flight) /\ Len(Append(q, p)) = Len(q) + 1 /\ Len(q) \in Nat
        /\ (\A i \in 1..Len(q) : Append(q, p)[i] = q[i]) /\ Append(q, p)[Len(q) + 1] = p
    BY AppendProperties, LenProperties
  <1>2. p.m \in msg /\ carried(q) \in Seq(msg) /\ Len(carried(q)) = Len(q)
    BY CarriedIsSeq DEF Flight
  <1>3. Append(carried(q), p.m) \in Seq(msg)
        /\ Len(Append(carried(q), p.m)) = Len(q) + 1
        /\ (\A i \in 1..Len(q) : Append(carried(q), p.m)[i] = carried(q)[i])
        /\ Append(carried(q), p.m)[Len(q) + 1] = p.m
    BY <1>2, AppendProperties
  <1>4. carried(Append(q, p)) \in Seq(msg) /\ Len(carried(Append(q, p))) = Len(q) + 1
        /\ \A i \in 1..(Len(q) + 1) : carried(Append(q, p))[i] = Append(q, p)[i].m
    BY <1>1, CarriedIsSeq
  <1>5. \A i \in 1..(Len(q) + 1) : carried(Append(q, p))[i] = Append(carried(q), p.m)[i]
    BY <1>1, <1>3, <1>4, CarriedIsSeq
  <1> QED BY <1>3, <1>4, <1>5, SeqEqual

LEMMA CarriedTail ==
    ASSUME NEW q \in Seq(Flight), q # <<>>
    PROVE  /\ carried(q) # <<>>
           /\ Head(carried(q)) = Head(q).m /\ Tail(carried(q)) = carried(Tail(q))
  <1>1. Tail(q) \in Seq(Flight) /\ Len(Tail(q)) = Len(q) - 1 /\ Len(q) \in Nat
        /\ (\A i \in 1..Len(Tail(q)) : Tail(q)[i] = q[i + 1]) /\ Len(q) > 0
        /\ Head(q) = q[1]
    BY HeadTailProperties, EmptySeq
  <1>2. carried(q) \in Seq(msg) /\ Len(carried(q)) = Len(q)
        /\ \A k \in 1..Len(q) : carried(q)[k] = q[k].m
    BY CarriedIsSeq
  <1>3. carried(q) # <<>> /\ Head(carried(q)) = Head(q).m
    BY <1>1, <1>2
  <1>4. Tail(carried(q)) \in Seq(msg) /\ Len(Tail(carried(q))) = Len(q) - 1
        /\ \A i \in 1..(Len(q) - 1) : Tail(carried(q))[i] = carried(q)[i + 1]
    BY <1>2, <1>3, HeadTailProperties
  <1>5. carried(Tail(q)) \in Seq(msg) /\ Len(carried(Tail(q))) = Len(q) - 1
        /\ \A i \in 1..(Len(q) - 1) : carried(Tail(q))[i] = Tail(q)[i].m
    BY <1>1, CarriedIsSeq
  <1>6. \A i \in 1..(Len(q) - 1) : carried(Tail(q))[i] = Tail(carried(q))[i]
    BY <1>1, <1>2, <1>4, <1>5
  <1> QED BY <1>3, <1>4, <1>5, <1>6, SeqEqual

-----------------------------------------------------------------------------
(* Types.                                                                    *)

LEMMA InitType == Init => TypeOK
  <1> SUFFICES ASSUME Init PROVE TypeOK
    OBVIOUS
  <1>1. <<>> \in Seq(msg) /\ <<>> \in Seq(1..MaxReplies)
        /\ <<>> \in Seq([m : msg, finish_time : Nat])
    OBVIOUS
  <1>2. s1 \in Seq(msg) /\ s2 \in Seq(1..MaxReplies) /\ buffer \in Seq(msg)
        /\ in_flight \in Seq([m : msg, finish_time : Nat])
        /\ out1 \in Seq(1..MaxReplies) /\ out2 \in Seq(msg)
    BY <1>1 DEF Init
  <1>3. sent \in 0..MaxMsgs /\ replied \in 0..MaxReplies
    BY DEF Init
  <1>4. m \in msg \cup {NoMsg} /\ (fw # "receive" => m \in msg)
    BY DEF Init
  <1> QED BY <1>2, <1>3, <1>4 DEF Init, TypeOK

LEMMA StepType == TypeOK /\ DequeueFindsOne /\ [Next]_vars => TypeOK'
  <1> SUFFICES ASSUME TypeOK, DequeueFindsOne, [Next]_vars PROVE TypeOK'
    OBVIOUS
  <1> USE DEF TypeOK
  <1>1. CASE ReadClock
    BY <1>1 DEF ReadClock
  <1>2. CASE SendDue
    <2>1. in_flight # <<>> /\ in_flight' = Tail(in_flight)
      BY <1>2 DEF SendDue, Due, leaves
    <2>2. in_flight' \in Seq(Flight) /\ Head(in_flight) \in Flight
      BY <2>1, HeadTailProperties DEF Flight
    <2>3. Head(in_flight).m \in msg
      BY <2>2 DEF Flight
    <2>4. out2' \in Seq(msg)
      BY <1>2, <2>3, AppendProperties DEF SendDue
    <2> QED BY <1>2, <2>2, <2>4 DEF SendDue, Flight
  <1>3. CASE Peek
    BY <1>3 DEF Peek, SeesStuff
  <1>4. CASE Take
    <2>1. Head(buffer) \in msg /\ Tail(buffer) \in Seq(msg)
      BY <1>4, HeadTailProperties DEF Take, DequeueFindsOne
    <2>2. crt_time + serialization_delay \in Nat
          /\ crt_time + serialization_delay + delay \in Nat
      OBVIOUS
    <2>3. [m |-> Head(buffer),
           finish_time |-> crt_time + serialization_delay + delay] \in Flight
      BY <2>1, <2>2 DEF Flight
    <2>4. in_flight' \in Seq(Flight)
      BY <1>4, <2>3, AppendProperties DEF Take, begin_flight, Flight
    <2> QED BY <1>4, <2>1, <2>2, <2>4 DEF Take, begin_flight, Flight
  <1>5. CASE KeepAll \/ Wake \/ GoIdle \/ WaitOnCond \/ Spurious
    <2>1. /\ pc' \in {"top", "rest", "sleep", "idle", "wait"}
          /\ status' = status \/ status' = "aborted"
          /\ UNCHANGED <<clock, s1, s2, link_up1, link_up2, sched, buffer, m, fw, out1,
                         out2, sent, replied>>
      BY <1>5 DEF KeepAll, Wake, GoIdle, WaitOnCond, Spurious
    <2>2. pc' = "idle" \/ pc' \in {"top", "rest", "sleep", "wait"}
      BY <2>1
    <2> QED BY <2>1, <2>2 DEF sched
  <1>6. CASE Sleep
    <2>1. wait_time_send \in Int
      <3>1. CASE in_flight = <<>>
        BY <3>1 DEF wait_time_send
      <3>2. CASE in_flight # <<>>
        <4>1. Head(in_flight) \in Flight
          BY <3>2, HeadTailProperties DEF Flight
        <4> QED BY <3>2, <4>1 DEF wait_time_send, Flight
      <3> QED BY <3>1, <3>2
    <2>2. wait_time \in Nat
      BY <2>1 DEF wait_time, wait_time_idle
    <2>3. wake' \in Nat
      BY <1>6, <2>2 DEF Sleep
    <2> QED BY <1>6, <2>3 DEF Sleep
  <1>7. CASE receive_message1
    <2>1. Head(s1) \in msg /\ Tail(s1) \in Seq(msg)
      BY <1>7, HeadTailProperties DEF receive_message1
    <2> QED BY <1>7, <2>1 DEF receive_message1, first_datagram, sched
  <1>8. CASE CheckSpace
    <2>1. m \in msg /\ flipped(m) \in msg
      BY <1>8 DEF CheckSpace, flipped, msg
    <2> QED BY <1>8, <2>1 DEF CheckSpace, sched
  <1>9. CASE Enqueue
    <2>1. buffer' \in Seq(msg)
      BY <1>9, AppendProperties DEF Enqueue, enqueue
    <2>2. pc' \in {"top", "send", "plan", "rest", "sleep", "idle", "wait"}
      BY <1>9 DEF Enqueue, signal
    <2> QED BY <1>9, <2>1, <2>2 DEF Enqueue, sched
  <1>10. CASE run_reverse_forwarding
    <2>1. Head(s2) \in 1..MaxReplies /\ Tail(s2) \in Seq(1..MaxReplies)
      BY <1>10, HeadTailProperties DEF run_reverse_forwarding, receive_message2, send_message1
    <2>2. Append(out1, Head(s2)) \in Seq(1..MaxReplies)
      BY <2>1, AppendProperties
    <2> QED BY <1>10, <2>1, <2>2 DEF run_reverse_forwarding, receive_message2, send_message1, sched
  <1>11. CASE Tick
    BY <1>11 DEF Tick, threads, sched
  <1>12. ASSUME NEW x \in Lens, Send(x) PROVE TypeOK'
    <2>1. [n |-> sent + 1, len |-> x, ok |-> TRUE] \in msg
      BY <1>12 DEF Send, msg
    <2>2. s1' \in Seq(msg)
      BY <1>12, <2>1, AppendProperties DEF Send
    <2> QED BY <1>12, <2>2 DEF Send, threads, sched
  <1>13. CASE Reply
    <2>1. s2' \in Seq(1..MaxReplies)
      BY <1>13, AppendProperties DEF Reply
    <2> QED BY <1>13, <2>1 DEF Reply, threads, sched
  <1>14. CASE UNCHANGED vars
    BY <1>14 DEF vars
  <1> QED BY <1>1, <1>2, <1>3, <1>4, <1>5, <1>6, <1>7, <1>8, <1>9, <1>10, <1>11,
             <1>12, <1>13, <1>14 DEF Next, link_scheduler, run_forwarding

-----------------------------------------------------------------------------
(* What one critical section knows of another.                               *)

\* A message that has passed the test of the size still has its place.
PlaceKept == fw = "enqueue" => Len(buffer) < BUFFER_SIZE

\* Where the scheduler is, and what it has left in flight.
Rested ==
    /\ pc \in {"plan", "rest"} /\ in_flight # <<>>
          => Head(in_flight).finish_time > crt_time
    /\ pc \in {"idle", "wait"} => in_flight = <<>>
    /\ pc = "wait" => buffer = <<>>

Sections == BufferBounded /\ PlaceKept /\ DequeueFindsOne /\ Rested

LEMMA InitSections == Init => Sections
  BY DEF Init, Sections, BufferBounded, PlaceKept, DequeueFindsOne, Rested

LEMMA StepSections == TypeOK /\ Sections /\ [Next]_vars => Sections'
  <1> SUFFICES ASSUME TypeOK, Sections, [Next]_vars PROVE Sections'
    OBVIOUS
  <1> USE DEF Sections
  <1>t. buffer \in Seq(msg) /\ in_flight \in Seq(Flight) /\ Len(buffer) \in Nat
        /\ crt_time \in Nat /\ Len(in_flight) \in Nat
    BY LenProperties DEF TypeOK, Flight
  <1>1. CASE SendDue
    BY <1>1 DEF SendDue, BufferBounded, PlaceKept, DequeueFindsOne, Rested
  <1>2. CASE Peek
    <2>1. in_flight # <<>> => Head(in_flight).finish_time > crt_time
      <3>1. in_flight # <<>> => Head(in_flight) \in Flight
        BY <1>t, HeadTailProperties
      <3> QED BY <1>2, <1>t, <3>1 DEF Peek, Due, Flight
    <2> QED BY <1>2, <2>1 DEF Peek, SeesStuff, BufferBounded, PlaceKept,
                              DequeueFindsOne, Rested
  <1>3. CASE Take
    <2> DEFINE p == [m |-> Head(buffer),
                     finish_time |-> crt_time + serialization_delay + delay]
    <2>1. buffer # <<>>
      BY <1>3 DEF Take, DequeueFindsOne
    <2>2. Len(buffer') = Len(buffer) - 1
      BY <1>3, <1>t, <2>1, HeadTailProperties DEF Take
    <2>3. BufferBounded' /\ PlaceKept'
      BY <1>3, <1>t, <2>2 DEF Take, BufferBounded, PlaceKept
    <2>4. Head(in_flight').finish_time > crt_time
      <3>1. p \in Flight
        BY <1>t, <2>1, HeadTailProperties DEF Flight
      <3>2. in_flight' = Append(in_flight, p)
        BY <1>3 DEF Take, begin_flight
      <3>3. CASE in_flight = <<>>
        <4>1. Head(in_flight') = p
          BY <3>2, <3>3
        <4> QED BY <1>t, <4>1
      <3>4. CASE in_flight # <<>>
        <4>1. Len(in_flight) > 0
          BY <1>t, <3>4, EmptySeq
        <4>2. Head(in_flight') = Head(in_flight)
          BY <1>t, <3>1, <3>2, <4>1, AppendProperties
        <4> QED BY <1>3, <3>4, <4>2 DEF Take, Rested
      <3> QED BY <3>3, <3>4
    <2> QED BY <1>3, <2>3, <2>4 DEF Take, DequeueFindsOne, Rested
  <1>4. CASE GoIdle
    <2>1. in_flight = <<>>
      <3>1. SUFFICES ASSUME in_flight # <<>> PROVE FALSE
        OBVIOUS
      <3>2. Head(in_flight) \in Flight
        BY <1>t, <3>1, HeadTailProperties
      <3> QED BY <1>4, <1>t, <3>1, <3>2 DEF GoIdle, MustWait, wait_time_send, Rested, Flight
    <2> QED BY <1>4, <2>1 DEF GoIdle, sched, BufferBounded, PlaceKept, DequeueFindsOne, Rested
  <1>5. CASE ReadClock \/ KeepAll \/ Sleep \/ Wake \/ WaitOnCond \/ Spurious
    BY <1>5 DEF ReadClock, KeepAll, Sleep, Wake, WaitOnCond, Spurious, sched,
                BufferBounded, PlaceKept, DequeueFindsOne, Rested
  <1>6. CASE receive_message1
    BY <1>6 DEF receive_message1, first_datagram, sched,
                BufferBounded, PlaceKept, DequeueFindsOne, Rested
  <1>7. CASE CheckSpace
    BY <1>7, <1>t DEF CheckSpace, Overflow, sched,
                BufferBounded, PlaceKept, DequeueFindsOne, Rested
  <1>8. CASE Enqueue
    <2>1. buffer' = Append(buffer, m) /\ m \in msg
      BY <1>8 DEF Enqueue, enqueue, TypeOK
    <2>2. Len(buffer') = Len(buffer) + 1 /\ buffer' # <<>>
      BY <1>t, <2>1, AppendProperties
    <2> QED BY <1>8, <1>t, <2>2 DEF Enqueue, signal, sched,
                BufferBounded, PlaceKept, DequeueFindsOne, Rested
  <1>9. CASE run_reverse_forwarding
    BY <1>9 DEF run_reverse_forwarding, receive_message2, send_message1, sched,
                BufferBounded, PlaceKept, DequeueFindsOne, Rested
  <1>10. CASE Tick \/ (\E x \in Lens : Send(x)) \/ Reply
    <2>1. UNCHANGED threads
      BY <1>10 DEF Tick, Send, Reply
    <2> QED BY <2>1 DEF threads, sched,
                BufferBounded, PlaceKept, DequeueFindsOne, Rested
  <1>11. CASE UNCHANGED vars
    BY <1>11 DEF vars, BufferBounded, PlaceKept, DequeueFindsOne, Rested
  <1> QED BY <1>1, <1>2, <1>3, <1>4, <1>5, <1>6, <1>7, <1>8, <1>9, <1>10, <1>11
          DEF Next, link_scheduler, run_forwarding

LEMMA Inductive == Spec => [](TypeOK /\ Sections)
  <1>1. TypeOK /\ Sections /\ [Next]_vars => (TypeOK /\ Sections)'
    BY StepType, StepSections DEF Sections
  <1> QED BY InitType, InitSections, <1>1, PTL DEF Spec

\* Every variable keeps its type.
THEOREM TypeCorrect == Spec => []TypeOK
  BY Inductive, PTL

\* The buffer never outgrows its limit, although run_forwarding tests the size
\* in one critical section and enqueues in another.
THEOREM BufferStaysBounded == Spec => []BufferBounded
  <1>1. Sections => BufferBounded
    BY DEF Sections
  <1> QED BY <1>1, Inductive, PTL

\* The scheduler's dequeue() finds the message that its first critical section
\* saw.
THEOREM DequeueSucceeds == Spec => []DequeueFindsOne
  <1>1. Sections => DequeueFindsOne
    BY DEF Sections
  <1> QED BY <1>1, Inductive, PTL

\* pthread_cond_wait() is entered only when nothing is left to be sent.
THEOREM NothingLeftAsleep == Spec => []SleepsEmptyHanded
  <1>1. Sections => SleepsEmptyHanded
    BY DEF Sections, Rested, SleepsEmptyHanded
  <1> QED BY <1>1, Inductive, PTL

-----------------------------------------------------------------------------
(* The pace of the packets on the wire.                                      *)

LEMMA InitPaced == Init => Paced
  BY DEF Init, Paced

LEMMA StepPaced == TypeOK /\ Sections /\ Paced /\ [Next]_vars => Paced'
  <1> SUFFICES ASSUME TypeOK, Sections, Paced, [Next]_vars PROVE Paced'
    OBVIOUS
  <1>t. buffer \in Seq(msg) /\ in_flight \in Seq(Flight) /\ Len(in_flight) \in Nat
        /\ DOMAIN in_flight = 1..Len(in_flight)
        /\ crt_time \in Nat /\ idle_time \in Nat
        /\ \A k \in 1..Len(in_flight) : in_flight[k].finish_time \in Nat
    <2>1. \A k \in 1..Len(in_flight) : in_flight[k] \in Flight
      BY ElementOfSeq DEF TypeOK, Flight
    <2> QED BY <2>1, LenProperties DEF TypeOK, Flight
  <1>1. CASE SendDue
    <2>1. in_flight # <<>> /\ in_flight' = Tail(in_flight) /\ idle_time' = idle_time
      BY <1>1 DEF SendDue, Due, leaves
    <2>2. Tail(in_flight) \in Seq(Flight) /\ Len(Tail(in_flight)) = Len(in_flight) - 1
          /\ \A i \in 1..(Len(in_flight) - 1) : Tail(in_flight)[i] = in_flight[i + 1]
      BY <1>t, <2>1, HeadTailProperties
    <2>3. DOMAIN in_flight' = 1..(Len(in_flight) - 1)
      BY <2>1, <2>2, LenProperties
    <2>4. ASSUME NEW k \in 1..(Len(in_flight) - 1) PROVE k + 1 \in 1..Len(in_flight)
      BY ONLY <1>t
    <2>5. \A k \in DOMAIN in_flight' : in_flight'[k].finish_time <= idle_time' + delay
      BY ONLY <1>t, <2>1, <2>2, <2>3, <2>4, Paced DEF Paced
    <2>6. ASSUME NEW j \in DOMAIN in_flight', NEW k \in DOMAIN in_flight', j < k
          PROVE  in_flight'[k].finish_time - in_flight'[j].finish_time >= serialization_delay
      <3>1. /\ j + 1 \in DOMAIN in_flight /\ k + 1 \in DOMAIN in_flight /\ j + 1 < k + 1
            /\ in_flight'[j] = in_flight[j + 1] /\ in_flight'[k] = in_flight[k + 1]
        BY ONLY <1>t, <2>1, <2>2, <2>3, <2>4, <2>6
      <3> QED BY ONLY <3>1, Paced DEF Paced
    <2> QED BY <2>5, <2>6 DEF Paced
  <1>2. CASE Take
    <2> DEFINE p == [m |-> Head(buffer),
                     finish_time |-> crt_time + serialization_delay + delay]
    <2>1. buffer # <<>> /\ in_flight' = Append(in_flight, p)
          /\ idle_time' = crt_time + serialization_delay /\ crt_time >= idle_time
      BY <1>2 DEF Take, begin_flight, Sections, DequeueFindsOne
    <2>2. p \in Flight /\ p.finish_time = crt_time + serialization_delay + delay
      BY <1>t, <2>1, HeadTailProperties DEF Flight
    <2> HIDE DEF p
    <2>3. in_flight' \in Seq(Flight) /\ Len(in_flight') = Len(in_flight) + 1
          /\ (\A i \in 1..Len(in_flight) : in_flight'[i] = in_flight[i])
          /\ in_flight'[Len(in_flight) + 1] = p
      BY <1>t, <2>1, <2>2, AppendProperties
    <2>4. DOMAIN in_flight' = 1..(Len(in_flight) + 1)
      BY <2>3, LenProperties
    <2>5. \A k \in 1..Len(in_flight) : in_flight[k].finish_time <= idle_time + delay
      BY <1>t DEF Paced
    <2>6. \A k \in 1..Len(in_flight) :
             in_flight'[k].finish_time <= idle_time' + delay
             /\ p.finish_time - in_flight'[k].finish_time >= serialization_delay
      BY <1>t, <2>1, <2>2, <2>3, <2>5
    <2>7. p.finish_time <= idle_time' + delay
      BY <1>t, <2>1, <2>2
    <2>8. \A k \in DOMAIN in_flight' : in_flight'[k].finish_time <= idle_time' + delay
      BY <1>t, <2>3, <2>4, <2>6, <2>7
    <2>9. ASSUME NEW j \in DOMAIN in_flight', NEW k \in DOMAIN in_flight', j < k
          PROVE  in_flight'[k].finish_time - in_flight'[j].finish_time
                    >= serialization_delay
      <3>1. j \in 1..Len(in_flight) /\ k \in 1..(Len(in_flight) + 1)
        BY <1>t, <2>4, <2>9
      <3>2. CASE k = Len(in_flight) + 1
        BY <2>3, <2>6, <3>1, <3>2
      <3>3. CASE k # Len(in_flight) + 1
        BY <1>t, <2>3, <2>9, <3>1, <3>3 DEF Paced
      <3> QED BY <3>2, <3>3
    <2> QED BY <2>8, <2>9 DEF Paced
  <1>3. CASE UNCHANGED <<in_flight, idle_time>>
    BY <1>3 DEF Paced
  <1>4. [Next]_vars => SendDue \/ Take \/ UNCHANGED <<in_flight, idle_time>>
    BY DEF Next, link_scheduler, ReadClock, Peek, KeepAll, Sleep, Wake, GoIdle,
           WaitOnCond, Spurious, run_forwarding, receive_message1, CheckSpace, Enqueue,
           run_reverse_forwarding, receive_message2, send_message1, Tick, Send, Reply, threads, sched, vars
  <1> QED BY <1>1, <1>2, <1>3, <1>4

\* Packets in flight are a serialization delay apart, although the time they
\* are planned by is that of the beginning of the round.
THEOREM PaceKept == Spec => []Paced
  <1>1. TypeOK /\ Sections /\ Paced /\ [Next]_vars => Paced'
    BY StepPaced
  <1> QED BY <1>1, InitPaced, Inductive, PTL DEF Spec

-----------------------------------------------------------------------------
(* The emulator implements Channel.                                          *)

LEMMA InitChannel == Init => Abstract!Init
  <1> SUFFICES ASSUME Init PROVE Abstract!Init
    OBVIOUS
  <1>1. [k \in DOMAIN in_flight |-> in_flight[k].m] = <<>>
    BY DEF Init
  <1>2. transit = <<>> /\ entry = <<>> /\ out2 = <<>>
    BY <1>1 DEF Init, transit, entry, held
  <1> QED BY <1>2 DEF Abstract!Init

\* What is in the emulator, in the order in which it will leave.
LEMMA Parts ==
    ASSUME NEW f \in Seq(Flight), NEW b \in Seq(msg), NEW h \in Seq(msg)
    PROVE  /\ carried(f) \in Seq(msg) /\ b \o h \in Seq(msg)
           /\ (carried(f) \o b) \o h = carried(f) \o (b \o h)
           /\ carried(f) \o b \in Seq(msg)
           /\ (carried(f) \o b) \o h \in Seq(msg)
           /\ b \o <<>> = b /\ <<>> \o b = b
  <1>1. carried(f) \in Seq(msg)
    BY CarriedIsSeq
  <1> QED BY SMTT(20), <1>1, ConcatAssociative, ConcatProperties, ConcatEmptySeq

LEMMA StepChannel ==
    ASSUME TypeOK, TypeOK', DequeueFindsOne, [Next]_vars
    PROVE  [Abstract!Next]_(Abstract!chan)
  <1> DEFINE fl == carried(in_flight)
  <1>1. /\ in_flight \in Seq(Flight) /\ buffer \in Seq(msg) /\ s1 \in Seq(msg)
        /\ held \in Seq(msg) /\ (fw # "receive" => m \in msg)
    BY DEF TypeOK, Flight, held
  <1>2. /\ in_flight' \in Seq(Flight) /\ buffer' \in Seq(msg) /\ s1' \in Seq(msg)
        /\ held' \in Seq(msg) /\ (fw' # "receive" => m' \in msg)
    BY DEF TypeOK, Flight, held
  <1>3. fl \in Seq(msg) /\ transit = (fl \o buffer) \o held
        /\ transit = fl \o (buffer \o held) /\ fl \o buffer \in Seq(msg)
        /\ transit \in Seq(msg) /\ buffer \o held \in Seq(msg)
    <2>1. transit = (fl \o buffer) \o held
      BY DEF transit, carried
    <2> QED BY SMTT(20), <1>1, <2>1, Parts
  <1>4. transit' = (carried(in_flight') \o buffer') \o held'
        /\ transit' = carried(in_flight') \o (buffer' \o held')
    BY <1>2, Parts DEF transit, carried
  <1>5. (fw = "check" => entry = <<m>> \o s1) /\ (fw # "check" => entry = s1)
    BY <1>1, ConcatEmptySeq DEF entry
  <1>6. (fw' = "check" => entry' = <<m'>> \o s1') /\ (fw' # "check" => entry' = s1')
    BY <1>2, ConcatEmptySeq DEF entry
  <1> HIDE DEF fl
  \* Nothing moves.
  <1>7. CASE UNCHANGED <<in_flight, buffer, m, fw, s1, out2>>
    <2>1. transit' = transit /\ entry' = entry
      BY <1>7 DEF transit, entry, held
    <2> QED BY <1>7, <2>1 DEF Abstract!chan
  \* Deliver, or Lose before the receiver's address is known.
  <1>8. CASE SendDue
    <2>1. in_flight # <<>> /\ in_flight' = Tail(in_flight)
          /\ UNCHANGED <<buffer, m, fw, s1>>
          /\ out2' = IF link_up2 THEN Append(out2, Head(in_flight).m) ELSE out2
      BY <1>8 DEF SendDue, Due, leaves
    <2>2. fl # <<>> /\ Head(fl) = Head(in_flight).m /\ Tail(fl) = carried(in_flight')
      BY <1>1, <2>1, CarriedTail DEF fl
    <2>3. transit # <<>> /\ Head(transit) = Head(fl)
          /\ Tail(transit) = Tail(fl) \o (buffer \o held)
      BY SMTT(20), <1>3, <2>2, FrontOfConcat
    <2>4. held' = held /\ entry' = entry
      BY <2>1 DEF held, entry
    <2>5. transit' = Tail(transit)
      BY <1>4, <2>1, <2>2, <2>3, <2>4
    <2> QED BY <2>1, <2>2, <2>3, <2>4, <2>5
        DEF Abstract!Next, Abstract!Deliver, Abstract!Lose
  \* From the buffer to the wire: nothing that a user of the channel sees.
  <1>9. CASE Take
    <2> DEFINE p == [m |-> Head(buffer),
                     finish_time |-> crt_time + serialization_delay + delay]
    <2>1. buffer # <<>> /\ in_flight' = Append(in_flight, p)
          /\ buffer' = Tail(buffer) /\ UNCHANGED <<m, fw, s1, out2>>
      BY <1>9 DEF Take, begin_flight, DequeueFindsOne
    <2>2. Head(buffer) \in msg /\ buffer = <<Head(buffer)>> \o Tail(buffer)
          /\ Tail(buffer) \in Seq(msg)
      BY <1>1, <2>1, HeadThenTail
    <2>3. p \in Flight /\ p.m = Head(buffer)
      BY <2>2 DEF Flight, TypeOK
    <2>4. carried(in_flight') = Append(fl, Head(buffer))
      BY <1>1, <2>1, <2>3, CarriedAppend DEF fl
    <2>5. Append(fl, Head(buffer)) \o Tail(buffer) = fl \o buffer
      BY <1>3, <2>2, AppendInFront
    <2>6. held' = held /\ entry' = entry
      BY <2>1 DEF held, entry
    <2>7. transit' = transit
      BY <1>3, <1>4, <2>1, <2>4, <2>5, <2>6
    <2> QED BY <2>1, <2>6, <2>7 DEF Abstract!chan
  \* Drop of the first datagram, or on to the next stage.
  <1>10. CASE receive_message1
    <2>1. fw = "receive" /\ s1 # <<>> /\ s1' = Tail(s1)
          /\ UNCHANGED <<in_flight, buffer, out2>>
      BY <1>10 DEF receive_message1, sched
    <2>2. held = <<>> /\ entry = s1
      BY <1>5, <2>1 DEF held
    <2>3. CASE fw' = fw /\ m' = m
      <3>1. held' = held /\ transit' = transit /\ entry' = Tail(entry)
        BY <1>6, <2>1, <2>2, <2>3 DEF held, transit
      <3> QED BY <2>1, <2>2, <3>1 DEF Abstract!Next, Abstract!Drop
    <2>4. CASE m' = Head(s1) /\ fw' = "check"
      <3>1. held' = held /\ transit' = transit
        BY <2>1, <2>2, <2>4 DEF held, transit
      <3>2. entry' = s1
        BY <1>1, <1>6, <2>1, <2>4, HeadThenTail
      <3> QED BY <2>1, <2>2, <3>1, <3>2 DEF Abstract!chan
    <2> QED BY <1>10, <2>3, <2>4 DEF receive_message1, first_datagram
  \* Drop, Accept of the message or a damaged one, or the end.
  <1>11. CASE CheckSpace
    <2>1. fw = "check" /\ UNCHANGED <<in_flight, buffer, out2, s1>> /\ m \in msg
      BY <1>1, <1>11 DEF CheckSpace, sched
    <2>2. held = <<>> /\ entry = <<m>> \o s1
      BY <1>5, <2>1 DEF held
    <2>3. entry # <<>> /\ Head(entry) = m /\ Tail(entry) = s1
      BY <1>1, <2>1, <2>2, HeadOfFront
    <2>4. transit = fl \o buffer
      BY <1>3, <2>2, ConcatEmptySeq
    <2>5. CASE fw' = "receive"
      <3>1. held' = held /\ entry' = s1
        BY <1>6, <2>1, <2>2, <2>5 DEF held
      <3>2. transit' = transit
        BY <2>1, <3>1 DEF transit
      <3> QED BY <2>1, <2>3, <3>1, <3>2 DEF Abstract!Next, Abstract!Drop
    <2> DEFINE Made == {m} \cup (IF Corrupt THEN {flipped(m)} ELSE {})
    <2>6. CASE fw' = "enqueue" /\ m' \in Made
      <3>1. held' = <<m'>> /\ m' \in msg /\ entry' = s1
        BY <1>2, <1>6, <2>1, <2>6 DEF held
      <3>2. transit' = (fl \o buffer) \o <<m'>>
        BY <1>4, <2>1, <3>1 DEF fl
      <3>3. transit' = Append(transit, m')
        BY <1>3, <2>4, <3>1, <3>2, AppendIsConcat
      <3>4. m' \in {Head(entry)} \cup
                 [x \in msg |-> IF Corrupt THEN {flipped(x)} ELSE {}][Head(entry)]
        BY <2>1, <2>3, <2>6
      <3>5. Abstract!Accept(m')
        BY <2>1, <2>3, <3>1, <3>3, <3>4 DEF Abstract!Accept
      <3> QED BY <3>1, <3>5 DEF Abstract!Next
    <2>7. CASE m' = m /\ fw' = fw
      BY <1>7, <2>1, <2>7
    <2>8. CASE fw' = "enqueue" /\ m' = m
      BY <2>6, <2>8
    <2>9. CASE fw' = "enqueue" /\ Corrupt /\ m' = flipped(m)
      BY <2>6, <2>9
    <2>10. \/ fw' = "receive"
           \/ fw' = "enqueue" /\ m' = m
           \/ fw' = "enqueue" /\ Corrupt /\ m' = flipped(m)
           \/ m' = m /\ fw' = fw
      BY <1>11, Zenon DEF CheckSpace
    <2> QED BY <2>5, <2>7, <2>8, <2>9, <2>10, Zenon
  \* Within the emulator.
  <1>12. CASE Enqueue
    <2>1. fw = "enqueue" /\ fw' = "receive" /\ buffer' = Append(buffer, m)
          /\ UNCHANGED <<in_flight, out2, s1>> /\ m \in msg
      BY <1>1, <1>12 DEF Enqueue, enqueue, sched
    <2>2. held = <<m>> /\ held' = <<>> /\ entry' = s1 /\ entry = s1
      BY <1>5, <1>6, <2>1 DEF held
    <2>3. buffer' \o held' = buffer \o held
      BY <1>1, <1>2, <2>1, <2>2, AppendIsConcat, ConcatEmptySeq
    <2>4. transit' = transit
      BY <1>3, <1>4, <2>1, <2>3 DEF fl
    <2> QED BY <2>1, <2>2, <2>4 DEF Abstract!chan
  \* Put.
  <1>13. ASSUME NEW x \in Lens, Send(x)
         PROVE  [Abstract!Next]_(Abstract!chan)
    <2> DEFINE d == [n |-> sent + 1, len |-> x, ok |-> TRUE]
    <2>1. s1' = Append(s1, d) /\ UNCHANGED <<in_flight, buffer, m, fw, out2>>
      BY <1>13 DEF Send, threads, sched
    <2>2. d \in msg
      BY <1>13 DEF Send, TypeOK, msg
    <2> HIDE DEF d
    <2>3. held' = held /\ transit' = transit
      BY <2>1 DEF held, transit
    <2>4. entry' = Append(entry, d)
      <3>1. CASE fw = "check"
        <4>1. <<m>> \in Seq(msg)
          BY <1>1, <3>1
        <4> QED BY <1>1, <1>5, <1>6, <2>1, <2>2, <3>1, <4>1, AppendBehind
      <3>2. CASE fw # "check"
        BY <1>5, <1>6, <2>1, <3>2
      <3> QED BY <3>1, <3>2
    <2>5. Abstract!Put(d)
      BY <2>1, <2>3, <2>4 DEF Abstract!Put
    <2> QED BY <2>2, <2>5 DEF Abstract!Next
  <1>14. CASE ReadClock \/ Peek \/ KeepAll \/ Sleep \/ Wake \/ GoIdle \/ WaitOnCond
              \/ Spurious \/ run_reverse_forwarding \/ Tick \/ Reply \/ UNCHANGED vars
    <2>1. UNCHANGED <<in_flight, buffer, m, fw, s1, out2>>
      BY <1>14 DEF ReadClock, Peek, KeepAll, Sleep, Wake, GoIdle, WaitOnCond, Spurious,
             run_reverse_forwarding, receive_message2, send_message1, Tick, Reply, threads, sched, vars
    <2> QED BY <1>7, <2>1
  <1> QED BY <1>8, <1>9, <1>10, <1>11, <1>12, <1>13, <1>14
          DEF Next, link_scheduler, run_forwarding

\* The emulator loses, damages and delays, but never reorders, duplicates or
\* invents: it implements Channel.
THEOREM ImplementsChannel == Spec => IsChannel
  <1>1. Sections => DequeueFindsOne
    BY DEF Sections
  <1>2. TypeOK /\ TypeOK' /\ DequeueFindsOne /\ [Next]_vars
           => [Abstract!Next]_(Abstract!chan)
    BY StepChannel
  <1> QED BY <1>1, <1>2, InitChannel, Inductive, PTL DEF Spec, IsChannel, Abstract!Spec
=============================================================================
