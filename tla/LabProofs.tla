----------------------------- MODULE LabProofs ------------------------------
(* Proofs about the programs of the labs, each by itself: for every size of    *)
(* messages, files, lines and responses, and any number of probes, files,      *)
(* clients and exchanges.                                                      *)
EXTENDS MCLabs, SequenceTheorems, FiniteSetTheorems, WellFoundedInduction, TLAPS

-----------------------------------------------------------------------------
(* Lab 2: a file, message by message.                                        *)

USE StopAndWaitAssumption

StopAndWaitSpec == StopAndWaitInit /\ [][StopAndWaitNext]_stopwait

-----------------------------------------------------------------------------
(* Numbers of chunks.                                                        *)

LEMMA Quotient ==
    ASSUME NEW m \in Nat, m > 0, NEW c \in Nat, NEW r \in 0..(m - 1)
    PROVE  (c * m + r) \div m = c
  <1> DEFINE q == (c * m + r) \div m
  <1>1. c * m \in Int /\ q \in Int
    OBVIOUS
  <1>2. m * q <= c * m + r /\ c * m + r < m * q + m
    BY <1>1
  <1> HIDE DEF q
  <1>3. ASSUME q >= c + 1 PROVE FALSE
    <2>1. m * q >= m * (c + 1)
      BY <1>1, <1>3
    <2> QED BY <1>1, <1>2, <2>1
  <1>4. ASSUME q <= c - 1 PROVE FALSE
    <2>1. m * (q + 1) <= m * c
      BY <1>1, <1>4
    <2> QED BY <1>1, <1>2, <2>1
  <1>5. q = c
    BY <1>1, <1>3, <1>4
  <1> QED BY <1>5 DEF q

\* A read after whole chunks makes one more.
LEMMA ChunkCounts ==
    ASSUME NEW c \in Nat, NEW b \in 1..MAX_LEN
    PROVE  /\ Chunk(c * MAX_LEN) = c
           /\ Chunk(c * MAX_LEN + b) = c + 1
  <1>1. c * MAX_LEN \in Nat /\ (c + 1) * MAX_LEN = c * MAX_LEN + MAX_LEN
    OBVIOUS
  <1>2. Chunk(c * MAX_LEN) = c
    BY Quotient, MAX_LEN - 1 \in 0..(MAX_LEN - 1) DEF Chunk
  <1>3. c * MAX_LEN + b + MAX_LEN - 1 = (c + 1) * MAX_LEN + (b - 1)
    BY <1>1
  <1>4. ((c + 1) * MAX_LEN + (b - 1)) \div MAX_LEN = c + 1
    BY Quotient, b - 1 \in 0..(MAX_LEN - 1)
  <1> QED BY <1>2, <1>3, <1>4 DEF Chunk

-----------------------------------------------------------------------------
(* The invariant: at most one message or reply is under way, and the         *)
(* receiver is one stage ahead as long as its reply is.                      *)

AllBytes == IF fsize > 0 THEN fsize ELSE 0

\* What the sender has sent is whole chunks, or everything.
Sending ==
    /\ sent_size \in 0..AllBytes
    /\ sent_size = Chunk(sent_size) * MAX_LEN \/ sent_size = AllBytes
    /\ send_at \in {"dummy", "name", "size"} => sent_size = 0
    /\ send_at = "data" => sent_size < fsize
    /\ send_at = "done" => sent_size = AllBytes

\* What is under way, and only while the sender waits.
OneUnderWay ==
    /\ Len(wire) + Len(inbox) + acks <= 1
    /\ ~awaits => Len(wire) + Len(inbox) + acks = 0
    /\ send_at = "done" => ~awaits

IsCurrent(x) ==
    x.kind = send_at /\ (send_at = "data" => x.val = Chunk(sent_size) + 1)

Current ==
    /\ \A k \in 1..Len(wire) : IsCurrent(wire[k])
    /\ \A k \in 1..Len(inbox) : IsCurrent(inbox[k])

\* The receiver has not taken what the sender is at; if a size was damaged it
\* may take nothing any more, or be left waiting.
NotTaken ==
    /\ \/ recv_at = send_at
       \/ recv_at = "absent" /\ send_at = "dummy" /\ inbox = <<>>
       \/ recv_at = "done" /\ send_at = "data"
       \/ recv_at = "data" /\ send_at = "done"
    /\ IF opened THEN Len(copy) = Chunk(sent_size) ELSE copy = <<>>

\* It has, and the sender has not read the reply.
Taken ==
    /\ \/ send_at = "dummy" /\ recv_at = "name"
       \/ send_at = "name" /\ recv_at = "size"
       \/ send_at \in {"size", "data"} /\ recv_at \in {"data", "done"}
    /\ IF ~opened THEN copy = <<>>
       ELSE Len(copy) = IF send_at = "data" THEN Chunk(sent_size) + 1 ELSE 0

InTurn ==
    /\ acks = 0 => NotTaken
    /\ acks = 1 => Taken
    /\ recv_at \in {"absent", "dummy", "name"} => ~opened

\* The copy is the chunks in their order.
Ordered == \A k \in 1..Len(copy) : copy[k].kind = "data" /\ copy[k].val = k

SWInv ==
    StopAndWaitTypeOK /\ Sending /\ OneUnderWay /\ Current /\ InTurn /\ Ordered

\* Taking the first message and adding a last one.
LEMMA QueueFacts ==
    ASSUME NEW S, NEW q \in Seq(S), NEW x \in S
    PROVE  /\ Len(q) \in Nat
           /\ Append(q, x) \in Seq(S) /\ Len(Append(q, x)) = Len(q) + 1
           /\ \A k \in 1..Len(Append(q, x)) :
                Append(q, x)[k] = IF k <= Len(q) THEN q[k] ELSE x
           /\ q # <<>> => /\ Len(q) > 0 /\ Head(q) = q[1] /\ Head(q) \in S
                          /\ Tail(q) \in Seq(S) /\ Len(Tail(q)) = Len(q) - 1
                          /\ \A k \in 1..Len(Tail(q)) : Tail(q)[k] = q[k + 1]
  OBVIOUS

\* Chunks of what has been sent, before and after the next read.
LEMMA SentChunks ==
    ASSUME StopAndWaitTypeOK, Sending
    PROVE  /\ fsize \in Int /\ AllBytes \in Nat /\ Chunk(0) = 0
           /\ Chunk(sent_size) \in Nat
           /\ send_at = "data" =>
                /\ nextBytes \in 1..MAX_LEN
                /\ Chunk(sent_size + nextBytes) = Chunk(sent_size) + 1
                /\ sent_size + nextBytes \in 0..AllBytes
                /\ \/ sent_size + nextBytes = AllBytes
                   \/ sent_size + nextBytes = (Chunk(sent_size) + 1) * MAX_LEN
  <1>1. fsize \in Int /\ AllBytes \in Nat
    BY DEF StopAndWaitTypeOK, AllBytes
  <1>2. Chunk(0) = 0
    BY ChunkCounts, 0 * MAX_LEN = 0, 1 \in 1..MAX_LEN
  <1>3. Chunk(sent_size) \in Nat
    <2>1. ASSUME NEW n \in Nat PROVE Chunk(n) \in Nat
      BY DEF Chunk
    <2> QED BY <2>1 DEF StopAndWaitTypeOK
  <1>4. ASSUME send_at = "data"
        PROVE  /\ nextBytes \in 1..MAX_LEN
               /\ Chunk(sent_size + nextBytes) = Chunk(sent_size) + 1
               /\ sent_size + nextBytes \in 0..AllBytes
               /\ \/ sent_size + nextBytes = AllBytes
                  \/ sent_size + nextBytes = (Chunk(sent_size) + 1) * MAX_LEN
    <2>1. sent_size \in Nat /\ sent_size < fsize /\ AllBytes = fsize
          /\ sent_size = Chunk(sent_size) * MAX_LEN
      BY <1>1, <1>4 DEF Sending, AllBytes
    <2>2. nextBytes \in 1..MAX_LEN
      BY <1>1, <2>1 DEF nextBytes
    <2>3. Chunk(sent_size + nextBytes) = Chunk(sent_size) + 1
      BY <1>3, <2>1, <2>2, ChunkCounts
    <2>4. sent_size + nextBytes \in 0..AllBytes
      BY <1>1, <2>1 DEF nextBytes
    <2>5. CASE fsize - sent_size < MAX_LEN
      BY <1>1, <2>1, <2>2, <2>3, <2>4, <2>5 DEF nextBytes
    <2>6. CASE ~(fsize - sent_size < MAX_LEN)
      <3>1. nextBytes = MAX_LEN
        BY <2>6 DEF nextBytes
      <3>2. (Chunk(sent_size) + 1) * MAX_LEN = Chunk(sent_size) * MAX_LEN + MAX_LEN
        BY <1>3
      <3> QED BY <2>1, <2>2, <2>3, <2>4, <3>1, <3>2
    <2> QED BY <2>5, <2>6
  <1> QED BY <1>1, <1>2, <1>3, <1>4

-----------------------------------------------------------------------------

LEMMA SWInvInit == StopAndWaitInit => SWInv
  <1> SUFFICES ASSUME StopAndWaitInit PROVE SWInv
    OBVIOUS
  <1> USE DEF StopAndWaitInit
  <1>1. <<>> \in Seq(Datagram) /\ Len(wire) = 0 /\ Len(inbox) = 0 /\ Len(copy) = 0
    OBVIOUS
  <1>2. StopAndWaitTypeOK
    <2>1. wire \in Seq(Datagram) /\ inbox \in Seq(Datagram) /\ copy \in Seq(Datagram)
      BY <1>1
    <2>2. 0 \in Nat /\ 0 \in Int
      OBVIOUS
    <2> QED BY <2>1, <2>2, Zenon DEF StopAndWaitTypeOK
  <1>3. Chunk(0) = 0
    BY ChunkCounts, 0 * MAX_LEN = 0, 1 \in 1..MAX_LEN
  <1>4. Sending
    <2>1. fsize \in Int /\ AllBytes \in Nat
      BY DEF AllBytes
    <2> QED BY <1>3, <2>1 DEF Sending
  <1>5. OneUnderWay /\ Current /\ Ordered
    BY <1>1 DEF OneUnderWay, Current, Ordered
  <1>6. InTurn
    BY DEF InTurn, NotTaken
  <1> QED BY <1>2, <1>4, <1>5, <1>6 DEF SWInv

\* The next message of the sender is the current one.
LEMMA SendPreserves ==
    ASSUME SWInv, SendFile
    PROVE  SWInv'
  <1> DEFINE x == [kind |-> send_at,
                   val |-> CASE send_at = "size" -> fsize
                             [] send_at = "data" -> Chunk(sent_size) + 1
                             [] OTHER -> 0,
                   len |-> IF send_at = "data" THEN nextBytes ELSE 1]
  <1> USE DEF SWInv
  <1>1. /\ send_at # "done" /\ ~awaits /\ awaits' = TRUE /\ wire' = Append(wire, x)
        /\ UNCHANGED <<fsize, trouble, send_at, sent_size, recv_at, opened, rsize, got,
                       copy, inbox, acks>>
    BY DEF SendFile, sw_run, sw_recv
  <1>2. x \in Datagram
    <2>1. send_at \in {"dummy", "name", "size", "data"}
      BY <1>1 DEF StopAndWaitTypeOK
    <2>2. x.val \in Int /\ x.len \in 0..MAX_LEN
      BY <2>1, SentChunks
    <2> QED BY <2>1, <2>2 DEF Datagram
  <1>3. IsCurrent(x)
    BY DEF IsCurrent
  <1> HIDE DEF x
  <1>4. /\ wire' \in Seq(Datagram) /\ Len(wire') = Len(wire) + 1
        /\ \A k \in 1..Len(wire') : wire'[k] = IF k <= Len(wire) THEN wire[k] ELSE x
        /\ Len(wire) \in Nat /\ Len(inbox) \in Nat
    BY <1>1, <1>2, QueueFacts DEF StopAndWaitTypeOK
  <1>5. StopAndWaitTypeOK'
    BY <1>1, <1>4 DEF StopAndWaitTypeOK
  <1>6. Sending'
    BY <1>1 DEF Sending, AllBytes, Chunk
  <1>7. OneUnderWay'
    BY <1>1, <1>4 DEF OneUnderWay, StopAndWaitTypeOK
  <1>8. \A y : IsCurrent(y)' <=> IsCurrent(y)
    BY <1>1 DEF IsCurrent, Chunk
  <1>9. Current'
    BY <1>1, <1>3, <1>4, <1>8 DEF Current, IsCurrent, Chunk
  <1>10. InTurn' /\ Ordered'
    BY <1>1 DEF InTurn, NotTaken, Taken, Ordered, Chunk
  <1> QED BY <1>5, <1>6, <1>7, <1>9, <1>10

\* A reply says that what the sender is at has been taken, so it may go on.
LEMMA CheckedPreserves ==
    ASSUME SWInv, Checked
    PROVE  SWInv'
  <1> USE DEF SWInv
  <1>1. /\ awaits /\ ~awaits' /\ acks = 1 /\ acks' = 0
        /\ Len(wire) = 0 /\ Len(inbox) = 0
        /\ UNCHANGED <<fsize, trouble, recv_at, opened, rsize, got, copy, wire, inbox>>
    <2>1. acks' = acks - 1 /\ acks' \in Nat /\ awaits /\ awaits' = FALSE
          /\ UNCHANGED <<fsize, trouble, recv_at, opened, rsize, got, copy, wire, inbox>>
      BY DEF Checked, after_check, sw_run, sw_recv
    <2>2. Len(wire) \in Nat /\ Len(inbox) \in Nat /\ acks \in Nat
      BY DEF StopAndWaitTypeOK
    <2> QED BY <2>1, <2>2 DEF OneUnderWay
  <1>2. Taken /\ send_at \in {"dummy", "name", "size", "data"}
    BY <1>1 DEF InTurn, Taken
  <1>3. /\ sent_size' = IF send_at = "data" THEN sent_size + nextBytes ELSE sent_size
        /\ send_at' = CASE send_at = "dummy" -> "name"
                        [] send_at = "name"  -> "size"
                        [] OTHER -> IF sent_size' < fsize THEN "data" ELSE "done"
    BY DEF Checked
  <1>4. /\ sent_size' \in 0..AllBytes /\ sent_size' \in Nat
        /\ Chunk(sent_size') = IF send_at = "data" THEN Chunk(sent_size) + 1 ELSE 0
        /\ sent_size' = Chunk(sent_size') * MAX_LEN \/ sent_size' = AllBytes
        /\ send_at # "data" => sent_size' = 0
    <2>1. CASE send_at = "data"
      BY <1>3, <2>1, SentChunks
    <2>2. CASE send_at # "data"
      <3>1. sent_size' = 0 /\ sent_size = 0
        BY <1>2, <1>3, <2>2 DEF Sending
      <3> QED BY <2>2, <3>1, SentChunks, 0 * MAX_LEN = 0 DEF Sending
    <2> QED BY <2>1, <2>2
  <1>5. Chunk(sent_size)' = Chunk(sent_size') /\ AllBytes' = AllBytes
    BY <1>1 DEF Chunk, AllBytes
  <1>6. StopAndWaitTypeOK'
    <2>1. send_at' \in {"dummy", "name", "size", "data", "done"}
      BY <1>2, <1>3
    <2>2. awaits' \in BOOLEAN /\ acks' \in Nat
      BY <1>1 DEF Checked
    <2> QED BY <1>1, <1>4, <2>1, <2>2 DEF StopAndWaitTypeOK
  <1>7. Sending'
    <2>1. fsize \in Int
      BY DEF StopAndWaitTypeOK
    <2>2. send_at' = "done" => sent_size' = AllBytes
      BY <1>2, <1>3, <1>4, <2>1 DEF AllBytes
    <2>3. send_at' = "data" => sent_size' < fsize
      BY <1>2, <1>3
    <2>4. send_at' \in {"dummy", "name", "size"} => sent_size' = 0
      BY <1>2, <1>3, <1>4
    <2> QED BY <1>1, <1>4, <1>5, <2>2, <2>3, <2>4 DEF Sending
  <1>8. OneUnderWay' /\ Current' /\ Ordered'
    BY <1>1 DEF OneUnderWay, Current, Ordered
  <1>9. InTurn'
    <2>1. \/ recv_at = send_at'
          \/ recv_at = "done" /\ send_at' = "data"
          \/ recv_at = "data" /\ send_at' = "done"
      BY <1>2, <1>3 DEF Taken
    <2>2. IF opened THEN Len(copy) = Chunk(sent_size') ELSE copy = <<>>
      BY <1>2, <1>4 DEF Taken
    <2> QED BY <1>1, <1>5, <2>1, <2>2 DEF InTurn, NotTaken
  <1> QED BY <1>6, <1>7, <1>8, <1>9

LEMMA AppearsPreserves ==
    ASSUME SWInv, Appears
    PROVE  SWInv'
  <1> USE DEF SWInv
  <1>1. /\ recv_at = "absent" /\ recv_at' = "dummy"
        /\ UNCHANGED <<fsize, trouble, send_at, awaits, sent_size, opened, rsize, got,
                       copy, wire, inbox, acks>>
    BY DEF Appears, sw_run, sw_send
  <1>2. StopAndWaitTypeOK' /\ OneUnderWay' /\ Ordered'
    BY <1>1 DEF StopAndWaitTypeOK, OneUnderWay, Ordered
  <1>3. Sending'
    BY <1>1 DEF Sending, AllBytes, Chunk
  <1>4. Current'
    BY <1>1 DEF Current, IsCurrent, Chunk
  <1>5. InTurn'
    <2>1. acks = 0
      BY <1>1 DEF InTurn, Taken, OneUnderWay, StopAndWaitTypeOK
    <2>2. send_at = "dummy" /\ NotTaken
      BY <1>1, <2>1 DEF InTurn, NotTaken, StopAndWaitTypeOK
    <2> QED BY <1>1, <2>1, <2>2 DEF InTurn, NotTaken, Chunk
  <1> QED BY <1>2, <1>3, <1>4, <1>5

\* The only message under way is taken for what it is.
LEMMA ReceivePreserves ==
    ASSUME SWInv, ReceiveFile
    PROVE  SWInv'
  <1> USE DEF SWInv
  <1> DEFINE r == Head(inbox)
  <1>1. /\ inbox # <<>> /\ inbox' = Tail(inbox) /\ acks' = acks + 1
        /\ recv_at # "absent" /\ recv_at # "done"
        /\ UNCHANGED <<fsize, trouble, send_at, awaits, sent_size, wire>>
    BY DEF ReceiveFile, sw_run, sw_send
  <1>2. /\ Len(inbox) \in Nat /\ Len(inbox) > 0 /\ r = inbox[1] /\ r \in Datagram
        /\ inbox' \in Seq(Datagram) /\ Len(inbox') = Len(inbox) - 1
    BY <1>1, QueueFacts, r \in Datagram DEF StopAndWaitTypeOK
  <1>3. /\ Len(inbox) = 1 /\ Len(wire) = 0 /\ acks = 0 /\ acks' = 1
        /\ Len(inbox') = 0 /\ awaits /\ send_at # "done"
    <2>1. Len(wire) \in Nat /\ acks \in Nat
      BY DEF StopAndWaitTypeOK
    <2> QED BY <1>1, <1>2, <2>1 DEF OneUnderWay
  <1>4. IsCurrent(r)
    BY <1>2, <1>3 DEF Current
  <1> HIDE DEF r
  <1>5. NotTaken /\ recv_at = send_at
    BY <1>1, <1>3 DEF InTurn, NotTaken
  <1>6. AllBytes' = AllBytes /\ Chunk(sent_size)' = Chunk(sent_size)
    BY <1>1 DEF AllBytes, Chunk
  <1>7. Sending'
    BY <1>1, <1>6 DEF Sending
  <1>8. OneUnderWay' /\ Current'
    <2>1. awaits'
      BY <1>1, <1>3
    <2>2. Len(wire') = 0 /\ send_at' # "done"
      BY <1>1, <1>3
    <2> QED BY <1>3, <2>1, <2>2 DEF OneUnderWay, Current
  <1>9. Chunk(sent_size) \in Nat /\ Chunk(0) = 0
    BY SentChunks
  <1>10. r.kind = send_at /\ r.val \in Int /\ r.len \in Nat
         /\ (send_at = "data" => r.val = Chunk(sent_size) + 1)
    BY <1>2, <1>4 DEF IsCurrent, Datagram
  <1>11. ASSUME recv_at # "data", copy' = copy
         PROVE  Ordered' /\ (IF opened THEN Len(copy') = 0 ELSE copy' = <<>>)
    <2>1. send_at \in {"dummy", "name", "size"} /\ sent_size = 0
      BY <1>3, <1>5, <1>11 DEF Sending, StopAndWaitTypeOK
    <2> QED BY <1>5, <1>9, <1>11, <2>1 DEF NotTaken, Ordered
  <1>12. ASSUME copy' \in Seq(Datagram), got' \in Nat, rsize' \in Int,
                opened' \in BOOLEAN,
                recv_at' \in {"absent", "dummy", "name", "size", "data", "done"}
         PROVE  StopAndWaitTypeOK'
    <2>1. acks' \in Nat
      BY <1>3
    <2> QED BY <1>1, <1>2, <1>12, <2>1 DEF StopAndWaitTypeOK
  <1>13. CASE /\ recv_at = "dummy" /\ recv_at' = "name"
              /\ UNCHANGED <<opened, rsize, got, copy>>
    <2>1. StopAndWaitTypeOK'
      BY <1>12, <1>13 DEF StopAndWaitTypeOK
    <2>2. InTurn' /\ Ordered'
      BY <1>1, <1>3, <1>5, <1>11, <1>13 DEF InTurn, Taken
    <2> QED BY <1>7, <1>8, <2>1, <2>2
  <1>14. CASE /\ recv_at = "name" /\ recv_at' = "size" /\ opened' \in BOOLEAN
              /\ UNCHANGED <<rsize, got, copy>>
    <2>1. StopAndWaitTypeOK'
      BY <1>12, <1>14 DEF StopAndWaitTypeOK
    <2>2. ~opened /\ copy' = <<>> /\ Len(copy') = 0
      BY <1>11, <1>14 DEF InTurn
    <2>3. InTurn' /\ Ordered'
      BY <1>1, <1>3, <1>5, <1>11, <1>14, <2>2 DEF InTurn, Taken
    <2> QED BY <1>7, <1>8, <2>1, <2>3
  <1>15. CASE /\ recv_at = "size" /\ rsize' = r.val
              /\ recv_at' = IF moreToCome(0, r.val) THEN "data" ELSE "done"
              /\ UNCHANGED <<opened, got, copy>>
    <2>1. recv_at' \in {"data", "done"}
      BY <1>15
    <2>2. StopAndWaitTypeOK'
      BY <1>10, <1>12, <1>15, <2>1 DEF StopAndWaitTypeOK
    <2>3. InTurn' /\ Ordered'
      BY <1>1, <1>3, <1>5, <1>11, <1>15, <2>1 DEF InTurn, Taken
    <2> QED BY <1>7, <1>8, <2>2, <2>3
  <1>16. CASE /\ recv_at = "data" /\ got' = got + r.len
              /\ copy' = IF opened THEN Append(copy, r) ELSE copy
              /\ recv_at' = IF moreToCome(got', rsize) THEN "data" ELSE "done"
              /\ UNCHANGED <<opened, rsize>>
    <2>1. recv_at' \in {"data", "done"} /\ send_at = "data"
      BY <1>5, <1>16
    <2>2. got' \in Nat
      BY <1>10, <1>16 DEF StopAndWaitTypeOK
    <2>3. CASE ~opened
      <3>1. copy' = <<>> /\ copy' = copy
        BY <1>5, <1>16, <2>3 DEF NotTaken
      <3>2. StopAndWaitTypeOK'
        BY <1>12, <1>16, <2>1, <2>2, <3>1 DEF StopAndWaitTypeOK
      <3>3. InTurn' /\ Ordered'
        BY <1>1, <1>3, <1>16, <2>1, <2>3, <3>1 DEF InTurn, Taken, Ordered
      <3> QED BY <1>7, <1>8, <3>2, <3>3
    <2>4. CASE opened
      <3>1. /\ copy' \in Seq(Datagram) /\ Len(copy) \in Nat
            /\ Len(copy') = Len(copy) + 1
            /\ \A k \in 1..Len(copy') :
                 copy'[k] = IF k <= Len(copy) THEN copy[k] ELSE r
        BY <1>2, <1>16, <2>4, QueueFacts DEF StopAndWaitTypeOK
      <3>2. Len(copy) = Chunk(sent_size)
        BY <1>5, <2>4 DEF NotTaken
      <3>3. StopAndWaitTypeOK'
        BY <1>12, <1>16, <2>1, <2>2, <3>1 DEF StopAndWaitTypeOK
      <3>4. Ordered'
        BY <1>10, <2>1, <3>1, <3>2 DEF Ordered
      <3>5. InTurn'
        BY <1>1, <1>3, <1>6, <1>16, <2>1, <2>4, <3>1, <3>2 DEF InTurn, Taken
      <3> QED BY <1>7, <1>8, <3>3, <3>4, <3>5
    <2> QED BY <2>3, <2>4
  <1> QED
    <2>1. \/ /\ recv_at = "dummy" /\ recv_at' = "name"
             /\ UNCHANGED <<opened, rsize, got, copy>>
          \/ /\ recv_at = "name" /\ recv_at' = "size"
             /\ opened' \in BOOLEAN
             /\ UNCHANGED <<rsize, got, copy>>
          \/ /\ recv_at = "size" /\ rsize' = r.val
             /\ recv_at' = IF moreToCome(0, r.val) THEN "data" ELSE "done"
             /\ UNCHANGED <<opened, got, copy>>
          \/ /\ recv_at = "data" /\ got' = got + r.len
             /\ copy' = IF opened THEN Append(copy, r) ELSE copy
             /\ recv_at' = IF moreToCome(got', rsize) THEN "data" ELSE "done"
             /\ UNCHANGED <<opened, rsize>>
      BY DEF ReceiveFile, r
    <2> QED BY <1>13, <1>14, <1>15, <1>16, <2>1

-----------------------------------------------------------------------------
(* The emulator.                                                             *)

\* Damage leaves the kind of a message alone, and the number of a chunk.
LEMMA DamageKeepsKind ==
    ASSUME StopAndWaitTypeOK, NEW x \in Datagram, IsCurrent(x),
           NEW y \in {x} \cup damagedTo(x)
    PROVE  y \in Datagram /\ IsCurrent(y)
  <1>1. CASE y = x
    BY <1>1
  <1>2. CASE x.kind = "size" /\ \E v \in {-1, 0, fsize - 1, fsize + 1} :
                                  y = [x EXCEPT !.val = v]
    <2>1. PICK v \in {-1, 0, fsize - 1, fsize + 1} : y = [x EXCEPT !.val = v]
      BY <1>2
    <2>2. v \in Int
      BY <2>1 DEF StopAndWaitTypeOK
    <2>3. y \in Datagram /\ y.kind = "size"
      BY <1>2, <2>1, <2>2 DEF Datagram
    <2> QED BY <1>2, <2>3 DEF IsCurrent
  <1> QED BY <1>1, <1>2 DEF damagedTo

LEMMA EmulatorPreserves ==
    ASSUME SWInv, Forwards \/ Discards
    PROVE  SWInv'
  <1> USE DEF SWInv
  <1>1. /\ wire # <<>> /\ wire' = Tail(wire)
        /\ UNCHANGED <<fsize, trouble, send_at, awaits, sent_size, recv_at, opened,
                       rsize, got, copy, acks>>
    BY DEF Forwards, Discards, sw_kept, sw_run, sw_send, sw_recv
  <1>2. /\ Len(wire) \in Nat /\ Len(wire) > 0 /\ Head(wire) = wire[1]
        /\ Head(wire) \in Datagram
        /\ wire' \in Seq(Datagram) /\ Len(wire') = Len(wire) - 1
    BY <1>1, QueueFacts, Head(wire) \in Datagram DEF StopAndWaitTypeOK
  <1>3. /\ Len(wire) = 1 /\ Len(wire') = 0 /\ Len(inbox) = 0 /\ acks = 0 /\ awaits
        /\ send_at # "done" /\ inbox \in Seq(Datagram)
    <2>1. Len(inbox) \in Nat /\ acks \in Nat
      BY DEF StopAndWaitTypeOK
    <2> QED BY <1>1, <1>2, <2>1 DEF OneUnderWay, StopAndWaitTypeOK
  <1>4. IsCurrent(Head(wire))
    BY <1>2, <1>3 DEF Current
  <1>5. /\ inbox' \in Seq(Datagram) /\ Len(inbox') \in {0, 1}
        /\ \A k \in 1..Len(inbox') : IsCurrent(inbox'[k])
        /\ recv_at = "absent" => inbox' = inbox
    <2>1. CASE Discards
      BY <1>3, <2>1 DEF Discards
    <2>2. CASE Forwards
      <3>1. PICK y \in {Head(wire)} \cup damagedTo(Head(wire)) : inbox' = Append(inbox, y)
        BY <2>2 DEF Forwards
      <3>2. y \in Datagram /\ IsCurrent(y)
        BY <1>2, <1>4, <3>1, DamageKeepsKind
      <3>3. recv_at # "absent"
        BY <2>2 DEF Forwards
      <3> QED BY <1>3, <3>1, <3>2, <3>3, QueueFacts
    <2> QED BY <2>1, <2>2
  <1>6. StopAndWaitTypeOK' /\ Ordered'
    BY <1>1, <1>2, <1>5 DEF StopAndWaitTypeOK, Ordered
  <1>7. Sending'
    BY <1>1 DEF Sending, AllBytes, Chunk
  <1>8. OneUnderWay'
    <2>1. awaits'
      BY <1>1, <1>3
    <2>2. acks' = 0 /\ send_at' # "done"
      BY <1>1, <1>3
    <2> QED BY <1>3, <1>5, <2>1, <2>2 DEF OneUnderWay
  <1>9. \A y : IsCurrent(y)' <=> IsCurrent(y)
    BY <1>1 DEF IsCurrent, Chunk
  <1>10. Current'
    BY <1>3, <1>5, <1>9 DEF Current
  <1>11. InTurn'
    BY <1>1, <1>3, <1>5 DEF InTurn, NotTaken, Taken, Chunk
  <1> QED BY <1>6, <1>7, <1>8, <1>10, <1>11

-----------------------------------------------------------------------------

LEMMA SWInvStep == SWInv /\ [StopAndWaitNext]_stopwait => SWInv'
  <1> SUFFICES ASSUME SWInv, [StopAndWaitNext]_stopwait PROVE SWInv'
    OBVIOUS
  <1>1. CASE UNCHANGED stopwait
    <2>1. UNCHANGED <<fsize, trouble, send_at, awaits, sent_size, recv_at, opened, rsize,
                      got, copy, wire, inbox, acks>>
      BY <1>1 DEF stopwait, sw_run, sw_send, sw_recv
    <2> QED
      BY <2>1 DEF SWInv, StopAndWaitTypeOK, Sending, AllBytes, OneUnderWay, Current,
         IsCurrent, InTurn, NotTaken, Taken, Ordered, Chunk
  <1> QED
    BY <1>1, SendPreserves, CheckedPreserves, AppearsPreserves, ReceivePreserves,
       EmulatorPreserves DEF StopAndWaitNext

\* The invariant: at most one message or reply is under way, and the two programs
\* are at the same message.
THEOREM SWInvHolds == StopAndWaitSpec => []SWInv
  BY SWInvInit, SWInvStep, PTL DEF StopAndWaitSpec

LEMMA SWInvIsEnough == SWInv => CopyIsFile
  <1> SUFFICES ASSUME SWInv PROVE CopyIsFile
    OBVIOUS
  <1> USE DEF SWInv
  <1>1. Len(wire) \in Nat /\ Len(inbox) \in Nat /\ acks \in Nat /\ Len(copy) \in Nat
        /\ DOMAIN inbox = 1..Len(inbox) /\ DOMAIN copy = 1..Len(copy)
    BY DEF StopAndWaitTypeOK
  <1>2. ASSUME recv_at \notin {"absent", "done"}, NEW k \in DOMAIN inbox
        PROVE  k = 1 /\ inbox[k].kind = recv_at
    <2>1. Len(inbox) = 1 /\ acks = 0 /\ k = 1 /\ awaits
      BY <1>1, <1>2 DEF OneUnderWay
    <2>2. inbox[k].kind = send_at
      BY <1>1, <2>1 DEF Current, IsCurrent
    <2> QED BY <1>2, <2>1, <2>2 DEF InTurn, NotTaken, OneUnderWay
  <1>3. \A k \in DOMAIN copy : copy[k].kind = "data" /\ copy[k].val = k
    BY <1>1 DEF Ordered
  <1>4. ASSUME send_at = "done"
        PROVE  IF opened THEN Len(copy) = Chunk(IF fsize > 0 THEN fsize ELSE 0)
                         ELSE copy = <<>>
    <2>1. acks = 0 /\ sent_size = AllBytes
      BY <1>1, <1>4 DEF OneUnderWay, Sending
    <2> QED BY <2>1 DEF InTurn, NotTaken, AllBytes
  <1> QED BY <1>2, <1>3, <1>4 DEF CopyIsFile

\* Whatever the emulator loses or damages, wherever open() fails: the receiver
\* never takes a message for another kind of message, and a sender that ends has
\* had its whole file written, in order (or nothing of it).
THEOREM CopyStaysFile == StopAndWaitSpec => []CopyIsFile
  BY SWInvHolds, SWInvIsEnough, PTL

-----------------------------------------------------------------------------
(* When nothing is lost or damaged, nobody waits for nothing.                *)

\* Nothing has been lost.
SWWhole == Len(wire) + Len(inbox) + acks = IF awaits THEN 1 ELSE 0

\* What a message says, as long as nothing is damaged.
AsSent(x) == /\ x.kind = "size" => x.val = fsize
             /\ x.kind = "data" => x.len = nextBytes

\* The receiver knows the size, and has as much as the sender has sent.
SWCounts ==
    IF recv_at \in {"data", "done"}
    THEN /\ rsize = fsize
         /\ got = IF acks = 1 /\ send_at = "data" THEN sent_size + nextBytes ELSE sent_size
         /\ recv_at = "data" <=> got < fsize
    ELSE got = 0

SWIntact ==
    "corrupt" \notin trouble /\ SWWhole =>
        /\ \A k \in 1..Len(wire) : AsSent(wire[k])
        /\ \A k \in 1..Len(inbox) : AsSent(inbox[k])
        /\ SWCounts

\* Neither program can go on, and nothing is on its way to the receiver.
SWAtRest ==
    /\ wire = <<>>
    /\ send_at = "done" \/ (awaits /\ acks = 0)
    /\ recv_at = "done" \/ (recv_at # "absent" /\ inbox = <<>>)

SWRestIsEnd ==
    "corrupt" \notin trouble /\ SWWhole /\ SWAtRest => send_at = "done" /\ recv_at = "done"

\* A step loses something, or what is under way is still what should be.
LEMMA SWWholeStep ==
    ASSUME SWInv, [StopAndWaitNext]_stopwait
    PROVE  IF Discards THEN ~SWWhole' ELSE SWWhole' <=> SWWhole
  <1>0. /\ Len(wire) \in Nat /\ Len(inbox) \in Nat /\ acks \in Nat /\ awaits \in BOOLEAN
        /\ wire \in Seq(Datagram) /\ inbox \in Seq(Datagram)
        /\ Len(wire) + Len(inbox) + acks <= 1
        /\ ~awaits => Len(wire) + Len(inbox) + acks = 0
    BY DEF SWInv, StopAndWaitTypeOK, OneUnderWay
  <1>1. wire # <<>> => Len(wire) > 0 /\ Len(Tail(wire)) = Len(wire) - 1
    BY <1>0
  <1>2. inbox # <<>> => Len(inbox) > 0 /\ Len(Tail(inbox)) = Len(inbox) - 1
    BY <1>0
  <1>3. CASE Discards
    <2>1. wire # <<>> /\ wire' = Tail(wire) /\ UNCHANGED <<inbox, acks, awaits>>
      BY <1>3 DEF Discards, sw_kept, sw_send
    <2> QED BY <1>0, <1>1, <1>3, <2>1 DEF SWWhole
  <1>4. CASE SendFile
    <2>1. ~awaits /\ awaits' /\ UNCHANGED <<inbox, acks>> /\ Len(wire') = Len(wire) + 1
      BY <1>0, <1>4 DEF SendFile
    <2>2. ~Discards
      BY <1>0, <2>1 DEF Discards
    <2> QED BY <1>0, <2>1, <2>2 DEF SWWhole
  <1>5. CASE Checked
    <2>1. awaits /\ ~awaits' /\ UNCHANGED <<wire, inbox>> /\ acks' = acks - 1 /\ acks' \in Nat
      BY <1>0, <1>5 DEF Checked, after_check
    <2>2. ~Discards
      BY <2>1 DEF Discards, sw_kept, sw_send
    <2> QED BY <1>0, <2>1, <2>2 DEF SWWhole
  <1>6. CASE Appears
    <2>1. UNCHANGED <<wire, inbox, acks, awaits>> /\ recv_at' # recv_at
      BY <1>6 DEF Appears, sw_send
    <2>2. ~Discards
      BY <2>1 DEF Discards, sw_kept, sw_recv
    <2> QED BY <2>1, <2>2 DEF SWWhole
  <1>7. CASE ReceiveFile
    <2>1. inbox # <<>> /\ inbox' = Tail(inbox) /\ acks' = acks + 1 /\ UNCHANGED <<wire, awaits>>
      BY <1>7 DEF ReceiveFile, sw_send
    <2>2. ~Discards
      BY <1>0, <2>1 DEF Discards, sw_kept
    <2> QED BY <1>0, <1>2, <2>1, <2>2 DEF SWWhole
  <1>8. CASE Forwards
    <2>1. wire # <<>> /\ wire' = Tail(wire) /\ UNCHANGED <<acks, awaits>>
      BY <1>8 DEF Forwards, sw_kept, sw_send
    <2>2. Len(inbox') = Len(inbox) + 1
      BY <1>0, <1>8 DEF Forwards
    <2>3. ~Discards
      BY <1>0, <2>2 DEF Discards
    <2> QED BY <1>0, <1>1, <2>1, <2>2, <2>3 DEF SWWhole
  <1>9. CASE UNCHANGED stopwait
    <2>1. UNCHANGED <<wire, inbox, acks, awaits>>
      BY <1>9 DEF stopwait, sw_send
    <2>2. ~Discards
      BY <1>0, <1>1, <2>1 DEF Discards
    <2> QED BY <2>1, <2>2 DEF SWWhole
  <1> QED BY <1>3, <1>4, <1>5, <1>6, <1>7, <1>8, <1>9 DEF StopAndWaitNext

\* The receiver takes the sender's message and has then what the sender has sent.
LEMMA SWCountsOn ==
    ASSUME SWInv, SWCounts, ReceiveFile, \A k \in 1..Len(inbox) : AsSent(inbox[k])
    PROVE  SWCounts' /\ inbox' = <<>> /\ wire = <<>>
  <1> DEFINE r == Head(inbox)
  <1>0. /\ Len(wire) \in Nat /\ Len(inbox) \in Nat /\ acks \in Nat
        /\ wire \in Seq(Datagram) /\ inbox \in Seq(Datagram)
        /\ Len(wire) + Len(inbox) + acks <= 1
        /\ ~awaits => Len(wire) + Len(inbox) + acks = 0
        /\ fsize \in Int /\ sent_size \in Nat /\ nextBytes \in Int
    BY DEF SWInv, StopAndWaitTypeOK, OneUnderWay, nextBytes
  <1>1. /\ inbox # <<>> /\ inbox' = Tail(inbox) /\ acks' = acks + 1
        /\ recv_at # "absent" /\ recv_at # "done"
        /\ UNCHANGED <<fsize, trouble, send_at, awaits, sent_size, wire>>
    BY DEF ReceiveFile, sw_run, sw_send
  <1>2. Len(inbox) > 0 /\ r = inbox[1] /\ Len(inbox') = Len(inbox) - 1
        /\ inbox' \in Seq(Datagram)
    BY <1>0, <1>1
  <1>3. Len(inbox) = 1 /\ Len(wire) = 0 /\ acks = 0 /\ acks' = 1 /\ awaits
    BY <1>0, <1>1, <1>2
  <1>4. inbox' = <<>> /\ wire = <<>>
    BY <1>0, <1>2, <1>3
  <1>5. recv_at = send_at /\ inbox[1].kind = send_at
    <2>1. send_at # "done" /\ (recv_at = send_at \/ send_at = "done")
      BY <1>1, <1>3 DEF SWInv, OneUnderWay, InTurn, NotTaken
    <2> QED BY <1>3, <2>1 DEF SWInv, Current, IsCurrent
  <1>6. AsSent(r)
    BY <1>2
  <1>7. nextBytes' = nextBytes
    BY <1>1 DEF nextBytes
  <1> HIDE DEF r
  <1>8. CASE recv_at \in {"dummy", "name"}
    <2>1. recv_at' \in {"name", "size"} /\ got' = got
      BY <1>8 DEF ReceiveFile
    <2> QED BY <1>4, <1>8, <2>1 DEF SWCounts
  <1>9. CASE recv_at = "size"
    <2>1. /\ rsize' = r.val /\ got' = got
          /\ recv_at' = IF 0 < r.val THEN "data" ELSE "done"
      BY <1>9 DEF ReceiveFile, moreToCome, r
    <2>2. r.val = fsize
      <3>1. r.kind = "size"
        BY <1>2, <1>5, <1>9
      <3> QED BY <1>6, <3>1 DEF AsSent
    <2>3. got = 0 /\ sent_size = 0
      BY <1>5, <1>9 DEF SWCounts, SWInv, Sending
    <2> QED BY <1>1, <1>4, <1>5, <1>9, <2>1, <2>2, <2>3 DEF SWCounts
  <1>10. CASE recv_at = "data"
    <2>1. /\ rsize' = rsize /\ got' = got + r.len
          /\ recv_at' = IF got + r.len < rsize THEN "data" ELSE "done"
      BY <1>10 DEF ReceiveFile, moreToCome, r
    <2>2. r.len = nextBytes
      <3>1. r.kind = "data"
        BY <1>2, <1>5, <1>10
      <3> QED BY <1>6, <3>1 DEF AsSent
    <2>3. rsize = fsize /\ got = sent_size
      BY <1>3, <1>10 DEF SWCounts
    <2>4. got' = sent_size + nextBytes /\ rsize' = fsize
          /\ recv_at' = IF got' < fsize THEN "data" ELSE "done"
      BY <2>1, <2>2, <2>3
    <2> QED BY <1>1, <1>3, <1>4, <1>5, <1>7, <1>10, <2>4 DEF SWCounts
  <1> QED BY <1>1, <1>5, <1>8, <1>9, <1>10 DEF SWInv, StopAndWaitTypeOK

\* One at a time: where there is one, there is nothing else.
LEMMA OnlyOne ==
    ASSUME NEW a \in Nat, NEW b \in Nat, NEW c \in Nat, a + b + c <= 1, a > 0
    PROVE  a = 1 /\ b = 0 /\ c = 0
  OBVIOUS

LEMMA SWIntactStep == SWInv /\ SWIntact /\ [StopAndWaitNext]_stopwait => SWIntact'
  <1> SUFFICES ASSUME SWInv, SWIntact, [StopAndWaitNext]_stopwait,
                      ("corrupt" \notin trouble)', SWWhole'
               PROVE  /\ \A k \in 1..Len(wire') : AsSent(wire[k])'
                      /\ \A k \in 1..Len(inbox') : AsSent(inbox[k])'
                      /\ SWCounts'
    BY DEF SWIntact
  <1>0. /\ Len(wire) \in Nat /\ Len(inbox) \in Nat /\ acks \in Nat
        /\ wire \in Seq(Datagram) /\ inbox \in Seq(Datagram)
        /\ Len(wire) + Len(inbox) + acks <= 1
        /\ ~awaits => Len(wire) + Len(inbox) + acks = 0
    BY DEF SWInv, StopAndWaitTypeOK, OneUnderWay
  <1>1. UNCHANGED <<trouble, fsize>>
    BY DEF StopAndWaitNext, SendFile, Checked, Appears, ReceiveFile, Forwards, Discards,
           stopwait, sw_kept, sw_run
  <1>2. ~Discards /\ SWWhole
    BY SWWholeStep
  <1>3. /\ \A k \in 1..Len(wire) : AsSent(wire[k])
        /\ \A k \in 1..Len(inbox) : AsSent(inbox[k])
        /\ SWCounts
    BY <1>1, <1>2 DEF SWIntact
  <1>4. CASE SendFile
    <2> DEFINE x == [kind |-> send_at,
                     val |-> CASE send_at = "size" -> fsize
                               [] send_at = "data" -> Chunk(sent_size) + 1
                               [] OTHER -> 0,
                     len |-> IF send_at = "data" THEN nextBytes ELSE 1]
    <2>1. /\ wire' = Append(wire, x) /\ ~awaits
          /\ UNCHANGED <<send_at, sent_size, recv_at, rsize, got, inbox, acks>>
      BY <1>4 DEF SendFile, sw_recv
    <2>2. AsSent(x)
      BY DEF AsSent
    <2> HIDE DEF x
    <2>3. Len(wire) = 0 /\ Len(wire') = 1 /\ wire'[1] = x
      BY <1>0, <2>1
    <2>4. nextBytes' = nextBytes /\ \A y : AsSent(y)' <=> AsSent(y)
      BY <1>1, <2>1 DEF nextBytes, AsSent
    <2>5. \A k \in 1..Len(wire') : AsSent(wire[k])'
      BY <2>2, <2>3, <2>4
    <2>6. \A k \in 1..Len(inbox') : AsSent(inbox[k])'
      BY <1>3, <2>1, <2>4
    <2> QED BY <1>1, <1>3, <2>1, <2>4, <2>5, <2>6 DEF SWCounts
  <1>5. CASE Checked
    <2>1. /\ awaits /\ acks' = acks - 1 /\ acks' \in Nat
          /\ UNCHANGED <<recv_at, rsize, got, wire, inbox>>
          /\ sent_size' = IF send_at = "data" THEN sent_size + nextBytes ELSE sent_size
      BY <1>0, <1>5 DEF Checked, after_check, sw_recv
    <2>2. Len(wire') = 0 /\ Len(inbox') = 0 /\ acks = 1 /\ acks' = 0
      BY <1>0, <2>1
    <2> QED BY <1>1, <1>3, <2>1, <2>2 DEF SWCounts
  <1>6. CASE Appears
    <2>1. /\ recv_at = "absent" /\ recv_at' = "dummy"
          /\ UNCHANGED <<send_at, sent_size, got, wire, inbox>>
      BY <1>6 DEF Appears, sw_send
    <2> QED BY <1>1, <1>3, <2>1 DEF SWCounts, AsSent, nextBytes
  <1>7. CASE ReceiveFile
    <2>1. SWCounts' /\ inbox' = <<>> /\ wire = <<>> /\ UNCHANGED wire
      BY <1>3, <1>7, SWCountsOn DEF ReceiveFile
    <2> QED BY <2>1
  <1>8. CASE Forwards
    <2>1. /\ wire # <<>> /\ wire' = Tail(wire)
          /\ UNCHANGED <<send_at, sent_size, recv_at, rsize, got, acks>>
      BY <1>8 DEF Forwards, sw_kept, sw_send, sw_recv
    <2>2. inbox' = Append(inbox, Head(wire))
      BY <1>1, <1>8 DEF Forwards, damagedTo
    <2>3. Len(wire) = 1 /\ Len(inbox) = 0
      <3>1. Len(wire) > 0
        BY <1>0, <2>1
      <3> QED BY <1>0, <3>1, OnlyOne
    <2>4. Head(wire) = wire[1] /\ Len(wire') = Len(wire) - 1
      <3>1. wire[1] \in Datagram
        BY <1>0, <2>3
      <3>2. Head(wire) = wire[1] /\ Len(Tail(wire)) = Len(wire) - 1
        BY <1>0, <2>1, <3>1, QueueFacts
      <3> QED BY <2>1, <3>2
    <2>5. Len(inbox') = 1 /\ inbox'[1] = wire[1]
      <3>1. inbox' = Append(inbox, wire[1]) /\ wire[1] \in Datagram
        BY <1>0, <2>2, <2>3, <2>4
      <3> QED BY <1>0, <2>3, <3>1
    <2>6. nextBytes' = nextBytes /\ \A y : AsSent(y)' <=> AsSent(y)
      BY <1>1, <2>1 DEF nextBytes, AsSent
    <2>7. \A k \in 1..Len(inbox') : AsSent(inbox[k])'
      BY <1>3, <2>3, <2>5, <2>6
    <2>8. \A k \in 1..Len(wire') : AsSent(wire[k])'
      BY <2>3, <2>4
    <2>9. SWCounts'
      BY <1>1, <1>3, <2>1, <2>6 DEF SWCounts
    <2> QED BY <2>7, <2>8, <2>9
  <1>9. CASE UNCHANGED stopwait
    BY <1>3, <1>9 DEF stopwait, sw_run, sw_send, sw_recv, SWCounts, AsSent, nextBytes
  <1> QED BY <1>2, <1>4, <1>5, <1>6, <1>7, <1>8, <1>9 DEF StopAndWaitNext

LEMMA SWIntactIsEnd == SWInv /\ SWIntact => SWRestIsEnd
  <1> SUFFICES ASSUME SWInv, SWIntact, "corrupt" \notin trouble, SWWhole, SWAtRest
               PROVE  send_at = "done" /\ recv_at = "done"
    BY DEF SWRestIsEnd
  <1>0. /\ Len(inbox) \in Nat /\ acks \in Nat /\ Len(wire) = 0 /\ inbox \in Seq(Datagram)
        /\ Len(wire) + Len(inbox) + acks <= 1 /\ (send_at = "done" => ~awaits)
        /\ fsize \in Int /\ sent_size \in Nat
    BY DEF SWInv, StopAndWaitTypeOK, OneUnderWay, SWAtRest
  <1>1. acks = 0 /\ NotTaken /\ SWCounts
    <2>1. acks = 0
      BY <1>0 DEF SWAtRest, SWWhole
    <2> QED BY <2>1 DEF SWInv, InTurn, SWIntact
  <1>2. CASE send_at = "done"
    <2>1. sent_size = AllBytes /\ recv_at \in {"data", "done"}
      BY <1>1, <1>2 DEF SWInv, Sending, NotTaken
    <2>2. ~(got < fsize)
      BY <1>0, <1>1, <2>1 DEF SWCounts, AllBytes
    <2> QED BY <1>1, <1>2, <2>1, <2>2 DEF SWCounts
  <1>3. CASE send_at # "done"
    <2>1. awaits /\ Len(inbox) = 1
      BY <1>0, <1>1, <1>3 DEF SWAtRest, SWWhole
    <2>2. recv_at = "done" /\ send_at = "data"
      BY <1>1, <1>3, <2>1 DEF SWAtRest, NotTaken
    <2>3. got = sent_size /\ ~(got < fsize)
      BY <1>1, <2>2 DEF SWCounts
    <2> QED BY <2>2, <2>3 DEF SWInv, Sending
  <1> QED BY <1>2, <1>3

\* For every file and every size of a message: as long as nothing is lost or damaged,
\* the two programs of lab 2 are never waiting for each other with nothing under way, and
\* neither waits for one that has ended, although neither has a timer.
THEOREM CopyNeverStalls == StopAndWaitSpec => []SWRestIsEnd
  <1>1. StopAndWaitInit => SWInv /\ SWIntact
    <2>1. StopAndWaitInit => SWIntact
      BY DEF StopAndWaitInit, SWIntact, SWCounts
    <2> QED BY <2>1, SWInvInit
  <1>2. SWInv /\ SWIntact /\ [StopAndWaitNext]_stopwait => (SWInv /\ SWIntact)'
    BY SWInvStep, SWIntactStep
  <1>3. SWInv /\ SWIntact => SWRestIsEnd
    BY SWIntactIsEnd
  <1> QED BY <1>1, <1>2, <1>3, PTL DEF StopAndWaitSpec

HIDE StopAndWaitAssumption

-----------------------------------------------------------------------------
(* Lab 11: a mail, command by command.                                       *)

USE SendMailAssumption

MailSpec == MailInit /\ [][MailNext]_mail

-----------------------------------------------------------------------------
(* The invariant: client and server are at one dialogue.                     *)

\* Commands written so far, and how many of them the server has taken.
Written == IF client_at \in {"write", "died"} THEN at_command - 1 ELSE at_command
Consumed == Written - Len(commands)

\* What waits for the server are the last commands written.
InOrder ==
    /\ Consumed >= 0
    /\ client_at = "write" => at_command > 0
    /\ client_at = "died" => at_command > 0
    /\ client_at = "done" => at_command = Len(Dialogue)
    /\ \A k \in 1..Len(commands) : commands[k] = Dialogue[Consumed + k]

\* The server waits for the text only in answer to DATA.
TextIsNext == server_at = "data" => Consumed = 4

\* The reply to DATA says that it does, until it has read it.
Invited ==
    (at_command >= 5 \/ \E k \in 1..Len(pieces) : pieces[k] = "354") =>
        /\ Consumed >= 4
        /\ Consumed = 4 => Gone \/ server_at = "data"

\* After that reply, "250" can only be the answer to the text.
Acknowledged ==
    /\ at_command >= 5 =>
         \A k \in 1..Len(pieces) : pieces[k] = "250" => accepted
    /\ \A j, k \in 1..Len(pieces) :
         j < k /\ pieces[j] = "354" /\ pieces[k] = "250" => accepted
    /\ at_command = 6 => accepted
    /\ accepted => Consumed >= 5

MailInv == MailTypeOK /\ InOrder /\ TextIsNext /\ Invited /\ Acknowledged

-----------------------------------------------------------------------------
(* What the actions do to the two queues.                                    *)

\* A reply is added behind what waits, and holds nothing but its code and the
\* pieces of longer lines.
LEMMA AnswersAdds ==
    ASSUME pieces \in Seq(Piece), NEW code \in Piece, Answers(code)
    PROVE  /\ pieces' \in Seq(Piece)
           /\ Len(pieces') >= Len(pieces)
           /\ \A k \in 1..Len(pieces') :
                IF k <= Len(pieces) THEN pieces'[k] = pieces[k]
                                    ELSE pieces'[k] \in {code, "rest"}
  <1>0. PICK n \in 1..MaxPieces :
           \E more \in [1..(n - 1) -> {code, "rest"}] : pieces' = pieces \o <<code>> \o more
    BY DEF Answers
  <1>1. PICK more \in [1..(n - 1) -> {code, "rest"}] :
           pieces' = pieces \o <<code>> \o more
    BY <1>0
  <1>2. more \in Seq(Piece) /\ \A k \in 1..Len(more) : more[k] \in {code, "rest"}
    BY <1>1 DEF Piece
  <1>2a. Len(more) \in Nat
    BY <1>2
  <1>3. <<code>> \in Seq(Piece) /\ Len(<<code>>) = 1 /\ <<code>>[1] = code
    OBVIOUS
  <1> DEFINE first == pieces \o <<code>>
  <1>4. first \in Seq(Piece) /\ Len(first) = Len(pieces) + 1
        /\ \A k \in 1..Len(first) :
             first[k] = IF k <= Len(pieces) THEN pieces[k] ELSE code
    BY <1>3
  <1>5. pieces' = first \o more
    BY <1>1
  <1> HIDE DEF first
  <1>6. pieces' \in Seq(Piece) /\ Len(pieces') = Len(first) + Len(more)
        /\ \A k \in 1..Len(pieces') :
             pieces'[k] = IF k <= Len(first) THEN first[k] ELSE more[k - Len(first)]
    <2>1. first \in Seq(Piece) /\ more \in Seq(Piece)
      BY <1>2, <1>4
    <2>2. /\ first \o more \in Seq(Piece) /\ Len(first \o more) = Len(first) + Len(more)
          /\ \A k \in 1..Len(first) + Len(more) :
                (first \o more)[k] = IF k <= Len(first) THEN first[k] ELSE more[k - Len(first)]
      BY ONLY <2>1, ConcatProperties
    <2> QED BY ONLY <1>5, <2>2
  <1>7. Len(pieces) \in Nat
    OBVIOUS
  <1> QED
    <2>1. SUFFICES ASSUME NEW k \in 1..Len(pieces')
                   PROVE  IF k <= Len(pieces) THEN pieces'[k] = pieces[k]
                                              ELSE pieces'[k] \in {code, "rest"}
      BY <1>2a, <1>4, <1>6, <1>7
    <2>2. CASE k <= Len(first)
      BY <2>2, <1>4, <1>6, <1>7
    <2>3. CASE k > Len(first)
      <3>1. k - Len(first) \in 1..Len(more) /\ pieces'[k] = more[k - Len(first)]
        BY <2>3, <1>2a, <1>4, <1>6, <1>7
      <3> QED BY <3>1, <2>3, <1>2, <1>4, <1>7
    <2> QED BY <2>2, <2>3, <1>4, <1>7

\* Reading removes the first piece.
LEMMA ReadsFirst ==
    ASSUME NEW S, NEW q \in Seq(S), q # <<>>
    PROVE  /\ Head(q) = q[1] /\ Head(q) \in S /\ Len(q) > 0
           /\ Tail(q) \in Seq(S) /\ Len(Tail(q)) = Len(q) - 1
           /\ \A k \in 1..Len(Tail(q)) : Tail(q)[k] = q[k + 1]
  OBVIOUS

-----------------------------------------------------------------------------

LEMMA MailInvInit == MailInit => MailInv
  <1> SUFFICES ASSUME MailInit PROVE MailInv
    OBVIOUS
  <1>1. commands \in Seq(Command) /\ pieces \in Seq(Piece)
        /\ Len(commands) = 0 /\ Len(pieces) = 0 /\ Len(Dialogue) = 6
    BY DEF MailInit, Dialogue
  <1>2. Consumed = 0
    BY <1>1 DEF MailInit, Consumed, Written
  <1>3. MailTypeOK
    <2>1. at_command \in 0..Len(Dialogue)
      BY <1>1 DEF MailInit
    <2> QED BY <1>1, <2>1, Zenon DEF MailInit, MailTypeOK
  <1>4. InOrder /\ TextIsNext
    BY <1>1, <1>2 DEF MailInit, InOrder, TextIsNext
  <1>5. Invited /\ Acknowledged
    BY <1>1, <1>2 DEF MailInit, Invited, Acknowledged
  <1> QED BY <1>3, <1>4, <1>5 DEF MailInv

\* The client writes the next command behind the others.
LEMMA WritePreserves ==
    ASSUME MailInv, WriteCommand
    PROVE  MailInv'
  <1> USE DEF MailInv, MailTypeOK
  <1>0. Len(Dialogue) = 6 /\ \A k \in 1..6 : Dialogue[k] \in Command
    BY DEF Dialogue, Command
  <1>1. CASE Gone /\ client_at' = "died" /\ UNCHANGED <<commands, server_at>>
    <2>1. Consumed' = Consumed /\ UNCHANGED <<at_command, pieces, accepted>>
      BY <1>1 DEF WriteCommand, Consumed, Written
    <2> QED
      BY <1>0, <1>1, <2>1 DEF WriteCommand, InOrder, TextIsNext, Invited,
         Acknowledged, Gone
  <1>2. CASE /\ client_at' = "read"
             /\ commands' = Append(commands, Dialogue[at_command])
             /\ UNCHANGED server_at \/ (Gone /\ server_at' = "reset")
    <2>1. at_command \in 1..6 /\ UNCHANGED <<at_command, pieces, accepted>>
      BY <1>0, <1>2 DEF WriteCommand, InOrder
    <2>2. commands' \in Seq(Command) /\ Len(commands') = Len(commands) + 1
          /\ \A k \in 1..Len(commands') :
               commands'[k] = IF k <= Len(commands) THEN commands[k]
                                                    ELSE Dialogue[at_command]
      BY <1>0, <1>2, <2>1
    <2>3. /\ Consumed' = Consumed /\ Consumed + Len(commands) + 1 = at_command
          /\ Consumed \in Int
      BY <1>2, <2>1, <2>2 DEF WriteCommand, Consumed, Written
    <2>4. ASSUME NEW k \in 1..Len(commands')
          PROVE  commands'[k] = Dialogue[Consumed' + k]
      <3>1. CASE k <= Len(commands)
        BY <3>1, <2>2, <2>3 DEF InOrder
      <3>2. CASE k = Len(commands) + 1
        BY <3>2, <2>1, <2>2, <2>3
      <3> QED BY <3>1, <3>2, <2>2
    <2>5. InOrder'
      BY <1>2, <2>1, <2>3, <2>4 DEF InOrder
    <2> QED
      BY <1>0, <1>2, <2>1, <2>2, <2>3, <2>5
         DEF WriteCommand, TextIsNext, Invited, Acknowledged, Gone
  <1> QED BY <1>1, <1>2 DEF WriteCommand

\* The greeting is nobody's answer.
LEMMA GreetingPreserves ==
    ASSUME MailInv, ReadGreeting
    PROVE  MailInv'
  <1> USE DEF MailInv, MailTypeOK
  <1>0. Len(Dialogue) = 6
    BY DEF Dialogue
  <1>1. at_command = 0 /\ at_command' = 1 /\ client_at = "read" /\ client_at' = "write"
        /\ UNCHANGED <<commands, server_at, accepted>>
    BY <1>0 DEF ReadGreeting, Proceeds
  <1>2. Consumed' = Consumed
    BY <1>1 DEF Consumed, Written
  <1>3. pieces' \in Seq(Piece) /\ Len(pieces') \in {Len(pieces), Len(pieces) - 1}
        /\ \A k \in 1..Len(pieces') :
             pieces'[k] = pieces[k + (Len(pieces) - Len(pieces'))]
    <2>1. CASE pieces = <<>>
      BY <2>1 DEF ReadGreeting
    <2>2. CASE pieces # <<>>
      BY <2>2, ReadsFirst DEF ReadGreeting
    <2> QED BY <2>1, <2>2
  <1>4. InOrder' /\ TextIsNext'
    BY <1>0, <1>1, <1>2 DEF InOrder, TextIsNext
  <1>5. Invited'
    BY <1>1, <1>2, <1>3 DEF Invited, Gone
  <1>6. Acknowledged'
    <2>1. ASSUME NEW j \in 1..Len(pieces'), NEW k \in 1..Len(pieces'),
                 j < k, pieces'[j] = "354", pieces'[k] = "250"
          PROVE  accepted
      <3> DEFINE d == Len(pieces) - Len(pieces')
      <3>1. j + d \in 1..Len(pieces) /\ k + d \in 1..Len(pieces) /\ j + d < k + d
            /\ pieces[j + d] = "354" /\ pieces[k + d] = "250"
        BY SMTT(20), <1>3, <2>1
      <3> QED BY <3>1 DEF Acknowledged
    <2> QED BY <1>1, <1>2, <2>1 DEF Acknowledged
  <1> QED BY <1>0, <1>1, <1>3, <1>4, <1>5, <1>6

\* The client reads what comes first, and proceeds only if it is expected.
LEMMA ReplyPreserves ==
    ASSUME MailInv, ReadReply
    PROVE  MailInv'
  <1> USE DEF MailInv, MailTypeOK
  <1>0. /\ Len(Dialogue) = 6 /\ Dialogue[4] = "DATA" /\ Dialogue[5] = "text"
        /\ Dialogue[6] = "QUIT" /\ \A k \in 1..3 : Dialogue[k] \notin {"DATA", "QUIT"}
    BY DEF Dialogue
  <1>1. /\ client_at = "read" /\ at_command \in 1..6
        /\ UNCHANGED <<commands, server_at, accepted>>
    BY <1>0 DEF ReadReply
  <1>2. CASE pieces # <<>> /\ pieces' = Tail(pieces)
    <2>1. /\ Head(pieces) = pieces[1] /\ Head(pieces) \in Piece /\ Len(pieces) > 0
          /\ pieces' \in Seq(Piece) /\ Len(pieces') = Len(pieces) - 1
          /\ \A k \in 1..Len(pieces') : pieces'[k] = pieces[k + 1]
      BY <1>2, ReadsFirst
    <2>2. ASSUME NEW j \in 1..Len(pieces'), NEW k \in 1..Len(pieces'),
                 j < k, pieces'[j] = "354", pieces'[k] = "250"
          PROVE  accepted
      <3>1. j + 1 \in 1..Len(pieces) /\ k + 1 \in 1..Len(pieces) /\ j + 1 < k + 1
            /\ pieces[j + 1] = "354" /\ pieces[k + 1] = "250"
        BY <2>1, <2>2
      <3> QED BY <3>1 DEF Acknowledged
    <2>3. CASE Head(pieces) \in expected(Dialogue[at_command]) /\ Proceeds
      <3>1. /\ at_command < 6 => at_command' = at_command + 1 /\ client_at' = "write"
            /\ at_command = 6 => at_command' = 6 /\ client_at' = "done"
        BY <1>0, <1>1, <2>3 DEF Proceeds
      <3>2. Consumed' = Consumed
        BY <1>1, <3>1 DEF Consumed, Written
      <3>3. at_command = 4 => pieces[1] = "354"
        BY <1>0, <2>1, <2>3 DEF expected
      <3>4. at_command = 5 => pieces[1] = "250"
        BY <1>0, <2>1, <2>3 DEF expected
      <3>5. InOrder' /\ TextIsNext'
        BY <1>0, <1>1, <3>1, <3>2 DEF InOrder, TextIsNext
      <3>6. Invited'
        BY <1>1, <2>1, <3>1, <3>2, <3>3 DEF Invited, Gone
      <3>7. ASSUME at_command' >= 5, NEW k \in 1..Len(pieces'), pieces'[k] = "250"
            PROVE  accepted
        <4>1. k + 1 \in 1..Len(pieces) /\ pieces[k + 1] = "250" /\ 1 < k + 1
              /\ 1 \in 1..Len(pieces)
          BY <2>1, <3>7
        <4> QED BY <1>1, <3>1, <3>3, <3>7, <4>1 DEF Acknowledged
      <3>8. at_command' = 6 => accepted
        BY <1>1, <2>1, <3>1, <3>4 DEF Acknowledged
      <3>9. Acknowledged'
        BY <1>1, <2>2, <3>2, <3>7, <3>8 DEF Acknowledged
      <3> QED BY <1>0, <1>1, <2>1, <3>1, <3>5, <3>6, <3>9
    <2>4. CASE client_at' = "failed" /\ UNCHANGED at_command
      <3>1. Consumed' = Consumed
        BY <1>1, <2>4 DEF Consumed, Written
      <3>2. InOrder' /\ TextIsNext'
        BY <1>0, <1>1, <2>4, <3>1 DEF InOrder, TextIsNext
      <3>3. Invited'
        BY <1>1, <2>1, <2>4, <3>1 DEF Invited, Gone
      <3>4. Acknowledged'
        BY <1>1, <2>1, <2>2, <2>4, <3>1 DEF Acknowledged
      <3> QED BY <1>0, <1>1, <2>1, <2>4, <3>2, <3>3, <3>4
    <2> QED BY <1>2, <2>3, <2>4 DEF ReadReply
  <1>3. CASE /\ pieces = <<>> /\ client_at' \in {"undefined", "failed"}
             /\ UNCHANGED <<at_command, pieces>>
    <2>1. Consumed' = Consumed
      BY <1>1, <1>3 DEF Consumed, Written
    <2> QED
      BY <1>0, <1>1, <1>3, <2>1 DEF InOrder, TextIsNext, Invited, Acknowledged, Gone
  <1> QED BY <1>2, <1>3 DEF ReadReply

\* Greeting and giving up invite nobody.
LEMMA ServerPreserves ==
    ASSUME MailInv, Greets \/ GivesUp
    PROVE  MailInv'
  <1> USE DEF MailInv, MailTypeOK
  <1>1. UNCHANGED <<at_command, client_at, commands, accepted>>
    BY DEF Greets, GivesUp
  <1>2. Consumed' = Consumed
    BY <1>1 DEF Consumed, Written
  <1>3. /\ pieces' \in Seq(Piece) /\ Len(pieces') >= Len(pieces) /\ Len(pieces) \in Nat
        /\ \A k \in 1..Len(pieces') :
             IF k <= Len(pieces) THEN pieces'[k] = pieces[k]
                                 ELSE pieces'[k] \in {"220", "error", "rest"}
    <2>1. CASE Greets
      <3>1. Answers("220") /\ "220" \in Piece
        BY <2>1 DEF Greets, Piece
      <3> QED BY <3>1, AnswersAdds
    <2>2. CASE GivesUp
      <3>1. Len(pieces) \in Nat
        OBVIOUS
      <3>2. pieces' = pieces \/ pieces' = Append(pieces, "error")
        BY <2>2 DEF GivesUp
      <3>3. CASE pieces' = Append(pieces, "error")
        <4>1. "error" \in Piece
          BY DEF Piece
        <4>2. /\ pieces' \in Seq(Piece) /\ Len(pieces') = Len(pieces) + 1
              /\ pieces'[Len(pieces) + 1] = "error"
              /\ \A k \in 1..Len(pieces) : pieces'[k] = pieces[k]
          BY <3>3, <4>1, AppendProperties
        <4>3. \A k \in 1..(Len(pieces) + 1) : ~(k <= Len(pieces)) => k = Len(pieces) + 1
          BY ONLY <3>1
        <4> QED BY ONLY <3>1, <4>2, <4>3
      <3> QED BY <3>1, <3>2, <3>3
    <2> QED BY <2>1, <2>2
  <1>4. /\ server_at' \in {"ready", "closed", "reset"}
        /\ Gone => FALSE
        /\ server_at' = "ready" => server_at = "greets"
    BY DEF Greets, GivesUp, Gone
  <1>5. InOrder' /\ TextIsNext'
    BY <1>1, <1>2, <1>4 DEF InOrder, TextIsNext
  <1>6. \A k \in 1..Len(pieces') :
          pieces'[k] \in {"354", "250"} => k \in 1..Len(pieces) /\ pieces'[k] = pieces[k]
    BY <1>3
  <1>7. Invited'
    BY <1>1, <1>2, <1>4, <1>6 DEF Invited, Gone
  <1>8. Acknowledged'
    BY <1>1, <1>2, <1>6 DEF Acknowledged
  <1> QED BY <1>1, <1>3, <1>4, <1>5, <1>7, <1>8

\* The server takes the command that waits longest.
LEMMA ServesPreserves ==
    ASSUME MailInv, Serves
    PROVE  MailInv'
  <1> USE DEF MailInv, MailTypeOK
  <1>0. /\ Len(Dialogue) = 6 /\ Dialogue[4] = "DATA" /\ Dialogue[5] = "text"
        /\ Dialogue[6] = "QUIT" /\ \A k \in 1..3 : Dialogue[k] \notin {"DATA", "text", "QUIT"}
    BY DEF Dialogue
  <1>1. /\ UNCHANGED <<at_command, client_at>> /\ server_at \in {"ready", "data"}
        /\ commands # <<>> /\ commands' = Tail(commands)
    BY DEF Serves
  <1>2. /\ Head(commands) = commands[1] /\ Len(commands) > 0
        /\ commands' \in Seq(Command) /\ Len(commands') = Len(commands) - 1
        /\ \A k \in 1..Len(commands') : commands'[k] = commands[k + 1]
    BY <1>1, ReadsFirst
  <1>3. /\ Consumed \in 0..5 /\ Consumed' = Consumed + 1
        /\ Head(commands) = Dialogue[Consumed + 1]
    <2>1. Written \in Int /\ Written <= 6 /\ Written' = Written
      BY <1>0, <1>1 DEF Written
    <2>2. Consumed \in 0..5 /\ Consumed' = Consumed + 1
      BY <1>2, <2>1, SMTT(20) DEF InOrder, Consumed
    <2>3. commands[1] = Dialogue[Consumed + 1]
      BY <1>2 DEF InOrder
    <2> QED BY <1>2, <2>2, <2>3
  <1>4. InOrder'
    <2>1. ASSUME NEW k \in 1..Len(commands')
          PROVE  commands'[k] = Dialogue[Consumed' + k]
      BY <1>2, <1>3 DEF InOrder
    <2> QED BY <1>1, <1>2, <1>3, <2>1 DEF InOrder
  <1> DEFINE Added(codes) ==
        /\ pieces' \in Seq(Piece) /\ Len(pieces') >= Len(pieces) /\ Len(pieces) \in Nat
        /\ \A k \in 1..Len(pieces') :
             IF k <= Len(pieces) THEN pieces'[k] = pieces[k] ELSE pieces'[k] \in codes
  <1>5. ASSUME NEW code \in Piece, Answers(code)
        PROVE  Added({code, "rest"})
    BY <1>5, AnswersAdds
  <1> USE DEF Piece
  \* The text of the mail, accepted or not.
  <1>6. CASE server_at = "data" /\ accepted' \in BOOLEAN /\ server_at' = "ready"
             /\ Answers(IF accepted' THEN "250" ELSE "error")
    <2>1. Consumed = 4 /\ ~accepted /\ at_command # 6
      BY <1>3, <1>6 DEF TextIsNext, Acknowledged
    <2>2. Added({"250", "error", "rest"})
          /\ \A k \in 1..Len(pieces') : k > Len(pieces) /\ pieces'[k] = "250" => accepted'
      <3>1. CASE accepted'
        BY <3>1, <1>5, <1>6
      <3>2. CASE ~accepted'
        BY <3>2, <1>5, <1>6
      <3> QED BY <3>1, <3>2
    <2>3. TextIsNext' /\ Invited'
      BY <1>1, <1>3, <1>6, <2>1, <2>2 DEF TextIsNext, Invited
    <2>4. at_command' >= 5 =>
            \A k \in 1..Len(pieces') : pieces'[k] = "250" => accepted'
      BY <1>1, <2>1, <2>2 DEF Acknowledged
    <2>5. ASSUME NEW j \in 1..Len(pieces'), NEW k \in 1..Len(pieces'),
                 j < k, pieces'[j] = "354", pieces'[k] = "250"
          PROVE  accepted'
      <3>1. CASE k <= Len(pieces)
        BY <3>1, <2>1, <2>2, <2>5 DEF Acknowledged
      <3>2. CASE k > Len(pieces)
        BY <3>2, <2>2, <2>5
      <3> QED BY <3>1, <3>2, <2>2
    <2>6. Acknowledged'
      BY <1>1, <1>3, <2>1, <2>4, <2>5 DEF Acknowledged
    <2> QED BY <1>1, <1>2, <1>4, <1>6, <2>2, <2>3, <2>6
  \* DATA: until now no reply has invited the text.
  <1>7. CASE server_at = "ready" /\ UNCHANGED accepted /\ Head(commands) = "DATA"
             /\ Answers("354") /\ server_at' = "data"
    <2>1. Consumed = 3
      BY <1>0, <1>3, <1>7
    <2>2. Added({"354", "rest"})
      BY <1>5, <1>7
    <2>3. at_command < 5 /\ \A k \in 1..Len(pieces) : pieces[k] # "354"
      BY <2>1 DEF Invited
    <2>4. TextIsNext' /\ Invited'
      BY <1>1, <1>3, <1>7, <2>1 DEF TextIsNext, Invited
    <2>5. ASSUME NEW j \in 1..Len(pieces'), NEW k \in 1..Len(pieces'),
                 j < k, pieces'[j] = "354", pieces'[k] = "250"
          PROVE  FALSE
      BY SMTT(20), <2>2, <2>3, <2>5
    <2>6. Acknowledged'
      BY <1>1, <1>3, <1>7, <2>1, <2>3, <2>5 DEF Acknowledged
    <2> QED BY <1>1, <1>2, <1>4, <1>7, <2>2, <2>4, <2>6
  \* QUIT, an error: nothing that the client could take for success.
  <1>8. CASE /\ server_at = "ready" /\ UNCHANGED accepted
             /\ \/ Answers("221") /\ server_at' = "closed"
                \/ Answers("error") /\ UNCHANGED server_at
    <2>2. Added({"221", "error", "rest"})
      <3>1. CASE Answers("221")
        BY <3>1, <1>5
      <3>2. CASE Answers("error")
        BY <3>2, <1>5
      <3> QED BY <1>8, <3>1, <3>2
    <2>1. \A k \in 1..Len(pieces') :
            pieces'[k] \in {"354", "250"} => k \in 1..Len(pieces) /\ pieces'[k] = pieces[k]
      BY <2>2
    <2>3. TextIsNext'
      BY <1>8 DEF TextIsNext
    <2>4. Invited'
      BY <1>1, <1>3, <1>8, <2>1 DEF Invited, Gone
    <2>5. Acknowledged'
      <3>1. at_command' = at_command /\ accepted' = accepted /\ Consumed' >= Consumed
        BY <1>1, <1>3, <1>8
      <3>2. Consumed \in Int /\ Consumed' \in Int
        BY <1>3
      <3> QED BY <2>1, <3>1, <3>2 DEF Acknowledged
    <2> QED BY <1>1, <1>2, <1>4, <1>8, <2>2, <2>3, <2>4, <2>5
  \* The commands before DATA.
  <1>9. CASE /\ server_at = "ready" /\ UNCHANGED <<accepted, server_at>>
             /\ Head(commands) \in {"HELO", "MAIL", "RCPT"} /\ Answers("250")
    <2>1. Consumed <= 2
      <3>1. Consumed + 1 \in 1..6 /\ Dialogue[Consumed + 1] \notin {"DATA", "text", "QUIT"}
        BY <1>3, <1>9
      <3>2. Consumed + 1 \notin {4, 5, 6}
        BY <1>0, <3>1
      <3> QED BY <1>3, <3>2
    <2>2. Added({"250", "rest"})
      BY <1>5, <1>9
    <2>3. at_command < 5 /\ ~accepted /\ \A k \in 1..Len(pieces) : pieces[k] # "354"
      BY <1>3, <2>1 DEF Invited, Acknowledged
    <2>4. \A k \in 1..Len(pieces') : pieces'[k] # "354"
      BY <2>2, <2>3
    <2>5. TextIsNext' /\ Invited' /\ Acknowledged'
      BY <1>1, <1>9, <2>3, <2>4 DEF TextIsNext, Invited, Acknowledged
    <2> QED BY <1>1, <1>2, <1>4, <1>9, <2>2, <2>5
  <1> QED BY <1>6, <1>7, <1>8, <1>9 DEF Serves

-----------------------------------------------------------------------------

LEMMA MailInvStep == MailInv /\ [MailNext]_mail => MailInv'
  <1> SUFFICES ASSUME MailInv, [MailNext]_mail PROVE MailInv'
    OBVIOUS
  <1>1. CASE MailClient
    BY <1>1, WritePreserves, GreetingPreserves, ReplyPreserves DEF MailClient
  <1>2. CASE Greets \/ Serves \/ GivesUp
    BY <1>2, ServerPreserves, ServesPreserves
  <1>3. CASE UNCHANGED mail
    BY <1>3 DEF mail, MailInv, MailTypeOK, InOrder, TextIsNext, Invited, Acknowledged,
                Consumed, Written, Gone
  <1> QED BY <1>1, <1>2, <1>3 DEF MailNext

\* The variables keep their types and the client keeps to its dialogue, for
\* replies of any number of pieces.
THEOREM MailInvHolds == MailSpec => []MailInv
  BY MailInvInit, MailInvStep, PTL DEF MailSpec

\* The text is never taken for commands, and a client that ends well has had its
\* mail accepted.
THEOREM AcceptedWhenDone == MailSpec => []MailIsAccepted
  <1>1. ASSUME MailInv PROVE MailIsAccepted
    <2>0. Dialogue[1] # "text" /\ Dialogue[2] # "text" /\ Dialogue[3] # "text"
          /\ Dialogue[4] # "text" /\ Dialogue[6] # "text" /\ Len(Dialogue) = 6
      BY DEF Dialogue
    <2>1. ASSUME NEW k \in DOMAIN commands, commands[k] = "text"
          PROVE  Gone \/ server_at = "data"
      <3>1. k \in 1..Len(commands) /\ Consumed \in Int /\ Consumed >= 0
            /\ Consumed + Len(commands) <= at_command /\ at_command \in 0..6
        BY <1>1, <2>0 DEF MailInv, MailTypeOK, InOrder, Consumed, Written
      <3>2. commands[k] = Dialogue[Consumed + k] /\ Consumed + k \in 1..6
        BY SMTT(20), <1>1, <3>1 DEF MailInv, InOrder
      <3>3. Consumed + k = 5
        BY <2>0, <2>1, <3>2
      <3> QED BY <1>1, <3>1, <3>3 DEF MailInv, Invited
    <2>2. client_at = "done" => accepted
      BY <1>1, <2>0 DEF MailInv, InOrder, Acknowledged
    <2> QED BY <2>1, <2>2 DEF MailIsAccepted
  <1> QED BY <1>1, MailInvHolds, PTL

HIDE SendMailAssumption

-----------------------------------------------------------------------------
(* Lab 7: what is said and what is shown.                                    *)

USE EchoAssumption

EchoSpec == EchoInit /\ [][EchoNext]_echo

\* No byte is lost between a client and whoever is to be shown it.
Balanced(c) == ~HasLeft(c) => shows[c] + downs[c] + ups[to(c)] = sends[to(c)]
Owed(c) == speaker[c] = "waits" /\ calls = "echo" => shows[c] < sends[c]

EchoInv == EchoTypeOK /\ \A c \in Speaker : Balanced(c) /\ Owed(c)

LEMMA EchoInvInit == EchoInit => EchoInv
  BY DEF EchoInit, EchoInv, EchoTypeOK, Balanced, Owed, Speaker, HasLeft, to, Peer

\* To whom c's bytes go, and from whom come those that c is shown.
LEMMA PeerTypes ==
    ASSUME NEW c \in Speaker
    PROVE  to(c) \in Speaker /\ to(to(c)) = c /\ (calls = "echo" => to(c) = c)
  BY DEF Speaker, to, Peer

LEMMA AcceptKeeps == EchoInv /\ AcceptSpeaker => EchoInv'
  BY DEF EchoInv, AcceptSpeaker, EchoTypeOK, Balanced, Owed, HasLeft, to, Peer

LEMMA EndKeeps == EchoInv /\ (Closes \/ Fails) => EchoInv'
  BY DEF EchoInv, Closes, Fails, EchoTypeOK, Balanced, Owed, HasLeft, to, Peer

LEMMA CallsKeeps == ASSUME EchoInv, NEW d \in Speaker, Calls(d) PROVE EchoInv'
  BY DEF EchoInv, Calls, echo_kept, EchoTypeOK, Balanced, Owed, HasLeft, to, Peer

LEMMA LeavesKeeps == ASSUME EchoInv, NEW d \in Speaker, Leaves(d) PROVE EchoInv'
  <1>1. PICK e \in {"left", "lost"} : speaker' = [speaker EXCEPT ![d] = e]
    BY DEF Leaves
  <1> QED BY <1>1 DEF EchoInv, Leaves, echo_kept, EchoTypeOK, Balanced, Owed, HasLeft, to, Peer

LEMMA SaysKeeps == ASSUME EchoInv, NEW d \in Speaker, Says(d) PROVE EchoInv'
  <1>1. PICK n \in LineLengths :
          /\ remaining' = [remaining EXCEPT ![d] = n]
          /\ \/ /\ speaker' = [speaker EXCEPT ![d] = "waits"]
                /\ sends' = [sends EXCEPT ![d] = @ + n]
                /\ ups' = [ups EXCEPT ![d] = @ + n]
             \/ /\ speaker' = [speaker EXCEPT ![d] = "died"]
                /\ UNCHANGED <<sends, ups>>
    BY DEF Says
  <1>2. n \in Nat \ {0}
    OBVIOUS
  <1>3. /\ says' = [says EXCEPT ![d] = @ + 1] /\ says[d] < MaxSays
        /\ UNCHANGED <<calls, echo_at, has, from, downs, shows>>
        /\ speaker[d] = "types"
    BY DEF Says, echo_kept
  <1>4. EchoTypeOK'
    BY <1>1, <1>2, <1>3 DEF EchoInv, EchoTypeOK
  <1>5. ASSUME NEW c \in Speaker PROVE Balanced(c)' /\ Owed(c)'
    <2>1. to(c)' = to(c) /\ to(c) \in Speaker
      BY <1>3, PeerTypes DEF to, Peer
    <2>2. CASE /\ speaker' = [speaker EXCEPT ![d] = "waits"]
               /\ sends' = [sends EXCEPT ![d] = @ + n]
               /\ ups' = [ups EXCEPT ![d] = @ + n]
      <3>1. Balanced(c)'
        BY <1>2, <1>3, <2>1, <2>2 DEF EchoInv, EchoTypeOK, Balanced, HasLeft
      <3>2. Owed(c)'
        <4>1. CASE c = d /\ calls = "echo"
          <5>1. to(c) = c /\ shows[c] <= sends[c]
            BY <1>3, <4>1, PeerTypes DEF EchoInv, EchoTypeOK, Balanced, HasLeft
          <5> QED BY <1>2, <1>3, <2>2, <4>1, <5>1 DEF EchoInv, EchoTypeOK, Owed
        <4>2. CASE c # d \/ calls # "echo"
          BY <1>2, <1>3, <2>2, <4>2 DEF EchoInv, EchoTypeOK, Owed
        <4> QED BY <4>1, <4>2
      <3> QED BY <3>1, <3>2
    <2>3. CASE speaker' = [speaker EXCEPT ![d] = "died"] /\ UNCHANGED <<sends, ups>>
      BY <1>3, <2>1, <2>3 DEF EchoInv, EchoTypeOK, Balanced, Owed, HasLeft
    <2> QED BY <1>1, <2>2, <2>3
  <1> QED BY <1>4, <1>5 DEF EchoInv

LEMMA ShowsKeeps == ASSUME EchoInv, NEW d \in Speaker, Shows(d) PROVE EchoInv'
  <1>1. /\ speaker[d] = "waits" /\ speaker' = [speaker EXCEPT ![d] = "types"]
        /\ UNCHANGED <<calls, echo_at, has, from, says, remaining, sends, ups>>
    BY DEF Shows, echo_kept
  <1>2. CASE UNCHANGED <<downs, shows>>
    BY <1>1, <1>2 DEF EchoInv, EchoTypeOK, Balanced, Owed, HasLeft, to, Peer
  <1>3. ASSUME NEW n \in 1..(IF downs[d] < remaining[d] THEN downs[d] ELSE remaining[d]),
               downs' = [downs EXCEPT ![d] = @ - n], shows' = [shows EXCEPT ![d] = @ + n]
        PROVE  EchoInv'
    <2>1. downs[d] \in Nat /\ remaining[d] \in Nat /\ shows[d] \in Nat
      <3>1. downs[d] \in Nat /\ remaining[d] \in LineLengths \cup {0} /\ shows[d] \in Nat
        BY DEF EchoInv, EchoTypeOK
      <3>2. LineLengths \cup {0} \subseteq Nat
        OBVIOUS
      <3> QED BY <3>1, <3>2
    <2>2. n \in Nat /\ n <= downs[d]
      BY <2>1
    <2>3. EchoTypeOK'
      BY <1>1, <1>3, <2>1, <2>2 DEF EchoInv, EchoTypeOK
    <2>4. ASSUME NEW c \in Speaker PROVE Balanced(c)' /\ Owed(c)'
      <3>1. to(c)' = to(c) /\ to(c) \in Speaker
        BY <1>1, PeerTypes DEF to, Peer
      <3> QED BY <1>1, <1>3, <2>1, <2>2, <3>1 DEF EchoInv, EchoTypeOK, Balanced, Owed, HasLeft
    <2> QED BY <2>3, <2>4 DEF EchoInv
  <1> QED BY <1>2, <1>3 DEF Shows

LEMMA PassesKeeps == EchoInv /\ Passes => EchoInv'
  <1> SUFFICES ASSUME EchoInv, Passes PROVE EchoInv'
    OBVIOUS
  <1>1. /\ from \in Speaker /\ ups[from] \in Nat
        /\ UNCHANGED <<calls, has, says, remaining, sends, shows>>
    BY DEF EchoInv, EchoTypeOK, Passes
  <1>2. PICK n \in 1..(IF ups[from] < EchoBuffer THEN ups[from] ELSE EchoBuffer) :
          /\ ups' = [ups EXCEPT ![from] = @ - n]
          /\ \/ /\ speaker[to(from)] = "lost" /\ echo_at' = "died"
                /\ UNCHANGED <<from, downs, speaker>>
             \/ /\ from' = to(from) /\ UNCHANGED echo_at
                /\ IF HasLeft(to(from))
                   THEN /\ UNCHANGED downs
                        /\ speaker' \in {speaker, [speaker EXCEPT ![to(from)] = "lost"]}
                   ELSE /\ downs' = [downs EXCEPT ![to(from)] = @ + bytes_send(n)]
                        /\ UNCHANGED speaker
    BY DEF Passes
  <1>3. n \in Nat /\ n <= ups[from]
    BY <1>1
  <1>4. to(from) \in Speaker /\ to(to(from)) = from /\ \A c : to(c)' = to(c)
    BY <1>1, PeerTypes DEF to, Peer
  <1>5. ups' \in [Speaker -> Nat]
    BY <1>1, <1>2, <1>3 DEF EchoInv, EchoTypeOK
  \* Only from's bytes are fewer, which are for to(from).
  <1>6. \A c \in Speaker : to(c) = from <=> c = to(from)
    BY <1>1, <1>4, PeerTypes
  <1>7. CASE HasLeft(to(from)) /\ UNCHANGED downs
             /\ speaker' \in {speaker, [speaker EXCEPT ![to(from)] = "lost"]}
             /\ echo_at' \in {echo_at, "died"} /\ from' \in {from, to(from)}
    <2>1. EchoTypeOK'
      BY <1>1, <1>4, <1>5, <1>7 DEF EchoInv, EchoTypeOK
    <2>2. ASSUME NEW c \in Speaker PROVE Balanced(c)' /\ Owed(c)'
      <3>1. to(c) \in Speaker
        BY PeerTypes
      <3>2. ASSUME NEW d \in Speaker, d = to(from) PROVE HasLeft(d)'
        BY <1>4, <1>7, <3>2 DEF HasLeft, EchoInv, EchoTypeOK
      <3>3. CASE c = to(from)
        BY <3>2, <3>3 DEF Balanced, Owed, HasLeft
      <3>4. CASE c # to(from)
        <4>1. speaker'[c] = speaker[c] /\ ups'[to(c)] = ups[to(c)]
          BY <1>1, <1>2, <1>4, <1>6, <1>7, <3>1, <3>4 DEF EchoInv, EchoTypeOK
        <4> QED BY <1>1, <1>4, <1>7, <4>1 DEF EchoInv, Balanced, Owed, HasLeft
      <3> QED BY <3>3, <3>4
    <2> QED BY <2>1, <2>2 DEF EchoInv
  <1>8. CASE /\ ~HasLeft(to(from)) /\ from' = to(from) /\ UNCHANGED <<echo_at, speaker>>
             /\ downs' = [downs EXCEPT ![to(from)] = @ + n]
    <2>1. EchoTypeOK'
      BY <1>1, <1>3, <1>4, <1>5, <1>8 DEF EchoInv, EchoTypeOK
    <2>2. ASSUME NEW c \in Speaker PROVE Balanced(c)' /\ Owed(c)'
      <3>1. to(c) \in Speaker
        BY PeerTypes
      <3>2. CASE c = to(from)
        <4>1. /\ downs'[c] = downs[c] + n /\ ups'[to(c)] = ups[to(c)] - n
              /\ downs[c] \in Nat /\ ups[to(c)] \in Nat /\ shows[c] \in Nat
          BY <1>2, <1>4, <1>8, <3>1, <3>2 DEF EchoInv, EchoTypeOK
        <4> QED BY <1>1, <1>3, <1>4, <1>8, <4>1 DEF EchoInv, Balanced, Owed, HasLeft
      <3>3. CASE c # to(from)
        <4>1. downs'[c] = downs[c] /\ ups'[to(c)] = ups[to(c)]
          BY <1>2, <1>4, <1>6, <1>8, <3>1, <3>3 DEF EchoInv, EchoTypeOK
        <4> QED BY <1>1, <1>4, <1>8, <4>1 DEF EchoInv, Balanced, Owed, HasLeft
      <3> QED BY <3>2, <3>3
    <2> QED BY <2>1, <2>2 DEF EchoInv
  <1>9. speaker[to(from)] = "lost" => HasLeft(to(from))
    BY DEF HasLeft
  <1> QED BY <1>2, <1>7, <1>8, <1>9 DEF bytes_send

LEMMA EchoInvStep == EchoInv /\ [EchoNext]_echo => EchoInv'
  <1>1. EchoInv /\ UNCHANGED echo => EchoInv'
    BY DEF echo, EchoInv, EchoTypeOK, Balanced, Owed, HasLeft, to, Peer
  <1> QED BY <1>1, AcceptKeeps, EndKeeps, CallsKeeps, LeavesKeeps, SaysKeeps, ShowsKeeps,
             PassesKeeps DEF EchoNext, EchoServer

\* The variables keep their types and no byte is lost between those who type, the
\* server and those who are shown it.
THEOREM EchoInvHolds == EchoSpec => []EchoInv
  BY EchoInvInit, EchoInvStep, PTL DEF EchoSpec

\* However lines are cut by the reads, and however many there are, nobody is shown
\* a byte too many or too few, and nobody waits for an echo that has been used up.
THEOREM KeepsPace == EchoSpec => []AnswersKeepPace
  <1>1. EchoInv => AnswersKeepPace
    BY DEF EchoInv, AnswersKeepPace, Balanced, Owed
  <1> QED BY <1>1, EchoInvHolds, PTL

HIDE EchoAssumption

-----------------------------------------------------------------------------
(* Lab 10: what receive_from_server() returns.                               *)

USE HttpAssumption

HttpSpec == HttpInit /\ [][HttpNext]_http

AtItsEnd == server = "fin" /\ size = arrived
Misled == response.announced = NoLength /\ response.mention # 0

\* What the second loop reads up to is the end of the response.
Bounded ==
    http_at = "rest" =>
        \/ AtItsEnd \/ Misled
        \/ header_end = response.header /\ content_length = response.body
Returned == http_at = "puts" => size = WholeResponse \/ AtItsEnd \/ Misled

HttpInv == HttpTypeOK /\ Bounded /\ Returned

LEMMA ResponseTypes ==
    ASSUME NEW w \in Responses
    PROVE  /\ w.header \in Nat /\ w.header > 0 /\ w.body \in Nat /\ w.says \in Nat
           /\ w.announced = NoLength \/ w.announced = w.body
           /\ w.header + w.body + w.says < SizeValues - 1
  OBVIOUS

LEMMA Remainder ==
    ASSUME NEW k \in Nat, NEW n \in Nat, k < n
    PROVE  k % n = k
  OBVIOUS

LEMMA HttpInvInit == HttpInit => HttpInv
  <1> SUFFICES ASSUME HttpInit PROVE HttpInv
    OBVIOUS
  <1>1. response \in Responses /\ response.header \in Nat /\ response.body \in Nat
    BY ResponseTypes DEF HttpInit
  <1> QED BY <1>1 DEF HttpInit, HttpInv, HttpTypeOK, Bounded, Returned, WholeResponse

\* Nothing but the state of the program or of the connection changes.
LEMMA StartKeeps == HttpInv /\ (OpenConnection \/ SendToServer) => HttpInv'
  <1> SUFFICES ASSUME HttpInv, OpenConnection \/ SendToServer PROVE HttpInv'
    OBVIOUS
  <1>1. /\ UNCHANGED <<exchange, size, header_end, content_length, response, arrived>>
        /\ http_at' \in {"send", "head", "failed", "died"}
        /\ server' \in {server, "rst"}
    BY DEF OpenConnection, SendToServer, reading, serving
  <1>2. sent' \in 0..RequestLength
    BY DEF OpenConnection, SendToServer, HttpInv, HttpTypeOK
  <1>3. WholeResponse' = WholeResponse
    BY <1>1 DEF WholeResponse
  <1>4. HttpTypeOK'
    BY <1>1, <1>2, <1>3 DEF HttpInv, HttpTypeOK
  <1> QED BY <1>1, <1>4 DEF HttpInv, Bounded, Returned

LEMMA ServerKeeps == HttpInv /\ (SendsResponse \/ EndsResponse \/ BreaksOff) => HttpInv'
  <1> SUFFICES ASSUME HttpInv, SendsResponse \/ EndsResponse \/ BreaksOff PROVE HttpInv'
    OBVIOUS
  <1>1. /\ UNCHANGED <<exchange, http_at, sent, size, header_end, content_length, response>>
        /\ server = "up" /\ server' \in {"up", "fin", "rst"}
    BY DEF SendsResponse, EndsResponse, BreaksOff, Answering, asked, reading
  <1>2. WholeResponse' = WholeResponse /\ WholeResponse \in Nat
    BY <1>1, ResponseTypes DEF WholeResponse, HttpInv, HttpTypeOK
  <1>3. arrived' \in 0..WholeResponse /\ arrived <= arrived'
    BY <1>2 DEF SendsResponse, EndsResponse, BreaksOff, HttpInv, HttpTypeOK
  <1>4. HttpTypeOK'
    BY <1>1, <1>2, <1>3 DEF HttpInv, HttpTypeOK
  <1> QED BY <1>1, <1>2, <1>4 DEF HttpInv, Bounded, Returned, AtItsEnd, Misled

LEMMA ReadHeadKeeps == HttpInv /\ ReadHead => HttpInv'
  <1> SUFFICES ASSUME HttpInv, ReadHead PROVE HttpInv'
    OBVIOUS
  <1>1. /\ UNCHANGED <<exchange, sent, response, arrived, server>> /\ http_at = "head"
    BY DEF ReadHead, serving
  <1>2. /\ WholeResponse' = WholeResponse /\ WholeResponse \in Nat
        /\ response \in Responses /\ response.header \in Nat /\ response.body \in Nat
    BY <1>1, ResponseTypes DEF WholeResponse, HttpInv, HttpTypeOK
  <1>3. ASSUME NEW n \in 1..BUFLEN, Reads(n),
               \/ /\ header_end' = -1 /\ UNCHANGED <<content_length, http_at>>
               \/ /\ header_end' = response.header
                  /\ \/ UNCHANGED <<content_length, http_at>>
                     \/ content_length' \in LengthsIn(size') /\ http_at' = "rest"
        PROVE  HttpInv'
    <2>1. size' \in 0..arrived
      BY <1>3 DEF Reads, HttpInv, HttpTypeOK
    <2>2. header_end' \in -1..response.header
      BY <1>2, <1>3
    <2>3. CASE UNCHANGED <<content_length, http_at>>
      <3>1. HttpTypeOK'
        BY <1>1, <1>2, <2>1, <2>2, <2>3 DEF HttpInv, HttpTypeOK
      <3> QED BY <1>1, <2>3, <3>1 DEF HttpInv, Bounded, Returned
    <2>4. CASE /\ content_length' \in LengthsIn(size') /\ http_at' = "rest"
               /\ header_end' = response.header
      <3>1. response.announced \in {NoLength, response.body} /\ response.says \in Nat
        BY <1>2, ResponseTypes
      <3>2. \/ response.announced # NoLength /\ content_length' = response.body
            \/ Misled /\ content_length' \in {0, response.says}
        BY <2>4, <3>1 DEF LengthsIn, Misled
      <3>3. content_length' \in Nat
        BY <1>2, <3>1, <3>2
      <3>4. HttpTypeOK'
        BY <1>1, <1>2, <2>1, <2>2, <2>4, <3>3 DEF HttpInv, HttpTypeOK
      <3>5. Bounded'
        BY <1>1, <2>4, <3>2 DEF Bounded, Misled
      <3> QED BY <2>4, <3>4, <3>5 DEF HttpInv, Returned
    <2> QED BY <1>3, <2>3, <2>4
  <1>4. CASE /\ UNCHANGED <<size, header_end, content_length>>
             /\ (AtEnd /\ http_at' = "rest") \/ http_at' = "failed"
    <2>1. HttpTypeOK'
      BY <1>1, <1>2, <1>4 DEF HttpInv, HttpTypeOK
    <2> QED BY <1>1, <1>4, <2>1 DEF HttpInv, Bounded, Returned, AtItsEnd, AtEnd
  <1>5. after_terminator(response.header - 1) = response.header
    BY <1>2 DEF after_terminator
  <1> QED BY <1>3, <1>4, <1>5 DEF ReadHead, Broken, reading

LEMMA ReadRestKeeps == HttpInv /\ ReadRest => HttpInv'
  <1> SUFFICES ASSUME HttpInv, ReadRest PROVE HttpInv'
    OBVIOUS
  <1>1. /\ http_at = "rest"
        /\ UNCHANGED <<exchange, sent, header_end, content_length, response, arrived, server>>
    BY DEF ReadRest, serving
  <1>2. /\ WholeResponse' = WholeResponse /\ WholeResponse \in Nat
        /\ response \in Responses /\ size \in 0..arrived /\ arrived \in 0..WholeResponse
    BY <1>1, ResponseTypes DEF WholeResponse, HttpInv, HttpTypeOK
  <1>3. CASE size >= total /\ http_at' = "puts" /\ UNCHANGED size
    <2>1. HttpTypeOK'
      BY <1>1, <1>2, <1>3 DEF HttpInv, HttpTypeOK
    <2>2. header_end = response.header /\ content_length = response.body => size = WholeResponse
      <3>1. SUFFICES ASSUME header_end = response.header, content_length = response.body
                     PROVE  size = WholeResponse
        OBVIOUS
      <3>2. content_length + header_end = WholeResponse /\ WholeResponse < SizeValues
        BY <1>2, <3>1, ResponseTypes DEF WholeResponse
      <3>3. total = WholeResponse
        BY <1>2, <3>2, Remainder DEF total
      <3> QED BY <1>2, <1>3, <3>3
    <2>3. Returned'
      BY <1>1, <1>2, <1>3, <2>2 DEF HttpInv, Bounded, Returned, AtItsEnd, Misled
    <2> QED BY <1>3, <2>1, <2>3 DEF HttpInv, Bounded
  <1>4. ASSUME NEW n \in 1..BUFLEN, Reads(n), UNCHANGED http_at PROVE HttpInv'
    <2>1. size' \in 0..arrived /\ size # arrived
      BY <1>2, <1>4 DEF Reads
    <2>2. HttpTypeOK'
      BY <1>1, <1>2, <1>4, <2>1 DEF HttpInv, HttpTypeOK
    <2> QED BY <1>1, <1>4, <2>1, <2>2 DEF HttpInv, Bounded, Returned, AtItsEnd, Misled
  <1>5. CASE AtEnd /\ http_at' = "puts" /\ UNCHANGED size
    <2>1. HttpTypeOK'
      BY <1>1, <1>2, <1>5 DEF HttpInv, HttpTypeOK
    <2> QED BY <1>1, <1>5, <2>1 DEF HttpInv, Bounded, Returned, AtItsEnd, AtEnd
  <1>6. CASE Broken /\ UNCHANGED size
    <2>1. HttpTypeOK'
      BY <1>1, <1>2, <1>6 DEF HttpInv, HttpTypeOK, Broken
    <2> QED BY <1>6, <2>1 DEF HttpInv, Bounded, Returned, Broken
  <1> QED BY <1>3, <1>4, <1>5, <1>6 DEF ReadRest

LEMMA PutsKeeps == HttpInv /\ PutsAndClose => HttpInv'
  <1> SUFFICES ASSUME HttpInv, PutsAndClose PROVE HttpInv'
    OBVIOUS
  <1>1. CASE /\ http_at' = "done"
             /\ UNCHANGED <<exchange, sent, size, header_end, content_length, response,
                            arrived, server>>
    <2>1. WholeResponse' = WholeResponse
      BY <1>1 DEF WholeResponse
    <2>2. HttpTypeOK'
      BY <1>1, <2>1 DEF HttpInv, HttpTypeOK
    <2> QED BY <1>1, <2>2 DEF HttpInv, Bounded, Returned
  <1>2. CASE /\ exchange # Exchanges /\ http_at' = "open" /\ exchange' = exchange + 1
             /\ sent' = 0 /\ size' = 0 /\ header_end' = 0 /\ content_length' = 0
             /\ response' \in Responses /\ arrived' = 0 /\ server' = "up"
    <2>1. response'.header \in Nat /\ response'.body \in Nat
      BY <1>2, ResponseTypes
    <2>2. exchange' \in 1..Exchanges
      BY <1>2 DEF HttpInv, HttpTypeOK
    <2>3. HttpTypeOK'
      BY <1>2, <2>1, <2>2 DEF HttpTypeOK, WholeResponse
    <2> QED BY <1>2, <2>3 DEF HttpInv, Bounded, Returned
  <1> QED BY <1>1, <1>2 DEF PutsAndClose, reading, serving

LEMMA HttpInvStep == HttpInv /\ [HttpNext]_http => HttpInv'
  <1>1. HttpInv /\ UNCHANGED http => HttpInv'
    BY DEF http, HttpInv, HttpTypeOK, WholeResponse, Bounded, Returned, AtItsEnd, Misled
  <1> QED BY <1>1, StartKeeps, ServerKeeps, ReadHeadKeeps, ReadRestKeeps, PutsKeeps
          DEF HttpNext, HttpWork

\* The variables keep their types, and what the client reads up to is the end of the
\* response or the server has closed.
THEOREM HttpInvHolds == HttpSpec => []HttpInv
  BY HttpInvInit, HttpInvStep, PTL DEF HttpSpec

\* However the stream is cut, of any response and with any buffer: what is returned is
\* all of it.
THEOREM WholeReturned == HttpSpec => []ReturnsWhole
  <1>1. HttpInv => ReturnsWhole
    BY DEF HttpInv, ReturnsWhole, Returned, AtItsEnd, Misled
  <1> QED BY <1>1, HttpInvHolds, PTL

HIDE HttpAssumption

-----------------------------------------------------------------------------
(* Lab 5: which probe an answer is for.                                      *)

USE ProbeAssumption

ProbeSpec == ProbeInit /\ [][ProbeNext]_probing

ProbeSent == [n : 1..MaxProbes, ttl : Nat, ok : BOOLEAN]

\* One reply per probe that is through.
InTime ==
    /\ probe = IF probe_at = "done" THEN Len(replies) ELSE Len(replies) + 1
    /\ \A k \in DOMAIN replies : replies[k].icmp

\* Probes that have been sent.
Probed == IF probe_at = "send" THEN probe - 1 ELSE probe

\* Answers are to what has been sent, and overtake neither answers nor probes.
Sequence ==
    /\ \A k \in DOMAIN outgoing : outgoing[k].n <= Probed
    /\ \A k \in DOMAIN incoming : incoming[k].to <= Probed
    /\ \A k \in DOMAIN replies : replies[k].to <= Probed
    /\ \A j, k \in DOMAIN outgoing : j < k => outgoing[j].n < outgoing[k].n
    /\ \A j, k \in DOMAIN incoming :
          j < k /\ incoming[k].to # 0 => incoming[j].to < incoming[k].to
    /\ \A j \in DOMAIN replies : \A k \in DOMAIN incoming :
          incoming[k].to # 0 => replies[j].to < incoming[k].to
    /\ \A j \in DOMAIN incoming : \A k \in DOMAIN outgoing : incoming[j].to < outgoing[k].n
    /\ \A j \in DOMAIN replies : \A k \in DOMAIN outgoing : replies[j].to < outgoing[k].n

\* Which hop answers a probe of traceroute.
Sender(p) == mode = "traceroute" /\ p.to # 0 =>
                p.from = IF p.to < distance THEN p.to ELSE distance
Senders ==
    /\ \A k \in DOMAIN outgoing : mode = "traceroute" => outgoing[k].ttl = outgoing[k].n
    /\ \A k \in DOMAIN incoming : Sender(incoming[k])
    /\ \A k \in DOMAIN replies : Sender(replies[k])

Strangers(k) == {j \in 1..k : replies[j].to = 0 /\ replies[j].icmp}
Late(k) == Cardinality(Strangers(k))

\* Every reply but a stranger's is to a probe of its own: no probe lies between.
Lags ==
    /\ \A k \in DOMAIN replies :
          replies[k].to # 0 => replies[k].to <= k /\ k - Late(k) <= replies[k].to
    /\ \A x \in Nat : (\A k \in DOMAIN replies : replies[k].to <= x)
                         => Len(replies) - Late(Len(replies)) <= x
    /\ \A j, k \in DOMAIN replies :
          j < k /\ replies[k].to # 0 => replies[j].to # replies[k].to

ProbeInv == ProbeTypeOK /\ InTime /\ Sequence /\ Senders /\ Lags

LEMMA LateIsNat ==
    ASSUME NEW k \in Nat
    PROVE  IsFiniteSet(Strangers(k)) /\ Late(k) \in Nat /\ Late(k) <= k
  <1>1. Strangers(k) \in SUBSET (1..k) /\ IsFiniteSet(1..k) /\ Cardinality(1..k) = k
    BY FS_Interval DEF Strangers
  <1>2. IsFiniteSet(Strangers(k)) /\ Cardinality(Strangers(k)) <= k
    BY <1>1, FS_Subset
  <1> QED BY <1>2, FS_CardinalityType DEF Late

LEMMA ProbeInvInit == ProbeInit => ProbeInv
  <1> SUFFICES ASSUME ProbeInit PROVE ProbeInv
    OBVIOUS
  <1>1. /\ outgoing = <<>> /\ incoming = <<>> /\ replies = <<>>
        /\ probe = 1 /\ probe_at = "send" /\ Len(replies) = 0
    BY DEF ProbeInit
  <1>2. ProbeTypeOK
    <2>1. outgoing \in Seq(ProbeSent) /\ incoming \in Seq(Reply) /\ replies \in Seq(Reply)
      BY <1>1
    <2> QED BY <2>1 DEF ProbeInit, ProbeTypeOK, ProbeSent
  <1>3. InTime /\ Sequence /\ Senders
    BY <1>1 DEF InTime, Sequence, Senders
  <1>4. Lags
    <2>1. Late(0) \in Nat
      BY LateIsNat
    <2> QED BY <1>1, <2>1 DEF Lags
  <1> QED BY <1>2, <1>3, <1>4 DEF ProbeInv

\* What the sequences are, and what becomes of them.
LEMMA ProbeTypes ==
    ASSUME ProbeTypeOK
    PROVE  /\ outgoing \in Seq(ProbeSent) /\ incoming \in Seq(Reply) /\ replies \in Seq(Reply)
           /\ Len(outgoing) \in Nat /\ DOMAIN outgoing = 1..Len(outgoing)
           /\ Len(incoming) \in Nat /\ DOMAIN incoming = 1..Len(incoming)
           /\ Len(replies) \in Nat /\ DOMAIN replies = 1..Len(replies)
           /\ \A k \in DOMAIN outgoing : outgoing[k].n \in 1..MaxProbes
           /\ \A k \in DOMAIN incoming : incoming[k].to \in 0..MaxProbes
           /\ \A k \in DOMAIN replies : replies[k].to \in 0..MaxProbes
           /\ probe \in 1..MaxProbes /\ Probed \in Nat
  <1>1. outgoing \in Seq(ProbeSent) /\ incoming \in Seq(Reply) /\ replies \in Seq(Reply)
        /\ probe \in 1..MaxProbes
    BY DEF ProbeTypeOK, ProbeSent
  <1>2. \A p \in ProbeSent : p.n \in 1..MaxProbes
    BY DEF ProbeSent
  <1>3. \A p \in Reply : p.to \in 0..MaxProbes
    BY DEF Reply
  <1> QED BY <1>1, <1>2, <1>3, ElementOfSeq, LenProperties DEF Probed

LEMMA Appended ==
    ASSUME NEW S, NEW s \in Seq(S), NEW e \in S
    PROVE  /\ Append(s, e) \in Seq(S) /\ Len(Append(s, e)) = Len(s) + 1
           /\ DOMAIN Append(s, e) = 1..(Len(s) + 1) /\ Append(s, e)[Len(s) + 1] = e
           /\ \A k \in 1..Len(s) : Append(s, e)[k] = s[k]
  BY AppendProperties, LenProperties

LEMMA Beheaded ==
    ASSUME NEW S, NEW s \in Seq(S), s # <<>>
    PROVE  /\ Tail(s) \in Seq(S) /\ Head(s) \in S /\ Len(s) > 0 /\ Head(s) = s[1]
           /\ DOMAIN Tail(s) = 1..(Len(s) - 1) /\ Len(Tail(s)) = Len(s) - 1
           /\ \A k \in 1..(Len(s) - 1) : Tail(s)[k] = s[k + 1]
  BY HeadTailProperties, LenProperties, EmptySeq

LEMMA SendKeeps == ProbeInv /\ SendProbe => ProbeInv'
  <1> SUFFICES ASSUME ProbeInv, SendProbe PROVE ProbeInv'
    OBVIOUS
  <1> DEFINE o == [n |-> probe, ttl |-> IF mode = "ping" THEN 64 ELSE probe,
                   ok |-> Intact(probe)]
  <1>1. /\ probe_at = "send" /\ probe_at' = "recv" /\ outgoing' = Append(outgoing, o)
        /\ mode' = mode /\ distance' = distance /\ weather' = weather /\ probe' = probe
        /\ incoming' = incoming /\ replies' = replies /\ others' = others
    BY DEF SendProbe
  <1>2. ProbeTypeOK /\ InTime /\ Sequence /\ Senders /\ Lags
    BY DEF ProbeInv
  <1>3. Probed = probe - 1 /\ Probed' = probe /\ probe \in 1..MaxProbes
    BY <1>1, <1>2, ProbeTypes DEF Probed
  <1>4. o \in ProbeSent /\ o.n = probe /\ (mode = "traceroute" => o.ttl = o.n)
    BY <1>3 DEF ProbeSent, Intact
  <1> HIDE DEF o
  <1>5. /\ outgoing' \in Seq(ProbeSent) /\ DOMAIN outgoing' = 1..(Len(outgoing) + 1)
        /\ outgoing'[Len(outgoing) + 1] = o
        /\ \A k \in 1..Len(outgoing) : outgoing'[k] = outgoing[k]
    BY <1>1, <1>2, <1>4, ProbeTypes, Appended
  <1>6. ProbeTypeOK'
    BY <1>1, <1>2, <1>5 DEF ProbeTypeOK, ProbeSent
  <1>7. InTime' /\ Lags'
    BY <1>1, <1>2 DEF InTime, Lags, Late, Strangers
  <1>8. Senders'
    <2>1. \A p : Sender(p)' <=> Sender(p)
      BY <1>1 DEF Sender
    <2> QED BY <1>1, <1>2, <1>4, <1>5, <2>1, ProbeTypes DEF Senders
  <1>9. Sequence'
    <2>1. \A k \in DOMAIN outgoing' :
            \/ k \in DOMAIN outgoing /\ k <= Len(outgoing) /\ outgoing'[k] = outgoing[k]
            \/ k = Len(outgoing) + 1 /\ outgoing'[k].n = probe
      BY <1>2, <1>4, <1>5, ProbeTypes
    <2>2. \A k \in DOMAIN outgoing : outgoing[k].n <= probe - 1 /\ outgoing[k].n \in Nat
      BY <1>2, <1>3, ProbeTypes DEF Sequence
    <2>3. /\ \A k \in DOMAIN incoming : incoming[k].to <= probe - 1 /\ incoming[k].to \in Nat
          /\ \A k \in DOMAIN replies : replies[k].to <= probe - 1 /\ replies[k].to \in Nat
      BY <1>2, <1>3, ProbeTypes DEF Sequence
    <2>4. \A k \in DOMAIN outgoing' : outgoing'[k].n <= Probed'
      BY <1>3, <2>1, <2>2
    <2>5. \A j, k \in DOMAIN outgoing' : j < k => outgoing'[j].n < outgoing'[k].n
      <3>1. SUFFICES ASSUME NEW j \in DOMAIN outgoing', NEW k \in DOMAIN outgoing', j < k
                     PROVE  outgoing'[j].n < outgoing'[k].n
        OBVIOUS
      <3>2. j \in DOMAIN outgoing /\ outgoing'[j] = outgoing[j]
        BY <1>2, <1>5, <3>1, ProbeTypes
      <3> QED BY <1>2, <1>3, <2>1, <2>2, <3>1, <3>2 DEF Sequence
    <2>6. /\ \A j \in DOMAIN incoming : \A k \in DOMAIN outgoing' :
                incoming[j].to < outgoing'[k].n
          /\ \A j \in DOMAIN replies : \A k \in DOMAIN outgoing' :
                replies[j].to < outgoing'[k].n
      BY <1>2, <1>3, <2>1, <2>3 DEF Sequence
    <2>7. /\ \A k \in DOMAIN incoming : incoming[k].to <= Probed'
          /\ \A k \in DOMAIN replies : replies[k].to <= Probed'
      BY <1>3, <2>3
    <2> QED BY <1>1, <1>2, <2>4, <2>5, <2>6, <2>7 DEF Sequence
  <1> QED BY <1>6, <1>7, <1>8, <1>9 DEF ProbeInv

\* A packet comes in behind the others.
LEMMA ComesIn ==
    ASSUME ProbeInv, NEW p \in Reply, incoming' = Append(incoming, p), Sender(p),
           p.to <= Probed,
           p.to # 0 => /\ \A j \in DOMAIN incoming : incoming[j].to < p.to
                       /\ \A j \in DOMAIN replies : replies[j].to < p.to,
           \A k \in DOMAIN outgoing' : p.to < outgoing'[k].n,
           Len(outgoing') \in Nat, DOMAIN outgoing' = 1..Len(outgoing'),
           outgoing' \in Seq(ProbeSent),
           \/ outgoing' = outgoing
           \/ outgoing # <<>> /\ outgoing' = Tail(outgoing),
           mode' = mode, distance' = distance, weather' = weather, probe' = probe,
           probe_at' = probe_at, replies' = replies, others' \in 0..MaxOthers
    PROVE  ProbeInv'
  <1>2. ProbeTypeOK /\ InTime /\ Sequence /\ Senders /\ Lags
    BY DEF ProbeInv
  <1>3. Probed' = Probed /\ Probed \in Nat
    BY <1>2, ProbeTypes DEF Probed
  <1>4. /\ incoming' \in Seq(Reply) /\ DOMAIN incoming' = 1..(Len(incoming) + 1)
        /\ incoming'[Len(incoming) + 1] = p
        /\ \A k \in 1..Len(incoming) : incoming'[k] = incoming[k]
    <2>1. incoming \in Seq(Reply) /\ incoming' = Append(incoming, p)
      BY <1>2, ProbeTypes
    <2>2. p \in Reply
      OBVIOUS
    <2> QED BY ONLY <2>1, <2>2, Appended
  <1>5. \A k \in DOMAIN incoming' :
            \/ k \in DOMAIN incoming /\ k <= Len(incoming) /\ incoming'[k] = incoming[k]
            \/ k = Len(incoming) + 1 /\ incoming'[k] = p
    <2>1. Len(incoming) \in Nat /\ DOMAIN incoming = 1..Len(incoming)
      BY <1>2, ProbeTypes
    <2> QED BY <1>4, <2>1
  <1>6. \E d \in {0, 1} : \A k \in DOMAIN outgoing' :
            k + d \in DOMAIN outgoing /\ outgoing'[k] = outgoing[k + d]
    <2>1. CASE outgoing' = outgoing
      BY <1>2, <2>1, ProbeTypes
    <2>2. CASE outgoing # <<>> /\ outgoing' = Tail(outgoing)
      <3>1. outgoing \in Seq(ProbeSent) /\ Len(outgoing) \in Nat /\ DOMAIN outgoing = 1..Len(outgoing)
        BY <1>2, ProbeTypes
      <3>2. /\ DOMAIN outgoing' = 1..(Len(outgoing) - 1)
            /\ \A k \in 1..(Len(outgoing) - 1) : outgoing'[k] = outgoing[k + 1]
        BY ONLY <2>2, <3>1, Beheaded
      <3>3. \A k \in DOMAIN outgoing' : k + 1 \in DOMAIN outgoing
        BY ONLY <3>1, <3>2
      <3> QED BY <3>2, <3>3
    <2> QED BY <2>1, <2>2
  <1>7. PICK d \in {0, 1} : \A k \in DOMAIN outgoing' :
            k + d \in DOMAIN outgoing /\ outgoing'[k] = outgoing[k + d]
    BY <1>6
  <1>8. ProbeTypeOK'
    BY <1>2, <1>4 DEF ProbeTypeOK, ProbeSent
  <1>9. InTime' /\ Lags'
    BY <1>2 DEF InTime, Lags, Late, Strangers
  <1>10. Senders'
    <2>1. \A x : Sender(x)' <=> Sender(x)
      BY DEF Sender
    <2> QED BY <1>2, <1>5, <1>7, <2>1 DEF Senders
  <1>11. Sequence'
    <2>1. \A k \in DOMAIN outgoing' : outgoing'[k].n <= Probed'
      BY <1>2, <1>3, <1>7 DEF Sequence
    <2>2. \A j, k \in DOMAIN outgoing' : j < k => outgoing'[j].n < outgoing'[k].n
      BY <1>2, <1>7 DEF Sequence
    <2>3. \A k \in DOMAIN incoming' : incoming'[k].to <= Probed'
      BY <1>2, <1>3, <1>5 DEF Sequence
    <2>4. \A j, k \in DOMAIN incoming' :
             j < k /\ incoming'[k].to # 0 => incoming'[j].to < incoming'[k].to
      <3>1. SUFFICES ASSUME NEW j \in DOMAIN incoming', NEW k \in DOMAIN incoming', j < k,
                            incoming'[k].to # 0
                     PROVE  incoming'[j].to < incoming'[k].to
        OBVIOUS
      <3>2. j \in DOMAIN incoming /\ incoming'[j] = incoming[j]
        <4>1. Len(incoming) \in Nat /\ DOMAIN incoming = 1..Len(incoming)
          BY <1>2, ProbeTypes
        <4>2. j \in 1..Len(incoming)
          BY ONLY <1>4, <3>1, <4>1
        <4> QED BY <1>4, <4>1, <4>2
      <3> QED BY <1>2, <1>5, <3>1, <3>2 DEF Sequence
    <2>5. \A j \in DOMAIN replies : \A k \in DOMAIN incoming' :
             incoming'[k].to # 0 => replies[j].to < incoming'[k].to
      BY <1>2, <1>5 DEF Sequence
    <2>6. \A j \in DOMAIN incoming' : \A k \in DOMAIN outgoing' :
             incoming'[j].to < outgoing'[k].n
      BY <1>2, <1>5, <1>7 DEF Sequence
    <2>7. \A j \in DOMAIN replies : \A k \in DOMAIN outgoing' :
             replies[j].to < outgoing'[k].n
      BY <1>2, <1>7 DEF Sequence
    <2>8. \A k \in DOMAIN replies : replies[k].to <= Probed'
      BY <1>2, <1>3 DEF Sequence
    <2> QED BY <2>1, <2>2, <2>3, <2>4, <2>5, <2>6, <2>7, <2>8 DEF Sequence
  <1> QED BY <1>8, <1>9, <1>10, <1>11 DEF ProbeInv

LEMMA OtherKeeps == ProbeInv /\ Other => ProbeInv'
  <1> SUFFICES ASSUME ProbeInv, Other PROVE ProbeInv'
    OBVIOUS
  <1>1. PICK p \in [to : {0}, from : {0}, icmp : BOOLEAN, echo : BOOLEAN] :
           incoming' = Append(incoming, p)
    BY DEF Other
  <1>2. p \in Reply /\ p.to = 0
    BY DEF Reply
  <1>3. /\ mode' = mode /\ distance' = distance /\ weather' = weather /\ probe' = probe
        /\ probe_at' = probe_at /\ outgoing' = outgoing /\ replies' = replies
    BY DEF Other
  <1>4. others' \in 0..MaxOthers
    BY DEF Other, ProbeInv, ProbeTypeOK
  <1>5. ProbeTypeOK /\ Probed \in Nat
    BY ProbeTypes DEF ProbeInv
  <1>6. Sender(p)
    BY <1>2 DEF Sender
  <1>7. \A k \in DOMAIN outgoing' : p.to < outgoing'[k].n
    BY <1>2, <1>3, <1>5, ProbeTypes
  <1>8. p.to <= Probed
    BY <1>2, <1>5
  <1> QED BY <1>1, <1>2, <1>3, <1>4, <1>5, <1>6, <1>7, <1>8, ComesIn, ProbeTypes

LEMMA AnswerKeeps == ProbeInv /\ Answer => ProbeInv'
  <1> SUFFICES ASSUME ProbeInv, Answer PROVE ProbeInv'
    OBVIOUS
  <1> DEFINE o == Head(outgoing)
  <1>1. /\ outgoing # <<>> /\ outgoing' = Tail(outgoing)
        /\ mode' = mode /\ distance' = distance /\ weather' = weather /\ probe' = probe
        /\ probe_at' = probe_at /\ replies' = replies /\ others' = others
    BY DEF Answer
  <1>2. ProbeTypeOK /\ InTime /\ Sequence /\ Senders /\ Lags
    BY DEF ProbeInv
  <1>3. /\ outgoing \in Seq(ProbeSent) /\ Len(outgoing) \in Nat /\ DOMAIN outgoing = 1..Len(outgoing)
        /\ Len(incoming) \in Nat /\ Probed \in Nat
    BY <1>2, ProbeTypes
  <1>4. /\ outgoing' \in Seq(ProbeSent) /\ o \in ProbeSent /\ o = outgoing[1] /\ 1 \in DOMAIN outgoing
        /\ Len(outgoing') \in Nat /\ DOMAIN outgoing' = 1..Len(outgoing')
        /\ \A k \in DOMAIN outgoing' : k + 1 \in DOMAIN outgoing
                                      /\ outgoing'[k] = outgoing[k + 1]
    <2>1. /\ outgoing' \in Seq(ProbeSent) /\ o \in ProbeSent /\ o = outgoing[1] /\ Len(outgoing) > 0
          /\ DOMAIN outgoing' = 1..(Len(outgoing) - 1)
          /\ \A k \in 1..(Len(outgoing) - 1) : outgoing'[k] = outgoing[k + 1]
      BY ONLY <1>1, <1>3, Beheaded
    <2>2. Len(outgoing') \in Nat /\ DOMAIN outgoing' = 1..Len(outgoing')
      BY <2>1, LenProperties
    <2>3. \A k \in 1..(Len(outgoing) - 1) : k + 1 \in 1..Len(outgoing)
      BY <1>3
    <2>4. 1 \in DOMAIN outgoing
      BY <1>3, <2>1
    <2> QED BY <1>3, <2>1, <2>2, <2>3, <2>4
  <1>5. /\ o.n \in 1..MaxProbes /\ o.ttl \in Nat /\ o.n <= Probed
        /\ mode = "traceroute" => o.ttl = o.n
        /\ \A k \in DOMAIN outgoing' : o.n < outgoing'[k].n
        /\ \A j \in DOMAIN incoming : incoming[j].to < o.n
        /\ \A j \in DOMAIN replies : replies[j].to < o.n
    <2>1. o.n \in 1..MaxProbes /\ o.ttl \in Nat
      BY <1>4 DEF ProbeSent
    <2>2. \A k \in DOMAIN outgoing' : 1 < k + 1
      BY <1>4
    <2>3. \A k \in DOMAIN outgoing' : o.n < outgoing'[k].n
      BY <1>2, <1>4, <2>2 DEF Sequence
    <2>4. /\ o.n <= Probed
          /\ \A j \in DOMAIN incoming : incoming[j].to < o.n
          /\ \A j \in DOMAIN replies : replies[j].to < o.n
      BY <1>2, <1>4 DEF Sequence
    <2> QED BY <1>2, <1>4, <2>1, <2>3, <2>4 DEF Senders
  <1> HIDE DEF o
  <1>6. distance \in Nat \ {0} /\ others' \in 0..MaxOthers
    BY <1>1, <1>2 DEF ProbeTypeOK
  <1>7. ASSUME NEW e \in BOOLEAN, NEW f \in Nat,
               incoming' = Append(incoming, [to |-> o.n, from |-> f, icmp |-> TRUE, echo |-> e]),
               f = IF o.ttl < distance THEN o.ttl ELSE distance
        PROVE  ProbeInv'
    <2> DEFINE p == [to |-> o.n, from |-> f, icmp |-> TRUE, echo |-> e]
    <2>1. p \in Reply /\ p.to = o.n
      BY <1>5 DEF Reply
    <2>2. Sender(p)
      BY <1>5, <1>7 DEF Sender
    <2> HIDE DEF p
    <2>3. incoming' = Append(incoming, p)
      BY <1>7 DEF p
    <2> QED BY <1>1, <1>4, <1>5, <1>6, <2>1, <2>2, <2>3, ComesIn
  <1>8. CASE UNCHANGED incoming
    <2>1. Probed' = Probed /\ \A x : Sender(x)' <=> Sender(x)
      BY <1>1 DEF Probed, Sender
    <2>2. ProbeTypeOK'
      BY <1>1, <1>2, <1>4, <1>8 DEF ProbeTypeOK, ProbeSent
    <2>3. InTime' /\ Lags'
      BY <1>1, <1>2 DEF InTime, Lags, Late, Strangers
    <2>4. Senders'
      BY <1>1, <1>2, <1>4, <1>8, <2>1 DEF Senders
    <2>5. \A j, k \in DOMAIN outgoing' : j < k => j + 1 < k + 1
      BY <1>4
    <2>6. Sequence'
      BY <1>1, <1>2, <1>4, <1>8, <2>1, <2>5 DEF Sequence
    <2> QED BY <2>2, <2>3, <2>4, <2>6 DEF ProbeInv
  <1>9. \/ UNCHANGED incoming
        \/ \E e \in BOOLEAN : \E f \in Nat :
              /\ incoming' = Append(incoming,
                                [to |-> o.n, from |-> f, icmp |-> TRUE, echo |-> e])
              /\ f = IF o.ttl < distance THEN o.ttl ELSE distance
    <2>1. CASE o.ttl < distance /\ incoming' = Append(incoming,
                 [to |-> o.n, from |-> o.ttl, icmp |-> TRUE, echo |-> FALSE])
      BY <1>5, <2>1
    <2>2. CASE o.ttl >= distance /\ incoming' = Append(incoming,
                 [to |-> o.n, from |-> distance, icmp |-> TRUE, echo |-> TRUE])
      <3>1. distance = IF o.ttl < distance THEN o.ttl ELSE distance
        BY <1>5, <1>6, <2>2
      <3> QED BY <1>6, <2>2, <3>1
    <2> QED BY <2>1, <2>2 DEF Answer, o
  <1> QED BY <1>7, <1>8, <1>9

\* What a new reply does to the count.
LEMMA LateGrows ==
    ASSUME ProbeInv, NEW p \in Reply, p.icmp, replies' = Append(replies, p),
           NEW n, n = Len(replies) + 1
    PROVE  /\ \A k \in 0..Len(replies) : Late(k)' = Late(k)
           /\ p.to = 0 => Late(n)' = Late(Len(replies)) + 1
           /\ p.to # 0 => Late(n)' = Late(Len(replies))
  <1>1. replies \in Seq(Reply) /\ Len(replies) \in Nat
    BY ProbeTypes DEF ProbeInv
  <1>2. replies'[n] = p /\ \A k \in 1..Len(replies) : replies'[k] = replies[k]
    BY <1>1, Appended
  <1>3. \A k \in 0..Len(replies) : Strangers(k)' = Strangers(k)
    <2>1. SUFFICES ASSUME NEW k \in 0..Len(replies), NEW j \in 1..k
                   PROVE  replies'[j] = replies[j]
      BY DEF Strangers
    <2>2. j \in 1..Len(replies)
      BY <1>1
    <2> QED BY <1>2, <2>2
  <1>4. n \notin Strangers(Len(replies)) /\ IsFiniteSet(Strangers(Len(replies)))
        /\ Late(Len(replies)) \in Nat
    <2>1. n \notin 1..Len(replies)
      BY <1>1
    <2>2. n \notin Strangers(Len(replies))
      BY <2>1 DEF Strangers
    <2> QED BY <1>1, <2>2, LateIsNat
  <1>5. 1..n = (1..Len(replies)) \cup {n}
    BY <1>1
  <1>6. p.to = 0 => Strangers(n)' = Strangers(Len(replies)) \cup {n}
    BY <1>2, <1>5 DEF Strangers
  <1>7. p.to # 0 => Strangers(n)' = Strangers(Len(replies))
    BY <1>2, <1>5 DEF Strangers
  <1>8. p.to = 0 => Late(n)' = Late(Len(replies)) + 1
    <2>1. Cardinality(Strangers(Len(replies)) \cup {n}) = Late(Len(replies)) + 1
      BY <1>4, FS_AddElement DEF Late
    <2> QED BY <1>6, <2>1 DEF Late
  <1> QED BY <1>3, <1>7, <1>8 DEF Late

LEMMA RecvKeeps == ProbeInv /\ RecvReply => ProbeInv'
  <1> SUFFICES ASSUME ProbeInv, RecvReply PROVE ProbeInv'
    OBVIOUS
  <1> DEFINE p == Head(incoming)
  <1>1. /\ probe_at = "recv" /\ incoming # <<>> /\ incoming' = Tail(incoming)
        /\ mode' = mode /\ distance' = distance /\ weather' = weather
        /\ outgoing' = outgoing /\ others' = others
    BY DEF RecvReply
  <1>2. ProbeTypeOK /\ InTime /\ Sequence /\ Senders /\ Lags
    BY DEF ProbeInv
  <1>3. /\ incoming \in Seq(Reply) /\ Len(incoming) \in Nat /\ DOMAIN incoming = 1..Len(incoming)
        /\ replies \in Seq(Reply) /\ Len(replies) \in Nat /\ DOMAIN replies = 1..Len(replies)
        /\ probe \in 1..MaxProbes
    BY <1>2, ProbeTypes
  <1>4. /\ incoming' \in Seq(Reply) /\ p \in Reply /\ p = incoming[1] /\ 1 \in DOMAIN incoming
        /\ \A k \in DOMAIN incoming' : /\ k + 1 \in DOMAIN incoming /\ 1 < k + 1
                                      /\ incoming'[k] = incoming[k + 1]
        /\ \A j, k \in DOMAIN incoming' : j < k => j + 1 < k + 1
    <2>1. /\ incoming' \in Seq(Reply) /\ p \in Reply /\ p = incoming[1] /\ Len(incoming) > 0
          /\ DOMAIN incoming' = 1..(Len(incoming) - 1)
          /\ \A k \in 1..(Len(incoming) - 1) : incoming'[k] = incoming[k + 1]
      BY ONLY <1>1, <1>3, Beheaded
    <2>2. \A k \in 1..(Len(incoming) - 1) : k + 1 \in 1..Len(incoming) /\ 1 < k + 1
      BY <1>3
    <2>3. \A j, k \in 1..(Len(incoming) - 1) : j < k => j + 1 < k + 1
      BY <1>3
    <2>4. 1 \in DOMAIN incoming
      BY <1>3, <2>1
    <2> QED BY <1>3, <2>1, <2>2, <2>3, <2>4
  <1>5. /\ p.to \in 0..MaxProbes /\ p.to <= probe /\ Sender(p)
        /\ p.to # 0 => \A j \in DOMAIN replies : replies[j].to < p.to
        /\ \A k \in DOMAIN outgoing : p.to < outgoing[k].n
        /\ \A k \in DOMAIN incoming' : incoming'[k].to # 0 => p.to < incoming'[k].to
    <2>1. p.to \in 0..MaxProbes
      BY <1>4 DEF Reply
    <2>2. \A k \in DOMAIN incoming' : incoming'[k].to # 0 => p.to < incoming'[k].to
      BY <1>2, <1>4 DEF Sequence
    <2> QED BY <1>1, <1>2, <1>4, <2>1, <2>2 DEF Sequence, Senders, Probed
  <1>6. \A x : Sender(x)' <=> Sender(x)
    BY <1>1 DEF Sender
  <1> HIDE DEF p
  <1>7. CASE UNCHANGED <<probe, probe_at, replies>>
    <2>1. Probed' = Probed
      BY <1>7 DEF Probed
    <2>2. ProbeTypeOK'
      BY <1>1, <1>2, <1>4, <1>7 DEF ProbeTypeOK
    <2>3. InTime' /\ Lags'
      BY <1>1, <1>2, <1>7 DEF InTime, Lags, Late, Strangers
    <2>4. Senders'
      BY <1>1, <1>2, <1>4, <1>6, <1>7 DEF Senders
    <2>5. Sequence'
      BY <1>1, <1>2, <1>4, <1>7, <2>1 DEF Sequence
    <2> QED BY <2>2, <2>3, <2>4, <2>5 DEF ProbeInv
  <1>8. CASE /\ p.icmp /\ replies' = Append(replies, p)
             /\ \/ probe_at' = "done" /\ probe' = probe
                \/ probe_at' = "send" /\ probe' = probe + 1 /\ probe # MaxProbes
    <2>1. PICK n : n = Len(replies) + 1
      OBVIOUS
    <2>2. /\ replies' \in Seq(Reply) /\ Len(replies') = n /\ DOMAIN replies' = 1..n
          /\ replies'[n] = p /\ \A k \in 1..Len(replies) : replies'[k] = replies[k]
      <3>1. p \in Reply /\ replies' = Append(replies, p)
        BY <1>4, <1>8
      <3> QED BY ONLY <1>3, <2>1, <3>1, Appended
    <2>3. \A k \in DOMAIN replies' :
             \/ k \in DOMAIN replies /\ k <= Len(replies) /\ k < n /\ replies'[k] = replies[k]
             \/ k = n /\ replies'[k] = p
      BY <1>3, <2>1, <2>2
    <2>4. Probed' = probe /\ Probed = probe /\ probe = n /\ n \in Nat
      BY <1>1, <1>2, <1>3, <1>8, <2>1 DEF Probed, InTime
    <2>5. ProbeTypeOK'
      <3>1. probe' \in 1..MaxProbes
        BY <1>3, <1>8
      <3> QED BY <1>1, <1>2, <1>4, <1>8, <2>2, <3>1 DEF ProbeTypeOK
    <2>6. InTime'
      BY <1>2, <1>8, <2>2, <2>3, <2>4 DEF InTime
    <2>7. Senders'
      BY <1>1, <1>2, <1>4, <1>5, <1>6, <2>3 DEF Senders
    <2>8. Sequence'
      <3>1. \A k \in DOMAIN replies' : replies'[k].to <= Probed'
        BY <1>2, <1>5, <2>3, <2>4 DEF Sequence
      <3>2. \A j \in DOMAIN replies' : \A k \in DOMAIN incoming' :
               incoming'[k].to # 0 => replies'[j].to < incoming'[k].to
        BY <1>2, <1>4, <1>5, <2>3 DEF Sequence
      <3>3. \A j \in DOMAIN replies' : \A k \in DOMAIN outgoing :
               replies'[j].to < outgoing[k].n
        BY <1>2, <1>5, <2>3 DEF Sequence
      <3> QED BY <1>1, <1>2, <1>4, <2>4, <3>1, <3>2, <3>3 DEF Sequence
    <2>9. /\ \A k \in 0..Len(replies) : Late(k)' = Late(k)
          /\ p.to = 0 => Late(n)' = Late(Len(replies)) + 1
          /\ p.to # 0 => Late(n)' = Late(Len(replies))
      BY <1>4, <1>8, <2>1, LateGrows
    <2>10. Late(Len(replies)) \in Nat
      BY <1>3, LateIsNat
    <2>11. \A x \in Nat : (\A k \in DOMAIN replies' : replies'[k].to <= x) => n - Late(n)' <= x
      <3>1. SUFFICES ASSUME NEW x \in Nat, \A k \in DOMAIN replies' : replies'[k].to <= x
                     PROVE  n - Late(n)' <= x
        OBVIOUS
      <3>2. p.to <= x
        <4>1. n \in DOMAIN replies'
          BY <1>3, <2>1, <2>2
        <4> QED BY <2>2, <3>1, <4>1
      <3>3. CASE p.to = 0
        <4>1. \A k \in DOMAIN replies : replies[k].to <= x
          BY <1>3, <2>1, <2>2, <3>1
        <4>2. Len(replies) - Late(Len(replies)) <= x
          BY <1>2, <4>1 DEF Lags
        <4> QED BY <1>3, <2>1, <2>9, <2>10, <3>3, <4>2
      <3>4. CASE p.to # 0
        <4>1. p.to - 1 \in Nat /\ p.to \in Nat
          BY <1>5, <3>4
        <4>2. \A k \in DOMAIN replies : replies[k].to <= p.to - 1
          BY <1>2, <1>5, <3>4, <4>1, ProbeTypes
        <4>3. Len(replies) - Late(Len(replies)) <= p.to - 1
          BY <1>2, <4>1, <4>2 DEF Lags
        <4> QED BY <1>3, <2>1, <2>9, <2>10, <3>2, <3>4, <4>1, <4>3
      <3> QED BY <3>3, <3>4
    <2>12. p.to # 0 => p.to <= n /\ n - Late(n)' <= p.to
      <3>1. SUFFICES ASSUME p.to # 0 PROVE p.to <= n /\ n - Late(n)' <= p.to
        OBVIOUS
      <3>2. p.to \in Nat
        BY <1>5
      <3>3. \A k \in DOMAIN replies' : replies'[k].to <= p.to
        BY <1>2, <1>5, <2>3, <3>1, <3>2, ProbeTypes
      <3> QED BY <1>5, <2>4, <2>11, <3>2, <3>3
    <2>13. Lags'
      <3>1. ASSUME NEW k \in DOMAIN replies', replies'[k].to # 0
            PROVE  replies'[k].to <= k /\ k - Late(k)' <= replies'[k].to
        <4>1. CASE k = n
          BY <2>2, <2>12, <3>1, <4>1
        <4>2. CASE k \in DOMAIN replies /\ replies'[k] = replies[k]
          <5>1. k \in 0..Len(replies)
            BY <1>3, <4>2
          <5> QED BY <1>2, <2>9, <3>1, <4>2, <5>1 DEF Lags
        <4> QED BY <2>3, <4>1, <4>2
      <3>2. \A j, k \in DOMAIN replies' :
               j < k /\ replies'[k].to # 0 => replies'[j].to # replies'[k].to
        <4>1. SUFFICES ASSUME NEW j \in DOMAIN replies', NEW k \in DOMAIN replies', j < k,
                              replies'[k].to # 0
                       PROVE  replies'[j].to # replies'[k].to
          OBVIOUS
        <4>2. j \in DOMAIN replies /\ replies'[j] = replies[j] /\ replies[j].to \in Nat
          <5>1. j # n
            BY <2>2, <2>4, <4>1
          <5> QED BY <1>2, <2>3, <5>1, ProbeTypes
        <4> QED BY <1>2, <1>5, <2>3, <4>1, <4>2 DEF Lags
      <3> QED BY <2>2, <2>11, <3>1, <3>2 DEF Lags
    <2> QED BY <2>5, <2>6, <2>7, <2>8, <2>13 DEF ProbeInv
  <1> QED BY <1>7, <1>8 DEF RecvReply, relevant_packet, Last, p

LEMMA ProbeInvStep == ProbeInv /\ [ProbeNext]_probing => ProbeInv'
  <1>1. ASSUME ProbeInv, UNCHANGED probing PROVE ProbeInv'
    <2>1. /\ mode' = mode /\ distance' = distance /\ weather' = weather /\ probe' = probe
          /\ probe_at' = probe_at /\ outgoing' = outgoing /\ incoming' = incoming
          /\ replies' = replies /\ others' = others
      BY <1>1 DEF probing
    <2>2. ProbeTypeOK' /\ InTime' /\ Senders'
      BY <1>1, <2>1 DEF ProbeInv, ProbeTypeOK, InTime, Senders, Sender
    <2>3. Sequence'
      BY <1>1, <2>1 DEF ProbeInv, Sequence, Probed
    <2>4. Lags'
      BY <1>1, <2>1 DEF ProbeInv, Lags, Late, Strangers
    <2> QED BY <2>2, <2>3, <2>4 DEF ProbeInv
  <1> QED BY <1>1, SendKeeps, RecvKeeps, AnswerKeeps, OtherKeeps DEF ProbeNext, ProbeStep

\* The variables keep their types, answers overtake neither answers nor probes, and
\* those that are on their way are as many as are late.
THEOREM ProbeInvHolds == ProbeSpec => []ProbeInv
  BY ProbeInvInit, ProbeInvStep, PTL DEF ProbeSpec

LEMMA ProbeInvIsEnough == ProbeInv => AnswersAreOwn
  <1> SUFFICES ASSUME ProbeInv, NEW k \in DOMAIN replies, replies[k].to # 0
               PROVE  /\ k - replies[k].to \in 0..Late(k)
                      /\ mode = "traceroute" /\ Strangers(k) = {} =>
                           replies[k].from = IF k < distance THEN k ELSE distance
                      /\ \A j \in 1..(k - 1) : replies[j].to # replies[k].to
    BY DEF AnswersAreOwn, Strangers, Late
  <1>1. /\ k \in Nat /\ replies[k].to \in Nat /\ Late(k) \in Nat
        /\ \A j \in 1..(k - 1) : j \in DOMAIN replies /\ j < k
    <2>1. DOMAIN replies = 1..Len(replies) /\ Len(replies) \in Nat /\ replies[k].to \in Nat
      BY ProbeTypes DEF ProbeInv
    <2>2. k \in Nat
      BY <2>1
    <2>3. \A j \in 1..(k - 1) : j \in 1..Len(replies) /\ j < k
      BY <2>1
    <2> QED BY <2>1, <2>2, <2>3, LateIsNat
  <1>2. /\ replies[k].to <= k /\ k - Late(k) <= replies[k].to
        /\ \A j \in 1..(k - 1) : replies[j].to # replies[k].to
    BY <1>1 DEF ProbeInv, Lags
  <1>3. k - replies[k].to \in 0..Late(k)
    BY <1>1, <1>2
  <1>4. Strangers(k) = {} => replies[k].to = k
    <2>1. Strangers(k) = {} => Late(k) = 0
      BY FS_EmptySet DEF Late
    <2> QED BY <1>1, <1>2, <2>1
  <1> QED BY <1>2, <1>3, <1>4 DEF ProbeInv, Senders, Sender

\* For any number of probes, at any distance, and whatever else the socket sees: each
\* stranger puts the answers off by one at most.
THEOREM OwnAnswers == ProbeSpec => []AnswersAreOwn
  BY ProbeInvHolds, ProbeInvIsEnough, PTL

HIDE ProbeAssumption

-----------------------------------------------------------------------------
\* A set of naturals has a least element.
LEMMA LeastOf ==
    ASSUME NEW T \in SUBSET Nat, T # {}
    PROVE  \E x \in T : \A y \in T : x <= y
  <1> DEFINE R == {ss \in Nat \X Nat : ss[1] < ss[2]}
  <1>1. IsWellFoundedOn(R, Nat)
    BY NatLessThanWellFounded DEF OpToRel
  <1>2. \A y, x \in Nat : <<y, x>> \in R <=> y < x
    OBVIOUS
  <1>3. PICK x \in T : \A y \in T : <<y, x>> \notin R
    <2> HIDE DEF R
    <2> QED BY <1>1, WFMin
  <1>4. \A y \in T : ~(y < x)
    BY <1>2, <1>3
  <1> QED BY <1>4

-----------------------------------------------------------------------------
(* Lab 6: what has been stored.                                              *)

USE BackupAssumption

BackupSpec == BackupInit /\ [][BackupNext]_backup

PieceSent == [kind : {"count", "name", "chunk", "end"}, of : Nat, part : Nat]
Char     == Nat \cup {Junk}
Parts(f) == Len(files[f].marked)

\* The file and the part of every datagram on its way, and behind them of the next one.
Here      == Len(datagrams) + 1
FileAt(k) == IF k <= Len(datagrams) THEN datagrams[k].of ELSE sending[1]
PartAt(k) == IF k <= Len(datagrams) THEN datagrams[k].part ELSE sending[2]

\* A datagram of this client.
Made(d) ==
    \/ d.kind = "count" /\ d.of = 0 /\ d.part = Len(files)
    \/ d.of \in DOMAIN files /\ d.part \in 0..(Parts(d.of) + 1) /\ d.kind = KindOf(d.of, d.part)

Client ==
    /\ sending[1] \in 1..(Len(files) + 1) /\ sending[2] \in Nat
    /\ sending[1] <= Len(files) => sending[2] <= Parts(sending[1]) + 1
    /\ \A k \in DOMAIN datagrams : Made(datagrams[k])
    /\ sender_at = "count" =>
          datagrams = <<>> /\ sending[1] = 1 /\ sending[2] = 0 /\ backup_at = "count"

Server ==
    /\ backup_at = "count" => taken = 0 /\ DOMAIN stored = {}
    /\ backup_at \in {"name", "chunks"} => taken < numFiles
    /\ backup_at = "chunks" => fd \in DOMAIN stored
    /\ backup_at = "done" => taken = numFiles

\* Datagrams are on their way in the order of what they are part of.
Before(j, k) == FileAt(j) < FileAt(k) \/ (FileAt(j) = FileAt(k) /\ PartAt(j) < PartAt(k))
Sorted == disturbed \subseteq {"lose"} => \A j, k \in 1..Here : j < k => Before(j, k)

BackupBase == BackupTypeOK /\ Client /\ Server /\ Sorted

\* The string in a buffer begins like the buffer.
LEMMA NamedFacts ==
    ASSUME NEW buffer \in Buffer
    PROVE  /\ Named(buffer) \in Seq(Char)
           /\ \A m \in 0..NameLength : (\A p \in 1..m : buffer[p] # Nul) =>
                 Len(Named(buffer)) >= m /\ \A p \in 1..m : Named(buffer)[p] = buffer[p]
  <1> DEFINE ends == {p \in 1..NameLength : buffer[p] = Nul}
             first == CHOOSE p \in ends : \A j \in ends : p <= j
  <1>1. buffer \in [1..NameLength -> Char] /\ NameLength \in Nat
    BY DEF Buffer, Char
  <1>2. CASE ends = {}
    <2>1. buffer \in Seq(Char) /\ Len(buffer) = NameLength
      BY <1>1
    <2>2. Named(buffer) = buffer
      BY <1>2 DEF Named
    <2> QED BY <2>1, <2>2
  <1>3. CASE ends # {}
    <2>1. \E p \in ends : \A j \in ends : p <= j
      <3>1. ends \in SUBSET Nat
        OBVIOUS
      <3> HIDE DEF ends
      <3> QED BY ONLY <1>3, <3>1, LeastOf
    <2>2. first \in ends /\ \A j \in ends : first <= j
      BY <2>1
    <2>3. Named(buffer) = SubSeq(buffer, 1, first - 1)
      BY <1>3 DEF Named
    <2>4. first \in 1..NameLength /\ buffer[first] = Nul
      BY <2>2
    <2> HIDE DEF first, ends
    <2>5. \A i \in 1..(first - 1) : buffer[i] \in Char
      BY <1>1, <2>4
    <2>6. /\ SubSeq(buffer, 1, first - 1) \in Seq(Char)
          /\ Len(SubSeq(buffer, 1, first - 1)) = first - 1
          /\ \A i \in 1..(first - 1) : SubSeq(buffer, 1, first - 1)[i] = buffer[i]
      <3>1. 1 \in Int /\ first - 1 \in Int
        BY <1>1, <2>4
      <3>2. /\ SubSeq(buffer, 1, first - 1) \in Seq(Char)
            /\ Len(SubSeq(buffer, 1, first - 1)) = IF 1 <= first - 1 THEN first - 1 - 1 + 1 ELSE 0
            /\ \A i \in 1..(first - 1 - 1 + 1) : SubSeq(buffer, 1, first - 1)[i] = buffer[1 + i - 1]
        BY <2>5, <3>1, SubSeqProperties
      <3> QED BY <1>1, <2>4, <3>2
    <2>7. ASSUME NEW m \in 0..NameLength, \A p \in 1..m : buffer[p] # Nul
          PROVE  m <= first - 1
      BY <1>1, <2>4, <2>7
    <2> QED BY <2>3, <2>4, <2>6, <2>7
  <1> QED BY <1>2, <1>3

LEMMA BackupTypes ==
    ASSUME BackupTypeOK
    PROVE  /\ datagrams \in Seq(PieceSent) /\ Len(datagrams) \in Nat
           /\ DOMAIN datagrams = 1..Len(datagrams)
           /\ \A k \in DOMAIN datagrams : datagrams[k] \in PieceSent
           /\ \A k \in 1..Here : FileAt(k) \in Nat /\ PartAt(k) \in Nat
           /\ files \in Seq(File) /\ Len(files) \in Nat /\ DOMAIN files = 1..Len(files)
           /\ \A f \in DOMAIN files : /\ Parts(f) \in Nat /\ files[f].length \in 1..NameLength
                                      /\ files[f].marked \in Seq(BOOLEAN)
  <1>1. datagrams \in Seq(PieceSent) /\ files \in Seq(File)
    BY DEF BackupTypeOK, PieceSent
  <1>2. /\ Len(datagrams) \in Nat /\ DOMAIN datagrams = 1..Len(datagrams)
        /\ \A k \in DOMAIN datagrams : datagrams[k] \in PieceSent
        /\ Len(files) \in Nat /\ DOMAIN files = 1..Len(files)
        /\ \A f \in DOMAIN files : files[f] \in File
    BY <1>1, LenProperties, ElementOfSeq
  <1>3. sending[1] \in Nat /\ sending[2] \in Nat
    BY DEF BackupTypeOK
  <1>4. ASSUME NEW k \in 1..Here PROVE FileAt(k) \in Nat /\ PartAt(k) \in Nat
    <2>1. CASE k <= Len(datagrams)
      <3>1. datagrams[k] \in PieceSent
        BY <1>2, <2>1
      <3> QED BY <2>1, <3>1 DEF FileAt, PartAt, PieceSent
    <2>2. CASE ~(k <= Len(datagrams))
      BY <1>3, <2>2 DEF FileAt, PartAt
    <2> QED BY <2>1, <2>2
  <1>5. ASSUME NEW f \in DOMAIN files
        PROVE  Parts(f) \in Nat /\ files[f].length \in 1..NameLength
               /\ files[f].marked \in Seq(BOOLEAN)
    <2>1. files[f] \in File
      BY <1>2
    <2>2. files[f].marked \in Seq(BOOLEAN) /\ files[f].length \in 1..NameLength
      BY <2>1 DEF File
    <2> QED BY <2>2, LenProperties DEF Parts
  <1> QED BY <1>1, <1>2, <1>4, <1>5

\* What a datagram less leaves of the order.
LEMMA WithoutFacts ==
    ASSUME BackupTypeOK, NEW k \in DOMAIN datagrams, datagrams' = Without(k),
           sending' = sending
    PROVE  /\ datagrams' \in Seq(PieceSent) /\ Len(datagrams') = Len(datagrams) - 1
           /\ Here' = Len(datagrams)
           /\ \A j \in 1..Len(datagrams) :
                /\ j + 1 \in 1..Here
                /\ FileAt(j)' = FileAt(IF j < k THEN j ELSE j + 1)
                /\ PartAt(j)' = PartAt(IF j < k THEN j ELSE j + 1)
           /\ \A j \in DOMAIN datagrams' :
                /\ (IF j < k THEN j ELSE j + 1) \in DOMAIN datagrams
                /\ datagrams'[j] = datagrams[IF j < k THEN j ELSE j + 1]
           /\ DOMAIN datagrams' = 1..(Len(datagrams) - 1)
  <1> DEFINE n == Len(datagrams)
             at(j) == IF j < k THEN j ELSE j + 1
  <1>1. n \in Nat /\ DOMAIN datagrams = 1..n /\ k \in 1..n
        /\ \A j \in 1..n : datagrams[j] \in PieceSent
    BY BackupTypes
  <1>2. datagrams' = [j \in 1..(n - 1) |-> datagrams[at(j)]]
    BY DEF Without
  <1>3. \A j \in 1..(n - 1) : at(j) \in 1..n
    BY <1>1
  <1>4. datagrams' \in [1..(n - 1) -> PieceSent] /\ n - 1 \in Nat
    BY <1>1, <1>2, <1>3
  <1>5. datagrams' \in Seq(PieceSent) /\ Len(datagrams') = n - 1 /\ DOMAIN datagrams' = 1..(n - 1)
    BY <1>4
  <1>6. ASSUME NEW j \in 1..n
        PROVE  FileAt(j)' = FileAt(at(j)) /\ PartAt(j)' = PartAt(at(j)) /\ j + 1 \in 1..Here
    <2>1. CASE j = n
      <3>1. at(j) = n + 1 /\ ~(at(j) <= n) /\ ~(j <= n - 1)
        BY <1>1, <2>1
      <3> QED BY <1>1, <1>5, <2>1, <3>1 DEF FileAt, PartAt, Here
    <2>2. CASE j # n
      <3>1. j \in 1..(n - 1) /\ at(j) \in 1..n /\ j <= n - 1 /\ at(j) <= n
        <4>1. n \in Nat /\ j \in 1..n /\ k \in 1..n
          BY <1>1, <1>6
        <4> HIDE DEF n
        <4> QED BY <2>2, <4>1
      <3>2. datagrams'[j] = datagrams[at(j)]
        <4> HIDE DEF n
        <4> QED BY ONLY <1>2, <3>1
      <3> QED BY <1>1, <1>5, <3>1, <3>2 DEF FileAt, PartAt, Here
    <2> QED BY <2>1, <2>2
  <1>7. Here' = n
    BY <1>1, <1>5 DEF Here
  <1> QED BY <1>2, <1>3, <1>5, <1>6, <1>7

LEMMA StaysSorted ==
    ASSUME BackupTypeOK, Client, Sorted, NEW k \in DOMAIN datagrams, datagrams' = Without(k),
           sending' = sending, files' = files, disturbed' = disturbed, sender_at' = sender_at
    PROVE  Sorted' /\ Client' /\ sender_at # "count"
  <1>1. Len(datagrams) \in Nat /\ k \in 1..Len(datagrams)
    BY BackupTypes
  <1>2. Sorted'
    <2>1. SUFFICES ASSUME disturbed \subseteq {"lose"}, NEW i \in 1..Here', NEW j \in 1..Here', i < j
                   PROVE  Before(i, j)'
      BY DEF Sorted
    <2> DEFINE at(x) == IF x < k THEN x ELSE x + 1
    <2>2. at(i) \in 1..Here /\ at(j) \in 1..Here /\ at(i) < at(j)
      BY <1>1, <2>1, WithoutFacts DEF Here
    <2>3. Before(at(i), at(j))
      BY <2>1, <2>2 DEF Sorted
    <2>4. /\ FileAt(i)' = FileAt(at(i)) /\ PartAt(i)' = PartAt(at(i))
          /\ FileAt(j)' = FileAt(at(j)) /\ PartAt(j)' = PartAt(at(j))
      BY <2>1, WithoutFacts
    <2> HIDE DEF at
    <2> QED BY <2>3, <2>4 DEF Before
  <1>3. sender_at # "count"
    BY <1>1 DEF Client
  <1>4. \A d : Made(d)' <=> Made(d)
    BY DEF Made, KindOf, Parts
  <1>5. \A j \in DOMAIN datagrams' : Made(datagrams'[j])
    BY WithoutFacts DEF Client
  <1>6. Client'
    BY <1>3, <1>4, <1>5 DEF Client, Parts
  <1> QED BY <1>2, <1>3, <1>6

\* What one more leaves of it.
LEMMA SentFacts ==
    ASSUME BackupTypeOK, NEW d \in PieceSent, datagrams' = Append(datagrams, d),
           d.of = sending[1], d.part = sending[2]
    PROVE  /\ datagrams' \in Seq(PieceSent) /\ Here' = Here + 1
           /\ \A k \in 1..Here : FileAt(k)' = FileAt(k) /\ PartAt(k)' = PartAt(k)
           /\ \A k : k = Here + 1 => FileAt(k)' = sending'[1] /\ PartAt(k)' = sending'[2]
           /\ DOMAIN datagrams' = 1..Here /\ datagrams'[Here] = d
           /\ \A k \in DOMAIN datagrams : datagrams'[k] = datagrams[k]
           /\ FileAt(Here) = sending[1] /\ PartAt(Here) = sending[2]
  <1> DEFINE n == Len(datagrams)
  <1>1. datagrams \in Seq(PieceSent) /\ n \in Nat /\ DOMAIN datagrams = 1..n
    BY BackupTypes
  <1>2. /\ datagrams' \in Seq(PieceSent) /\ Len(datagrams') = n + 1
        /\ datagrams'[n + 1] = d /\ \A k \in 1..n : datagrams'[k] = datagrams[k]
        /\ DOMAIN datagrams' = 1..(n + 1)
    BY <1>1, AppendProperties, LenProperties
  <1>3. Here = n + 1 /\ Here' = n + 2
    BY <1>1, <1>2 DEF Here
  <1> HIDE DEF n
  <1>4. ASSUME NEW k \in 1..(n + 1) PROVE FileAt(k)' = FileAt(k) /\ PartAt(k)' = PartAt(k)
    <2>1. CASE k = n + 1
      <3>1. ~(k <= n) /\ k <= n + 1
        BY <1>1, <2>1
      <3> QED BY <1>2, <2>1, <3>1 DEF FileAt, PartAt, n
    <2>2. CASE k # n + 1
      <3>1. k \in 1..n /\ k <= n /\ k <= n + 1
        BY <1>1, <2>2
      <3> QED BY <1>2, <3>1 DEF FileAt, PartAt, n
    <2> QED BY <2>1, <2>2
  <1>5. FileAt(n + 1) = sending[1] /\ PartAt(n + 1) = sending[2]
    <2>1. ~(n + 1 <= n)
      BY <1>1
    <2> QED BY <2>1 DEF FileAt, PartAt, n
  <1>6. ASSUME NEW k, k = Here + 1
        PROVE  FileAt(k)' = sending'[1] /\ PartAt(k)' = sending'[2]
    <2>1. ~(k <= n + 1)
      BY <1>1, <1>3, <1>6
    <2> QED BY <1>2, <2>1 DEF FileAt, PartAt
  <1>7. \A k \in DOMAIN datagrams : datagrams'[k] = datagrams[k]
    BY <1>1, <1>2 DEF n
  <1>8. /\ \A k \in 1..Here : FileAt(k)' = FileAt(k) /\ PartAt(k)' = PartAt(k)
        /\ FileAt(Here) = sending[1] /\ PartAt(Here) = sending[2]
        /\ Here + 1 = n + 2 /\ Here' = Here + 1 /\ DOMAIN datagrams' = 1..Here
        /\ datagrams'[Here] = d
    BY <1>1, <1>2, <1>3, <1>4, <1>5
  <1> QED BY <1>2, <1>6, <1>7, <1>8

Idle == numFiles' = numFiles /\ taken' = taken /\ nF' = nF /\ fd' = fd /\ stored' = stored
        /\ backup_at' = backup_at

LEMMA ServerSame ==
    ASSUME BackupTypeOK, Server, Idle, files' = files, disturbed' = disturbed,
           datagrams' \in Seq(PieceSent), sending' \in Nat \X Nat,
           sender_at' \in {"count", "files", "done", "died"}
    PROVE  BackupTypeOK' /\ Server'
  BY DEF BackupTypeOK, Server, Idle, PieceSent

\* The datagram that SendPart sends, and what it makes the next one.
Next1(f, p) == IF p > Parts(f) THEN <<f + 1, 0>> ELSE <<f, p + 1>>
SendsPart ==
    /\ sender_at = "files" /\ sender_at' = sender_at
    /\ sending[1] <= Len(files)
    /\ datagrams' = Append(datagrams, Dgram(KindOf(sending[1], sending[2]), sending[1], sending[2]))
    /\ sending' = Next1(sending[1], sending[2])
    /\ files' = files /\ disturbed' = disturbed

LEMMA SendsPartFacts ==
    ASSUME BackupTypeOK, Client, SendsPart, NEW f, NEW p, f = sending[1], p = sending[2]
    PROVE  /\ f \in DOMAIN files /\ f \in Nat \ {0} /\ p \in Nat /\ p <= Parts(f) + 1
           /\ Parts(f) \in Nat /\ Len(files) \in Nat /\ f <= Len(files)
           /\ Dgram(KindOf(f, p), f, p) \in PieceSent /\ Made(Dgram(KindOf(f, p), f, p))
           /\ \/ p = Parts(f) + 1 /\ sending'[1] = f + 1 /\ sending'[2] = 0
              \/ p <= Parts(f) /\ sending'[1] = f /\ sending'[2] = p + 1
           /\ sending' \in Nat \X Nat
           /\ Dgram(KindOf(f, p), f, p).of = f /\ Dgram(KindOf(f, p), f, p).part = p
           /\ Dgram(KindOf(f, p), f, p).kind = KindOf(f, p)
  <1>1. /\ f \in 1..(Len(files) + 1) /\ p \in Nat /\ Len(files) \in Nat /\ f <= Len(files)
        /\ DOMAIN files = 1..Len(files) /\ p <= Parts(f) + 1
    BY BackupTypes DEF Client, SendsPart
  <1>2. f \in DOMAIN files /\ f \in Nat \ {0}
    BY <1>1
  <1>3. Parts(f) \in Nat
    BY <1>2, BackupTypes
  <1>4. KindOf(f, p) \in {"count", "name", "chunk", "end"}
    BY DEF KindOf
  <1>5. /\ Dgram(KindOf(f, p), f, p) \in PieceSent
        /\ Dgram(KindOf(f, p), f, p).of = f /\ Dgram(KindOf(f, p), f, p).part = p
        /\ Dgram(KindOf(f, p), f, p).kind = KindOf(f, p)
    BY <1>1, <1>2, <1>4 DEF Dgram, PieceSent
  <1>6. Made(Dgram(KindOf(f, p), f, p))
    <2>1. p \in 0..(Parts(f) + 1)
      BY <1>1, <1>3
    <2> QED BY <1>2, <1>5, <2>1 DEF Made
  <1>7. sending' = Next1(f, p)
    BY DEF SendsPart
  <1>8. CASE p > Parts(f)
    <2>1. sending' = <<f + 1, 0>> /\ p = Parts(f) + 1
      BY <1>1, <1>3, <1>7, <1>8 DEF Next1
    <2> QED BY <1>1, <1>2, <1>3, <1>5, <1>6, <2>1
  <1>9. CASE ~(p > Parts(f))
    <2>1. sending' = <<f, p + 1>> /\ p <= Parts(f)
      BY <1>1, <1>3, <1>7, <1>9 DEF Next1
    <2> QED BY <1>1, <1>2, <1>3, <1>5, <1>6, <2>1
  <1> QED BY <1>8, <1>9

LEMMA PartKeepsOrder ==
    ASSUME BackupTypeOK, Client, Sorted, SendsPart
    PROVE  /\ Sorted' /\ Client' /\ datagrams' \in Seq(PieceSent) /\ sending' \in Nat \X Nat
           /\ Here \in Nat \ {0} /\ Here' = Here + 1
           /\ \A k \in 1..Here : FileAt(k)' = FileAt(k) /\ PartAt(k)' = PartAt(k)
           /\ FileAt(Here) = sending[1] /\ PartAt(Here) = sending[2]
           /\ \A k : k = Here + 1 => FileAt(k)' = sending'[1] /\ PartAt(k)' = sending'[2]
           /\ \A k \in DOMAIN datagrams : datagrams'[k] = datagrams[k]
           /\ DOMAIN datagrams' = 1..Here
  <1>1. PICK f, p : f = sending[1] /\ p = sending[2]
    OBVIOUS
  <1> DEFINE d == Dgram(KindOf(f, p), f, p)
  <1>2. /\ f \in Nat \ {0} /\ p \in Nat /\ d \in PieceSent /\ Made(d) /\ Parts(f) \in Nat
        /\ f <= Len(files) /\ Len(files) \in Nat
        /\ \/ p = Parts(f) + 1 /\ sending'[1] = f + 1 /\ sending'[2] = 0
           \/ p <= Parts(f) /\ sending'[1] = f /\ sending'[2] = p + 1
        /\ sending' \in Nat \X Nat /\ d.of = f /\ d.part = p
    BY <1>1, SendsPartFacts
  <1>3. datagrams' = Append(datagrams, d) /\ files' = files /\ disturbed' = disturbed
        /\ sender_at' = sender_at /\ sender_at = "files"
    BY <1>1 DEF SendsPart
  <1> HIDE DEF d
  <1>4. /\ datagrams' \in Seq(PieceSent) /\ Here' = Here + 1
        /\ \A k \in 1..Here : FileAt(k)' = FileAt(k) /\ PartAt(k)' = PartAt(k)
        /\ \A k : k = Here + 1 => FileAt(k)' = sending'[1] /\ PartAt(k)' = sending'[2]
        /\ DOMAIN datagrams' = 1..Here /\ datagrams'[Here] = d
        /\ \A k \in DOMAIN datagrams : datagrams'[k] = datagrams[k]
        /\ FileAt(Here) = f /\ PartAt(Here) = p
    BY <1>1, <1>2, <1>3, SentFacts
  <1>5. Here \in Nat \ {0} /\ DOMAIN datagrams = 1..(Here - 1)
    BY BackupTypes DEF Here
  <1>6. Sorted'
    <2>1. SUFFICES ASSUME disturbed \subseteq {"lose"}, NEW i \in 1..(Here + 1),
                          NEW j \in 1..(Here + 1), i < j
                   PROVE  Before(i, j)'
      BY <1>3, <1>4 DEF Sorted
    <2>2. i \in 1..Here
      BY <1>5, <2>1
    <2>3. /\ FileAt(i)' = FileAt(i) /\ PartAt(i)' = PartAt(i)
          /\ FileAt(i) \in Nat /\ PartAt(i) \in Nat
      BY <1>4, <2>2, BackupTypes
    <2>4. CASE j \in 1..Here
      <3>1. Before(i, j)
        BY <2>1, <2>2, <2>4 DEF Sorted
      <3> QED BY <1>4, <2>3, <2>4, <3>1 DEF Before
    <2>5. CASE j = Here + 1
      <3>1. FileAt(j)' = sending'[1] /\ PartAt(j)' = sending'[2]
        BY <1>4, <2>5
      <3>2. i = Here \/ Before(i, Here)
        <4>1. Here \in 1..Here /\ (i < Here \/ i = Here)
          BY <1>5, <2>2
        <4> QED BY <2>1, <2>2, <4>1 DEF Sorted
      <3>3. FileAt(i) < f \/ (FileAt(i) = f /\ PartAt(i) <= p)
        BY <1>2, <1>4, <2>3, <3>2 DEF Before
      <3>4. ASSUME NEW x \in Nat, NEW y \in Nat, x < f \/ (x = f /\ y <= p)
            PROVE  x < sending'[1] \/ (x = sending'[1] /\ y < sending'[2])
        BY <1>2, <3>4
      <3>5. FileAt(i) < sending'[1] \/ (FileAt(i) = sending'[1] /\ PartAt(i) < sending'[2])
        BY <2>3, <3>3, <3>4
      <3> QED BY <2>3, <3>1, <3>5 DEF Before
    <2> QED BY <1>5, <2>1, <2>4, <2>5
  <1>7. Client'
    <2>1. \A e : Made(e)' <=> Made(e)
      BY <1>3 DEF Made, KindOf, Parts
    <2>2. \A k \in DOMAIN datagrams' : Made(datagrams'[k])
      <3>1. \A k \in 1..Here : k \in DOMAIN datagrams \/ k = Here
        BY <1>5
      <3> QED BY <1>2, <1>4, <3>1 DEF Client
    <2>3. /\ sending'[1] \in 1..(Len(files) + 1) /\ sending'[2] \in Nat
          /\ sending'[1] <= Len(files) => sending'[2] <= Parts(sending'[1]) + 1
      <3>1. CASE sending'[1] = f + 1 /\ sending'[2] = 0
        <4>1. f + 1 \in 1..(Len(files) + 1)
          BY <1>2
        <4>2. ASSUME f + 1 <= Len(files) PROVE 0 <= Parts(f + 1) + 1
          <5>1. f + 1 \in DOMAIN files
            BY <1>2, <4>2, BackupTypes
          <5>2. Parts(f + 1) \in Nat
            BY <5>1, BackupTypes
          <5> QED BY <5>2
        <4> QED BY <3>1, <4>1, <4>2
      <3>2. CASE p <= Parts(f) /\ sending'[1] = f /\ sending'[2] = p + 1
        BY <1>2, <3>2
      <3> QED BY <1>2, <3>1, <3>2
    <2> QED BY <1>3, <2>1, <2>2, <2>3 DEF Client, Parts
  <1> QED BY <1>1, <1>2, <1>4, <1>5, <1>6, <1>7

LEMMA SendPartCases ==
    ASSUME SendPart
    PROVE  /\ Idle /\ files' = files /\ disturbed' = disturbed /\ sender_at = "files"
           /\ SendsPart \/ (/\ sending' = sending /\ datagrams' = datagrams
                            /\ sender_at' \in {"done", "died"})
  BY DEF SendPart, Idle, SendsPart, Next1, Parts

\* The number is the first datagram.
LEMMA CountFacts ==
    ASSUME BackupTypeOK, Client, SendCount
    PROVE  /\ Here = 1 /\ Here' = 2 /\ DOMAIN datagrams' = {1}
           /\ datagrams'[1] = Dgram("count", 0, Len(files)) /\ datagrams' \in Seq(PieceSent)
           /\ FileAt(1)' = 0 /\ PartAt(1)' = Len(files)
           /\ FileAt(2)' = 1 /\ PartAt(2)' = 0
           /\ Idle /\ files' = files /\ disturbed' = disturbed /\ sending' = sending
           /\ sender_at = "count" /\ sender_at' = "files" /\ sending[1] = 1 /\ sending[2] = 0
           /\ backup_at = "count"
  <1>1. /\ datagrams = <<>> /\ datagrams' = Append(datagrams, Dgram("count", 0, Len(files)))
        /\ sending[1] = 1 /\ sending[2] = 0 /\ Len(files) \in Nat /\ backup_at = "count"
    BY BackupTypes DEF SendCount, Client
  <1>2. Dgram("count", 0, Len(files)) \in PieceSent /\ Dgram("count", 0, Len(files)).of = 0
        /\ Dgram("count", 0, Len(files)).part = Len(files)
    BY <1>1 DEF Dgram, PieceSent
  <1>3. datagrams' = <<Dgram("count", 0, Len(files))>>
    BY <1>1
  <1>4. Len(datagrams) = 0 /\ Len(datagrams') = 1 /\ DOMAIN datagrams' = {1}
        /\ datagrams'[1] = Dgram("count", 0, Len(files)) /\ datagrams' \in Seq(PieceSent)
    BY <1>1, <1>2, <1>3
  <1>5. Idle /\ files' = files /\ disturbed' = disturbed /\ sending' = sending
        /\ sender_at = "count" /\ sender_at' = "files"
    BY DEF SendCount, Idle
  <1>6. Here = 1 /\ Here' = 2
    BY <1>4 DEF Here
  <1>7. 1 <= 1 /\ ~(2 <= 1)
    OBVIOUS
  <1>8. FileAt(1)' = 0 /\ PartAt(1)' = Len(files) /\ FileAt(2)' = 1 /\ PartAt(2)' = 0
    BY <1>1, <1>2, <1>4, <1>5, <1>7 DEF FileAt, PartAt
  <1> QED BY <1>1, <1>4, <1>5, <1>6, <1>8

LEMMA BaseBySending ==
    ASSUME BackupBase, SendCount \/ SendPart
    PROVE  BackupBase'
  <1>1. BackupTypeOK /\ Client /\ Server /\ Sorted
    BY DEF BackupBase
  <1>2. CASE SendCount
    <2>1. BackupTypeOK' /\ Server'
      <3>1. sending' \in Nat \X Nat
        BY <1>1, <1>2, CountFacts DEF BackupTypeOK
      <3> QED BY <1>1, <1>2, <3>1, CountFacts, ServerSame
    <2>2. Sorted'
      <3>1. SUFFICES ASSUME NEW i \in 1..2, NEW j \in 1..2, i < j PROVE Before(i, j)'
        BY <1>1, <1>2, CountFacts DEF Sorted
      <3>2. i = 1 /\ j = 2
        BY <3>1
      <3>3. FileAt(i)' = 0 /\ FileAt(j)' = 1
        BY <1>1, <1>2, <3>2, CountFacts
      <3> QED BY <3>3 DEF Before
    <2>3. Client'
      <3>1. \A e : Made(e)' <=> Made(e)
        BY <1>1, <1>2, CountFacts DEF Made, KindOf, Parts
      <3>2. Made(Dgram("count", 0, Len(files)))
        BY DEF Made, Dgram
      <3> QED BY <1>1, <1>2, <3>1, <3>2, CountFacts DEF Client, Parts
    <2> QED BY <2>1, <2>2, <2>3 DEF BackupBase
  <1>3. CASE SendPart
    <2>1. CASE SendsPart
      <3>1. BackupTypeOK' /\ Server'
        <4>1. sender_at' = "files"
          BY <2>1 DEF SendsPart
        <4> QED BY <1>1, <1>3, <2>1, <4>1, SendPartCases, PartKeepsOrder, ServerSame
      <3> QED BY <1>1, <2>1, <3>1, PartKeepsOrder DEF BackupBase
    <2>2. CASE ~SendsPart
      <3>1. /\ Idle /\ files' = files /\ disturbed' = disturbed /\ sender_at = "files"
            /\ sending' = sending /\ datagrams' = datagrams /\ sender_at' \in {"done", "died"}
        BY <1>3, <2>2, SendPartCases
      <3>2. datagrams' \in Seq(PieceSent) /\ sending' \in Nat \X Nat
        BY <1>1, <3>1 DEF BackupTypeOK, PieceSent
      <3>3. BackupTypeOK' /\ Server'
        BY <1>1, <3>1, <3>2, ServerSame
      <3>4. Sorted' /\ Client'
        BY <1>1, <3>1 DEF Sorted, Client, Before, FileAt, PartAt, Here, Made, KindOf, Parts
      <3> QED BY <3>3, <3>4 DEF BackupBase
    <2> QED BY <2>1, <2>2
  <1> QED BY <1>2, <1>3

Taking(k) ==
    /\ datagrams' = Without(k) /\ sending' = sending /\ files' = files
    /\ disturbed' = disturbed /\ sender_at' = sender_at

LEMMA Takes ==
    ASSUME NEW k, LoseDatagram(k) \/ ReceiveCount(k) \/ ReceiveName(k) \/ ReceiveChunk(k)
    PROVE  Taking(k) /\ (~LoseDatagram(k) => k = 1 \/ "reorder" \in disturbed)
  BY DEF Taking, LoseDatagram, ReceiveCount, ReceiveName, ReceiveChunk, Comes

LEMMA BaseByTaking ==
    ASSUME BackupBase, NEW k \in DOMAIN datagrams,
           LoseDatagram(k) \/ ReceiveCount(k) \/ ReceiveName(k) \/ ReceiveChunk(k)
    PROVE  BackupBase'
  <1>1. BackupTypeOK /\ Client /\ Server /\ Sorted /\ Taking(k)
    BY Takes DEF BackupBase
  <1>2. Sorted' /\ Client'
    BY <1>1, StaysSorted DEF Taking
  <1>3. datagrams' \in Seq(PieceSent)
    BY <1>1, WithoutFacts DEF Taking
  <1>4. datagrams[k] \in PieceSent
    BY <1>1, BackupTypes
  <1>5. /\ files' \in Scripts /\ disturbed' \in Disturbances /\ sending' \in Nat \X Nat
        /\ sender_at' \in {"count", "files", "done", "died"}
        /\ datagrams' \in Seq([kind : {"count", "name", "chunk", "end"}, of : Nat, part : Nat])
    BY <1>1, <1>3 DEF Taking, BackupTypeOK, PieceSent
  <1> DEFINE ServerOK ==
               /\ numFiles \in Nat /\ taken \in 0..numFiles
               /\ nF \in Buffer /\ fd \in Seq(Char)
               /\ \A n \in DOMAIN stored : n \in Seq(Char) /\ stored[n] \in Seq(Part)
               /\ backup_at \in {"count", "name", "chunks", "done", "died"}
  <1>6. ServerOK
    BY <1>1 DEF BackupTypeOK, Char
  <1>7. ServerOK' /\ Server'
    <2>1. CASE LoseDatagram(k)
      BY <1>1, <1>6, <2>1 DEF LoseDatagram, Server
    <2>2. CASE ReceiveCount(k)
      <3>1. /\ backup_at = "count" /\ numFiles' \in Number(datagrams[k]) /\ taken' = taken
            /\ backup_at' = (IF numFiles' = 0 THEN "done" ELSE "name")
            /\ nF' = nF /\ fd' = fd /\ stored' = stored
        BY <2>2 DEF ReceiveCount
      <3>2. numFiles' \in Nat
        <4>1. datagrams[k].part \in Nat /\ Len(files) \in Nat
          BY <1>1, <1>4, BackupTypes DEF PieceSent
        <4>2. 10 * datagrams[k].part \in Nat /\ 0..(Len(files) + 1) \subseteq Nat
          BY <4>1
        <4>3. Number(datagrams[k]) \subseteq Nat
          BY <4>1, <4>2 DEF Number
        <4> QED BY <3>1, <4>3
      <3>3. taken = 0 /\ DOMAIN stored = {}
        BY <1>1, <3>1 DEF Server
      <3>4. taken' \in 0..numFiles' /\ (numFiles' # 0 => taken' < numFiles')
        BY <3>1, <3>2, <3>3
      <3>5. ServerOK'
        BY <1>6, <3>1, <3>2, <3>4
      <3>6. Server'
        BY <3>1, <3>3, <3>4 DEF Server
      <3> QED BY <3>5, <3>6
    <2>3. CASE ReceiveName(k)
      <3>1. /\ backup_at = "name" /\ nF' = Copied(datagrams[k])
            /\ numFiles' = numFiles /\ taken' = taken
        BY <2>3 DEF ReceiveName
      <3>2. nF' \in Buffer
        <4>1. nF \in Buffer /\ datagrams[k].of \in Nat
          BY <1>4, <1>6 DEF PieceSent
        <4>2. \A p \in 1..NameLength :
                 (CASE datagrams[k].kind = "name" ->
                          IF p <= files[datagrams[k].of].length THEN datagrams[k].of ELSE nF[p]
                    [] OTHER -> Junk) \in Char
          BY <4>1 DEF Buffer, Char
        <4> QED BY <3>1, <4>2 DEF Copied, Buffer, Char
      <3>3. Named(nF') \in Seq(Char)
        BY <3>2, NamedFacts
      <3>4. CASE backup_at' = "died" /\ fd' = fd /\ stored' = stored
        BY <1>1, <1>6, <3>1, <3>2, <3>4 DEF Server
      <3>5. CASE /\ backup_at' = "chunks" /\ fd' = Named(nF')
                 /\ stored' = [n \in DOMAIN stored \cup {fd'} |->
                                 IF n = fd' THEN <<>> ELSE stored[n]]
        <4>1. fd' \in Seq(Char) /\ fd' \in DOMAIN stored' /\ <<>> \in Seq(Part)
          BY <3>3, <3>5
        <4>2. \A n \in DOMAIN stored' : n \in Seq(Char) /\ stored'[n] \in Seq(Part)
          BY <1>6, <3>5, <4>1
        <4> QED BY <1>1, <1>6, <3>1, <3>2, <3>5, <4>1, <4>2 DEF Server
      <3> QED BY <2>3, <3>4, <3>5 DEF ReceiveName
    <2>4. CASE ReceiveChunk(k)
      <3>1. /\ backup_at = "chunks" /\ numFiles' = numFiles /\ nF' = nF /\ fd' = fd
            /\ taken < numFiles /\ fd \in DOMAIN stored
        BY <1>1, <2>4 DEF ReceiveChunk, Server
      <3>2. CASE /\ taken' = taken + 1 /\ stored' = stored
                 /\ backup_at' = IF taken' = numFiles THEN "done" ELSE "name"
        <4>1. taken' \in 0..numFiles /\ (taken' # numFiles => taken' < numFiles)
          BY <1>6, <3>1, <3>2
        <4> QED BY <1>6, <3>1, <3>2, <4>1 DEF Server
      <3>3. CASE /\ taken' = taken /\ backup_at' = backup_at
                 /\ stored' = [stored EXCEPT ![fd] = Append(@,
                                 [of |-> datagrams[k].of, part |-> datagrams[k].part])]
        <4>1. [of |-> datagrams[k].of, part |-> datagrams[k].part] \in Part
          BY <1>4 DEF PieceSent, Part
        <4>2. Append(stored[fd], [of |-> datagrams[k].of, part |-> datagrams[k].part]) \in Seq(Part)
          BY <1>6, <3>1, <4>1, AppendProperties
        <4>3. DOMAIN stored' = DOMAIN stored
              /\ \A n \in DOMAIN stored' : n \in Seq(Char) /\ stored'[n] \in Seq(Part)
          BY <1>6, <3>1, <3>3, <4>2
        <4> QED BY <1>1, <1>6, <3>1, <3>3, <4>3 DEF Server
      <3> QED BY <2>4, <3>2, <3>3 DEF ReceiveChunk
    <2> QED BY <2>1, <2>2, <2>3, <2>4
  <1>8. BackupTypeOK'
    BY <1>5, <1>7 DEF BackupTypeOK, Char
  <1> QED BY <1>2, <1>7, <1>8 DEF BackupBase

LEMMA BaseInit ==
    ASSUME BackupInit
    PROVE  BackupBase
  <1>1. /\ files \in Scripts /\ disturbed \in Disturbances
        /\ sending = <<1, 0>> /\ sender_at = "count" /\ datagrams = <<>>
        /\ numFiles = 0 /\ taken = 0 /\ nF \in [1..NameLength -> {Nul, Junk}]
        /\ fd = <<>> /\ DOMAIN stored = {} /\ backup_at = "count"
    BY DEF BackupInit
  <1>2. nF \in Buffer
    BY <1>1 DEF Buffer, Nul
  <1>3. BackupTypeOK
    BY <1>1, <1>2 DEF BackupTypeOK
  <1>4. Len(files) \in Nat /\ Len(datagrams) = 0 /\ DOMAIN datagrams = {}
        /\ sending[1] = 1 /\ sending[2] = 0
    BY <1>1, <1>3, BackupTypes
  <1>5. Here = 1 /\ ~ \E j, k \in 1..1 : j < k
    BY <1>4 DEF Here
  <1>6. Sorted
    BY <1>5 DEF Sorted
  <1>7. Client
    <2>1. ASSUME 1 <= Len(files) PROVE Parts(1) \in Nat
      <3>1. 1 \in DOMAIN files
        BY <1>3, <1>4, <2>1, BackupTypes
      <3> QED BY <1>3, <3>1, BackupTypes
    <2>2. 1 <= Len(files) => 0 <= Parts(1) + 1
      BY <2>1
    <2>3. 1 \in 1..(Len(files) + 1)
      BY <1>4
    <2> QED BY <1>1, <1>4, <2>2, <2>3 DEF Client
  <1>8. Server
    BY <1>1 DEF Server
  <1> QED BY <1>3, <1>6, <1>7, <1>8 DEF BackupBase

LEMMA BaseNext ==
    ASSUME BackupBase, [BackupNext]_backup
    PROVE  BackupBase'
  <1>1. CASE SendCount \/ SendPart
    BY <1>1, BaseBySending
  <1>2. CASE \E k \in DOMAIN datagrams :
                LoseDatagram(k) \/ ReceiveCount(k) \/ ReceiveName(k) \/ ReceiveChunk(k)
    BY <1>2, BaseByTaking
  <1>3. CASE UNCHANGED backup
    <2>1. BackupTypeOK'
      BY <1>3 DEF BackupBase, BackupTypeOK, backup
    <2>2. \A f, p : Parts(f)' = Parts(f) /\ KindOf(f, p)' = KindOf(f, p)
      BY <1>3 DEF KindOf, Parts, backup
    <2>3. \A d : Made(d)' <=> Made(d)
      BY <1>3, <2>2 DEF Made, backup
    <2>4. Client'
      BY <1>3, <2>2, <2>3 DEF BackupBase, Client, backup
    <2>5. Server'
      BY <1>3 DEF BackupBase, Server, backup
    <2>6. Sorted'
      BY <1>3 DEF BackupBase, Sorted, Before, FileAt, PartAt, Here, backup
    <2> QED BY <2>1, <2>4, <2>5, <2>6 DEF BackupBase
  <1> QED BY <1>1, <1>2, <1>3 DEF BackupNext, BackupStep

-----------------------------------------------------------------------------
(* When datagrams are only lost.                                              *)

OnlyLost   == disturbed \subseteq {"lose"}
Unmixed(s) == \A j, k \in DOMAIN s : s[j].of = s[k].of /\ (j < k => s[j].part < s[k].part)

\* What is in the open file comes from the file whose turn it is, in order, and
\* the rest of that is still to come.
Growing(s) ==
    /\ \A j \in DOMAIN s : s[j].of = taken + 1
    /\ \A j, k \in DOMAIN s : j < k => s[j].part < s[k].part
    /\ \A k \in 1..Here : FileAt(k) = taken + 1 => \A j \in DOMAIN s : s[j].part < PartAt(k)

\* Nothing of the first e files is to come.  They are as many as the server is
\* through with only if it has seen the mark of each.
Clean(e) ==
    /\ e \in taken..Len(files)
    /\ backup_at # "count" => \A k \in 1..Here : FileAt(k) > e
    /\ e = taken =>
          /\ \A n \in DOMAIN stored : Unmixed(stored[n]) \/ (backup_at = "chunks" /\ n = fd)
          /\ backup_at = "chunks" =>
                (\A k \in 1..Here : FileAt(k) > taken + 1) \/ Growing(stored[fd])

LossyInv == OnlyLost /\ Plain => \E e \in Nat : Clean(e)

LEMMA PartBound ==
    ASSUME BackupTypeOK, Client, NEW i \in 1..Here, FileAt(i) \in DOMAIN files
    PROVE  PartAt(i) <= Parts(FileAt(i)) + 1
  <1>1. Len(datagrams) \in Nat /\ DOMAIN datagrams = 1..Len(datagrams)
        /\ DOMAIN files = 1..Len(files) /\ Len(files) \in Nat
        /\ Parts(FileAt(i)) \in Nat
    BY BackupTypes
  <1>2. CASE i <= Len(datagrams)
    <2>1. i \in DOMAIN datagrams /\ FileAt(i) = datagrams[i].of /\ PartAt(i) = datagrams[i].part
      BY <1>1, <1>2 DEF FileAt, PartAt
    <2>2. datagrams[i].of # 0
      BY <1>1, <2>1
    <2>3. datagrams[i].part \in 0..(Parts(datagrams[i].of) + 1)
      BY <2>1, <2>2 DEF Client, Made
    <2> QED BY <1>1, <2>1, <2>3
  <1>3. CASE ~(i <= Len(datagrams))
    <2>1. FileAt(i) = sending[1] /\ PartAt(i) = sending[2]
      BY <1>3 DEF FileAt, PartAt
    <2>2. sending[1] <= Len(files)
      BY <1>1, <2>1
    <2> QED BY <2>1, <2>2 DEF Client
  <1> QED BY <1>2, <1>3

\* What comes behind the first datagram.
LEMMA BehindFirst ==
    ASSUME BackupTypeOK, Client, Sorted, OnlyLost, 1 \in DOMAIN datagrams, Taking(1),
           NEW f, NEW p, f = datagrams[1].of, p = datagrams[1].part
    PROVE  /\ f \in Nat /\ p \in Nat /\ FileAt(1) = f /\ PartAt(1) = p /\ 1 \in 1..Here
           /\ \A j \in 1..Here' :
                /\ j + 1 \in 1..Here /\ FileAt(j)' = FileAt(j + 1) /\ PartAt(j)' = PartAt(j + 1)
                /\ FileAt(j)' \in Nat /\ PartAt(j)' \in Nat
                /\ FileAt(j)' > f \/ (FileAt(j)' = f /\ PartAt(j)' > p)
           /\ datagrams[1].kind = "end" =>
                f \in DOMAIN files /\ \A j \in 1..Here' : FileAt(j)' > f
  <1>1. Len(datagrams) \in Nat /\ DOMAIN datagrams = 1..Len(datagrams)
        /\ datagrams[1] \in PieceSent
    BY BackupTypes
  <1>2. 1 <= Len(datagrams) /\ 1 \in 1..Here
    BY <1>1 DEF Here
  <1>3. f \in Nat /\ p \in Nat /\ FileAt(1) = f /\ PartAt(1) = p
    BY <1>1, <1>2 DEF FileAt, PartAt, PieceSent
  <1>4. ASSUME NEW j \in 1..Here'
        PROVE  /\ j + 1 \in 1..Here /\ FileAt(j)' = FileAt(j + 1) /\ PartAt(j)' = PartAt(j + 1)
               /\ FileAt(j)' \in Nat /\ PartAt(j)' \in Nat
               /\ FileAt(j)' > f \/ (FileAt(j)' = f /\ PartAt(j)' > p)
    <2>1. Here' = Len(datagrams)
      BY WithoutFacts DEF Taking
    <2>2. j \in 1..Len(datagrams) /\ ~(j < 1) /\ 1 < j + 1
      BY <1>1, <2>1
    <2>3. /\ j + 1 \in 1..Here
          /\ FileAt(j)' = FileAt(IF j < 1 THEN j ELSE j + 1)
          /\ PartAt(j)' = PartAt(IF j < 1 THEN j ELSE j + 1)
      BY <2>2, WithoutFacts DEF Taking
    <2>4. FileAt(j)' = FileAt(j + 1) /\ PartAt(j)' = PartAt(j + 1)
      BY <2>2, <2>3
    <2>5. FileAt(j + 1) \in Nat /\ PartAt(j + 1) \in Nat
      BY <2>3, BackupTypes
    <2>6. Before(1, j + 1)
      BY <1>2, <2>2, <2>3 DEF Sorted, OnlyLost
    <2>7. f < FileAt(j + 1) \/ (f = FileAt(j + 1) /\ p < PartAt(j + 1))
      BY <1>3, <2>6 DEF Before
    <2> QED BY <1>3, <2>3, <2>4, <2>5, <2>7
  <1>5. ASSUME datagrams[1].kind = "end"
        PROVE  f \in DOMAIN files /\ \A j \in 1..Here' : FileAt(j)' > f
    <2>1. f \in DOMAIN files /\ p > Parts(f)
      <3>1. f \in DOMAIN files /\ KindOf(f, p) = "end"
        BY <1>5 DEF Client, Made
      <3>2. Parts(f) \in Nat
        BY <3>1, BackupTypes
      <3> QED BY <1>3, <3>1, <3>2 DEF KindOf, Parts
    <2>2. ASSUME NEW j \in 1..Here' PROVE FileAt(j)' > f
      <3>1. Parts(f) \in Nat
        BY <2>1, BackupTypes
      <3>2. FileAt(j + 1) = f => PartAt(j + 1) <= Parts(f) + 1
        BY <1>4, <2>1, PartBound
      <3> QED BY <1>3, <1>4, <2>1, <3>1, <3>2
    <2> QED BY <2>1, <2>2
  <1> QED BY <1>2, <1>3, <1>4, <1>5

LEMMA CleanSends ==
    ASSUME BackupBase, OnlyLost, NEW e \in Nat, Clean(e), SendCount \/ SendPart
    PROVE  Clean(e)'
  <1>1. BackupTypeOK /\ Client /\ Server /\ Sorted
    BY DEF BackupBase
  <1>2. CASE SendCount
    <2>1. Idle /\ files' = files /\ backup_at = "count"
      BY <1>1, <1>2, CountFacts
    <2> QED BY <2>1 DEF Clean, Idle, Unmixed
  <1>3. CASE SendPart
    <2>1. Idle /\ files' = files /\ sender_at = "files"
      BY <1>3, SendPartCases
    <2>2. CASE ~SendsPart
      <3>1. sending' = sending /\ datagrams' = datagrams
        BY <1>3, <2>2, SendPartCases
      <3> QED BY <2>1, <3>1 DEF Clean, Idle, Unmixed, Growing, FileAt, PartAt, Here
    <2>3. CASE SendsPart
      <3>1. PICK f, p : f = sending[1] /\ p = sending[2]
        OBVIOUS
      <3>2. PICK h \in Nat \ {0} : h = Here /\ Here' = h + 1
        BY <1>1, <2>3, PartKeepsOrder
      <3>3. /\ \A k \in 1..h : FileAt(k)' = FileAt(k) /\ PartAt(k)' = PartAt(k)
            /\ FileAt(h) = f /\ PartAt(h) = p /\ h \in 1..h
            /\ FileAt(h + 1)' = sending'[1] /\ PartAt(h + 1)' = sending'[2]
        <4>1. PICK g : g = Here + 1 /\ g = h + 1
          BY <3>2
        <4>2. FileAt(g)' = sending'[1] /\ PartAt(g)' = sending'[2]
          BY <1>1, <2>3, <4>1, PartKeepsOrder
        <4> QED BY <1>1, <2>3, <3>1, <3>2, <4>1, <4>2, PartKeepsOrder
      <3>4. /\ f \in Nat \ {0} /\ p \in Nat
            /\ \/ sending'[1] = f + 1 /\ sending'[2] = 0
               \/ sending'[1] = f /\ sending'[2] = p + 1
        BY <1>1, <2>3, <3>1, SendsPartFacts
      <3>5. ASSUME NEW k \in 1..(h + 1) PROVE k \in 1..h \/ k = h + 1
        BY <3>2
      <3>6. ASSUME NEW x \in Nat, \A k \in 1..h : FileAt(k) > x
            PROVE  \A k \in 1..(h + 1) : FileAt(k)' > x
        <4>1. sending'[1] > x
          <5>1. f > x
            BY <3>3, <3>6
          <5> QED BY <3>4, <3>6, <5>1
        <4> QED BY <3>3, <3>5, <3>6, <4>1
      <3>7. taken \in Nat /\ taken + 1 \in Nat
        BY <1>1 DEF BackupTypeOK
      <3>8. ASSUME Growing(stored[fd]), backup_at = "chunks", e = taken
            PROVE  Growing(stored[fd])'
        <4>1. \A k \in 1..h : FileAt(k) > taken
          BY <3>2, <3>8 DEF Clean
        <4>2. ASSUME NEW k \in 1..(h + 1), FileAt(k)' = taken + 1, NEW j \in DOMAIN stored[fd]
              PROVE  stored[fd][j].part < PartAt(k)'
          <5>1. CASE k \in 1..h
            BY <3>2, <3>3, <3>8, <4>2, <5>1 DEF Growing
          <5>2. CASE k = h + 1
            <6>1. sending'[1] = taken + 1 /\ f > taken
              BY <3>3, <4>1, <4>2, <5>2
            <6>2. f = taken + 1 /\ sending'[2] = p + 1
              BY <3>4, <3>7, <6>1
            <6>3. stored[fd][j].part < p
              BY <3>2, <3>3, <3>8, <4>2, <6>2 DEF Growing
            <6>4. stored[fd][j].part \in Nat
              <7>1. stored[fd] \in Seq(Part)
                BY <1>1, <3>8 DEF BackupTypeOK, Server
              <7>2. stored[fd][j] \in Part
                BY <4>2, <7>1
              <7> QED BY <7>2 DEF Part
            <6> QED BY <3>3, <3>4, <5>2, <6>2, <6>3, <6>4
          <5> QED BY <3>5, <5>1, <5>2
        <4> QED BY <2>1, <3>2, <3>8, <4>2 DEF Growing, Idle
      <3>9. e \in taken'..Len(files')
        BY <2>1 DEF Clean, Idle
      <3>10. backup_at' # "count" => \A k \in 1..Here' : FileAt(k)' > e
        BY <2>1, <3>2, <3>6 DEF Clean, Idle
      <3>11. ASSUME e = taken
             PROVE  /\ \A n \in DOMAIN stored' :
                          Unmixed(stored'[n]) \/ (backup_at' = "chunks" /\ n = fd')
                    /\ backup_at' = "chunks" =>
                         (\A k \in 1..Here' : FileAt(k)' > taken' + 1) \/ Growing(stored[fd])'
        <4>1. \A n \in DOMAIN stored' :
                 Unmixed(stored'[n]) \/ (backup_at' = "chunks" /\ n = fd')
          BY <2>1, <3>11 DEF Clean, Idle
        <4>2. ASSUME backup_at = "chunks", \A k \in 1..Here : FileAt(k) > taken + 1
              PROVE  \A k \in 1..Here' : FileAt(k)' > taken' + 1
          BY <2>1, <3>2, <3>6, <3>7, <4>2 DEF Idle
        <4> QED BY <2>1, <3>8, <3>11, <4>1, <4>2 DEF Clean, Idle
      <3>12. taken' = taken
        BY <2>1 DEF Idle
      <3> QED BY <3>9, <3>10, <3>11, <3>12 DEF Clean, Unmixed
    <2> QED BY <2>2, <2>3
  <1> QED BY <1>2, <1>3

LEMMA CleanLoses ==
    ASSUME BackupBase, NEW k \in DOMAIN datagrams, LoseDatagram(k), NEW e \in Nat, Clean(e)
    PROVE  Clean(e)'
  <1>1. BackupTypeOK /\ Client /\ Server /\ Sorted /\ Taking(k)
    BY Takes DEF BackupBase
  <1>2. Idle /\ files' = files
    BY DEF LoseDatagram, Idle
  <1> DEFINE at(j) == IF j < k THEN j ELSE j + 1
  <1>3. ASSUME NEW j \in 1..Here'
        PROVE  at(j) \in 1..Here /\ FileAt(j)' = FileAt(at(j)) /\ PartAt(j)' = PartAt(at(j))
    <2>1. Here' = Len(datagrams) /\ Len(datagrams) \in Nat /\ k \in 1..Len(datagrams)
      BY <1>1, WithoutFacts, BackupTypes DEF Taking
    <2>2. j + 1 \in 1..Here /\ j \in 1..Here
      BY <2>1 DEF Here
    <2> QED BY <1>1, <2>1, <2>2, WithoutFacts DEF Taking
  <1> HIDE DEF at
  <1>4. ASSUME NEW x, \A j \in 1..Here : FileAt(j) > x
        PROVE  \A j \in 1..Here' : FileAt(j)' > x
    BY <1>3, <1>4
  <1>5. ASSUME Growing(stored[fd]) PROVE Growing(stored[fd])'
    BY <1>2, <1>3, <1>5 DEF Growing, Idle
  <1>6. e \in taken'..Len(files') /\ (backup_at' # "count" => \A j \in 1..Here' : FileAt(j)' > e)
    BY <1>2, <1>4 DEF Clean, Idle
  <1>7. ASSUME e = taken
        PROVE  /\ \A n \in DOMAIN stored' :
                     Unmixed(stored'[n]) \/ (backup_at' = "chunks" /\ n = fd')
               /\ backup_at' = "chunks" =>
                    (\A j \in 1..Here' : FileAt(j)' > taken' + 1) \/ Growing(stored[fd])'
    <2>1. \A n \in DOMAIN stored' :
             Unmixed(stored'[n]) \/ (backup_at' = "chunks" /\ n = fd')
      BY <1>2, <1>7 DEF Clean, Idle
    <2>2. ASSUME \A j \in 1..Here : FileAt(j) > taken + 1
          PROVE  \A j \in 1..Here' : FileAt(j)' > taken' + 1
      BY <1>2, <1>4, <2>2 DEF Idle
    <2> QED BY <1>2, <1>5, <1>7, <2>1, <2>2 DEF Clean, Idle
  <1>8. taken' = taken
    BY <1>2 DEF Idle
  <1> QED BY <1>6, <1>7, <1>8 DEF Clean, Unmixed

LEMMA CleanCounts ==
    ASSUME BackupBase, OnlyLost, NEW k \in DOMAIN datagrams, ReceiveCount(k), NEW e \in Nat, Clean(e)
    PROVE  \E x \in Nat : Clean(x)'
  <1>1. BackupTypeOK /\ Client /\ Server /\ Sorted /\ Taking(k) /\ k = 1
    BY Takes DEF BackupBase, OnlyLost, LoseDatagram, ReceiveCount, Comes
  <1>2. /\ backup_at = "count" /\ taken' = taken /\ stored' = stored /\ files' = files
        /\ backup_at' \in {"done", "name"}
    BY DEF ReceiveCount
  <1>3. taken = 0 /\ DOMAIN stored = {} /\ Len(files) \in Nat
    BY <1>1, <1>2, BackupTypes DEF Server
  <1>4. PICK f, p : f = datagrams[1].of /\ p = datagrams[1].part
    OBVIOUS
  <1>5. ASSUME NEW j \in 1..Here' PROVE FileAt(j)' > 0
    <2>1. /\ f \in Nat /\ p \in Nat /\ j + 1 \in 1..Here
          /\ FileAt(j)' = FileAt(j + 1) /\ PartAt(j)' = PartAt(j + 1)
          /\ FileAt(j)' \in Nat /\ PartAt(j)' \in Nat
          /\ FileAt(j)' > f \/ (FileAt(j)' = f /\ PartAt(j)' > p)
      BY <1>1, <1>4, BehindFirst
    <2>2. ASSUME FileAt(j + 1) = 0 PROVE FALSE
      <3>1. Len(datagrams) \in Nat /\ DOMAIN datagrams = 1..Len(datagrams)
            /\ DOMAIN files = 1..Len(files)
        BY <1>1, BackupTypes
      <3>2. j + 1 <= Len(datagrams)
        <4>1. sending[1] # 0
          BY <1>1, <1>3 DEF Client
        <4> QED BY <2>2, <4>1 DEF FileAt
      <3>3. j + 1 \in DOMAIN datagrams
        BY <2>1, <3>1, <3>2
      <3>4. datagrams[j + 1].of = 0 /\ PartAt(j + 1) = datagrams[j + 1].part
        BY <2>2, <3>2 DEF FileAt, PartAt
      <3>5. Made(datagrams[j + 1]) /\ Made(datagrams[1])
        BY <1>1, <3>3 DEF Client
      <3>6. f = 0 /\ PartAt(j + 1) > p
        BY <2>1, <2>2
      <3>7. p = Len(files) /\ PartAt(j + 1) = Len(files)
        BY <1>4, <3>1, <3>4, <3>5, <3>6 DEF Made
      <3> QED BY <1>3, <3>6, <3>7
    <2> QED BY <2>1, <2>2
  <1>6. Clean(0)'
    <2>1. 0 \in taken'..Len(files')
      BY <1>2, <1>3
    <2>2. DOMAIN stored' = {} /\ backup_at' # "chunks"
      BY <1>2, <1>3
    <2> QED BY <1>5, <2>1, <2>2 DEF Clean
  <1> QED BY <1>6

LEMMA CleanNames ==
    ASSUME BackupBase, OnlyLost, NEW k \in DOMAIN datagrams, ReceiveName(k), NEW e \in Nat, Clean(e)
    PROVE  Clean(e)'
  <1>1. BackupTypeOK /\ Client /\ Server /\ Sorted /\ Taking(k) /\ k = 1
    BY Takes DEF BackupBase, OnlyLost, LoseDatagram, ReceiveName, Comes
  <1>2. backup_at = "name" /\ taken' = taken /\ files' = files
    BY DEF ReceiveName
  <1>3. PICK f, p : f = datagrams[1].of /\ p = datagrams[1].part
    OBVIOUS
  <1>4. \A j \in 1..Here' : j + 1 \in 1..Here /\ FileAt(j)' = FileAt(j + 1)
    BY <1>1, <1>3, BehindFirst
  <1>5. e \in taken'..Len(files') /\ \A j \in 1..Here' : FileAt(j)' > e
    BY <1>2, <1>4 DEF Clean
  <1>6. ASSUME e = taken
        PROVE  /\ \A n \in DOMAIN stored' :
                     Unmixed(stored'[n]) \/ (backup_at' = "chunks" /\ n = fd')
               /\ backup_at' = "chunks" => Growing(stored[fd])'
    <2>1. \A n \in DOMAIN stored : Unmixed(stored[n])
      BY <1>2, <1>6 DEF Clean
    <2>2. CASE backup_at' = "died" /\ stored' = stored
      BY <2>1, <2>2
    <2>3. CASE /\ backup_at' = "chunks"
               /\ stored' = [n \in DOMAIN stored \cup {fd'} |->
                               IF n = fd' THEN <<>> ELSE stored[n]]
      <3>1. stored'[fd'] = <<>> /\ \A n \in DOMAIN stored' : n = fd' \/ stored'[n] = stored[n]
        BY <2>3
      <3>2. DOMAIN stored'[fd'] = {}
        BY <3>1
      <3>3. Growing(stored[fd])'
        BY <3>2 DEF Growing
      <3>4. \A n \in DOMAIN stored' : n = fd' \/ Unmixed(stored'[n])
        BY <2>1, <2>3, <3>1
      <3> QED BY <2>3, <3>3, <3>4
    <2> QED BY <2>2, <2>3 DEF ReceiveName
  <1> QED BY <1>2, <1>5, <1>6 DEF Clean, Unmixed

LEMMA CleanChunks ==
    ASSUME BackupBase, OnlyLost, Plain, NEW k \in DOMAIN datagrams, ReceiveChunk(k),
           NEW e \in Nat, Clean(e)
    PROVE  \E x \in Nat : Clean(x)'
  <1>1. BackupTypeOK /\ Client /\ Server /\ Sorted /\ Taking(k) /\ k = 1
    BY Takes DEF BackupBase, OnlyLost, LoseDatagram, ReceiveChunk, Comes
  <1>2. backup_at = "chunks" /\ files' = files /\ fd' = fd /\ 1 \in DOMAIN datagrams
    BY <1>1 DEF ReceiveChunk
  <1>3. PICK f, p : f = datagrams[1].of /\ p = datagrams[1].part
    OBVIOUS
  <1>4. /\ f \in Nat /\ p \in Nat /\ FileAt(1) = f /\ PartAt(1) = p /\ 1 \in 1..Here
        /\ \A j \in 1..Here' :
              /\ j + 1 \in 1..Here /\ FileAt(j)' = FileAt(j + 1) /\ PartAt(j)' = PartAt(j + 1)
              /\ FileAt(j)' \in Nat /\ PartAt(j)' \in Nat
              /\ FileAt(j)' > f \/ (FileAt(j)' = f /\ PartAt(j)' > p)
        /\ datagrams[1].kind = "end" =>
              f \in DOMAIN files /\ \A j \in 1..Here' : FileAt(j)' > f
    BY <1>1, <1>2, <1>3, BehindFirst
  <1>5. /\ e \in taken..Len(files) /\ f > e /\ taken \in Nat /\ Len(files) \in Nat
        /\ DOMAIN files = 1..Len(files) /\ \A j \in 1..Here : FileAt(j) > e
        /\ fd \in DOMAIN stored /\ stored[fd] \in Seq(Part)
    <2>1. e \in taken..Len(files) /\ \A j \in 1..Here : FileAt(j) > e
      BY <1>2 DEF Clean
    <2>2. f > e
      BY <1>4, <2>1
    <2>3. Len(files) \in Nat /\ DOMAIN files = 1..Len(files)
      BY <1>1, BackupTypes
    <2>4. fd \in DOMAIN stored
      BY <1>1, <1>2 DEF Server
    <2>5. stored[fd] \in Seq(Part)
      BY <1>1, <2>4 DEF BackupTypeOK
    <2>6. taken \in Nat
      BY <1>1 DEF BackupTypeOK
    <2> QED BY <2>1, <2>2, <2>3, <2>4, <2>5, <2>6
  <1>6. CASE EndsFile(datagrams[1])
    <2>1. taken' = taken + 1 /\ stored' = stored /\ backup_at' \in {"done", "name"}
      BY <1>1, <1>6 DEF ReceiveChunk
    <2>2. datagrams[1].kind = "end"
      <3>1. CASE datagrams[1].kind = "chunk"
        <4>1. f \in DOMAIN files /\ p \in 0..(Parts(f) + 1) /\ KindOf(f, p) = "chunk"
          BY <1>1, <1>2, <1>3, <3>1 DEF Client, Made
        <4>2. Parts(f) \in Nat /\ files[f].marked \in Seq(BOOLEAN)
          BY <1>1, <4>1, BackupTypes
        <4>3. p \in 1..Parts(f)
          BY <1>4, <4>1, <4>2 DEF KindOf, Parts
        <4>4. p \in DOMAIN files[f].marked
          BY <4>2, <4>3, LenProperties DEF Parts
        <4> QED BY <1>3, <1>6, <3>1, <4>1, <4>4 DEF EndsFile, Plain
      <3> QED BY <1>6, <3>1 DEF EndsFile
    <2>3. f \in taken'..Len(files') /\ \A j \in 1..Here' : FileAt(j)' > f
      BY <1>2, <1>4, <1>5, <2>1, <2>2
    <2>4. ASSUME f = taken' PROVE \A n \in DOMAIN stored' : Unmixed(stored'[n])
      <3>1. e = taken /\ f = taken + 1
        BY <1>5, <2>1, <2>4
      <3>2. Growing(stored[fd])
        <4>1. ~ \A j \in 1..Here : FileAt(j) > taken + 1
          BY <1>4, <1>5, <3>1
        <4> QED BY <1>2, <3>1, <4>1 DEF Clean
      <3>3. Unmixed(stored[fd])
        BY <3>2 DEF Growing, Unmixed
      <3> QED BY <2>1, <3>1, <3>3 DEF Clean
    <2>5. Clean(f)'
      BY <2>1, <2>3, <2>4 DEF Clean, Unmixed
    <2> QED BY <1>4, <2>5
  <1>7. CASE ~EndsFile(datagrams[1])
    <2> DEFINE new == [of |-> f, part |-> p]
               s == stored[fd]
    <2>1. taken' = taken /\ backup_at' = backup_at /\ stored' = [stored EXCEPT ![fd] = Append(s, new)]
      BY <1>1, <1>3, <1>7 DEF ReceiveChunk
    <2>2. e \in taken'..Len(files') /\ \A j \in 1..Here' : FileAt(j)' > e
      BY <1>2, <1>4, <1>5, <2>1
    <2>3. ASSUME NEW n \in DOMAIN stored', n # fd, e = taken PROVE Unmixed(stored'[n])
      BY <2>1, <2>3 DEF Clean
    <2>4. ASSUME e = taken
          PROVE  (\A j \in 1..Here' : FileAt(j)' > taken' + 1) \/ Growing(stored[fd])'
      <3>1. CASE \A j \in 1..Here : FileAt(j) > taken + 1
        BY <1>4, <2>1, <3>1
      <3>2. CASE f > taken + 1
        BY SMTT(20), <1>4, <1>5, <2>1, <3>2
      <3>3. CASE f = taken + 1 /\ Growing(s)
        <4>1. new \in Part /\ new.of = f /\ new.part = p
          BY <1>4 DEF Part
        <4> HIDE DEF new
        <4>2. PICK m \in Nat : m = Len(s) /\ DOMAIN s = 1..m
          BY <1>5
        <4>3. /\ stored'[fd'] = Append(s, new)
              /\ DOMAIN stored'[fd'] = 1..(m + 1) /\ stored'[fd'][m + 1] = new
              /\ \A j \in 1..m : stored'[fd'][j] = s[j]
          <5>1. stored'[fd'] = Append(s, new)
            BY <1>2, <1>5, <2>1
          <5> QED BY <1>5, <4>1, <4>2, <5>1, AppendProperties, LenProperties
        <4>4. \A j \in 1..(m + 1) : j \in 1..m \/ j = m + 1
          BY <4>2
        <4>5. \A j \in 1..m : s[j].part < p /\ s[j].of = f /\ s[j].part \in Nat
          <5>1. \A j \in 1..m : s[j] \in Part
            BY <1>5, <4>2
          <5> QED BY <1>4, <3>3, <4>2, <5>1 DEF Growing, Part
        <4>6. \A j \in 1..(m + 1) : stored'[fd'][j].of = taken' + 1
          BY <2>1, <3>3, <4>1, <4>3, <4>4, <4>5
        <4>7. ASSUME NEW i \in 1..(m + 1), NEW j \in 1..(m + 1), i < j
              PROVE  stored'[fd'][i].part < stored'[fd'][j].part
          <5>1. i \in 1..m
            BY <4>2, <4>7
          <5>2. CASE j \in 1..m
            BY <3>3, <4>2, <4>3, <4>7, <5>1, <5>2 DEF Growing
          <5>3. CASE j = m + 1
            BY <4>1, <4>3, <4>5, <5>1, <5>3
          <5> QED BY <4>4, <5>2, <5>3
        <4>8. ASSUME NEW i \in 1..Here', FileAt(i)' = taken' + 1, NEW j \in 1..(m + 1)
              PROVE  stored'[fd'][j].part < PartAt(i)'
          <5>1. PartAt(i)' > p /\ PartAt(i)' \in Nat
            BY <1>4, <2>1, <3>3, <4>8
          <5>2. CASE j \in 1..m
            <6>1. stored'[fd'][j].part < p /\ stored'[fd'][j].part \in Nat /\ p \in Nat
              BY ONLY <1>4, <4>3, <4>5, <5>2
            <6> QED BY ONLY <5>1, <6>1
          <5>3. CASE j = m + 1
            <6>1. stored'[fd'][j].part = p /\ p \in Nat
              BY ONLY <1>4, <4>1, <4>3, <5>3
            <6> QED BY ONLY <5>1, <6>1
          <5> QED BY <4>4, <5>2, <5>3
        <4> QED BY <4>3, <4>6, <4>7, <4>8 DEF Growing
      <3>4. (\A j \in 1..Here : FileAt(j) > taken + 1) \/ Growing(s)
        BY <1>2, <2>4 DEF Clean
      <3>5. f > taken + 1 \/ f = taken + 1
        <4>1. f > taken /\ f \in Nat /\ taken \in Nat
          BY <1>4, <1>5, <2>4
        <4> QED BY ONLY <4>1
      <3> HIDE DEF s, new
      <3> QED BY <3>1, <3>2, <3>3, <3>4, <3>5
    <2>5. Clean(e)'
      BY <1>2, <2>1, <2>2, <2>3, <2>4 DEF Clean, Unmixed
    <2> QED BY <2>5
  <1> QED BY <1>6, <1>7

LEMMA LossyInit ==
    ASSUME BackupInit, BackupBase
    PROVE  LossyInv
  <1>1. taken = 0 /\ DOMAIN stored = {} /\ backup_at = "count" /\ Len(files) \in Nat
    BY BackupTypes DEF BackupInit, BackupBase
  <1>2. Clean(0)
    BY <1>1 DEF Clean
  <1> QED BY <1>2 DEF LossyInv

LEMMA LossyNext ==
    ASSUME BackupBase, LossyInv, [BackupNext]_backup
    PROVE  LossyInv'
  <1>1. files' = files /\ disturbed' = disturbed
    BY DEF BackupNext, BackupStep, SendCount, SendPart, LoseDatagram, ReceiveCount, ReceiveName,
           ReceiveChunk, backup
  <1>2. SUFFICES ASSUME OnlyLost, Plain PROVE \E e \in Nat : Clean(e)'
    BY <1>1 DEF LossyInv, OnlyLost, Plain
  <1>3. PICK e \in Nat : Clean(e)
    BY <1>2 DEF LossyInv
  <1>4. CASE SendCount \/ SendPart
    BY <1>2, <1>3, <1>4, CleanSends
  <1>5. ASSUME NEW k \in DOMAIN datagrams,
               LoseDatagram(k) \/ ReceiveCount(k) \/ ReceiveName(k) \/ ReceiveChunk(k)
        PROVE  \E x \in Nat : Clean(x)'
    BY <1>2, <1>3, <1>5, CleanLoses, CleanCounts, CleanNames, CleanChunks
  <1>6. CASE UNCHANGED backup
    <2>1. Clean(e)'
      BY <1>3, <1>6 DEF Clean, Unmixed, Growing, FileAt, PartAt, Here, backup
    <2> QED BY <2>1
  <1> QED BY <1>4, <1>5, <1>6 DEF BackupNext, BackupStep

-----------------------------------------------------------------------------
(* When nothing happens to them.                                              *)

Succeeds(k) ==
    \/ /\ FileAt(k) = 0 /\ FileAt(k + 1) = 1 /\ PartAt(k + 1) = 0
    \/ /\ FileAt(k) # 0 /\ PartAt(k) = Parts(FileAt(k)) + 1
       /\ FileAt(k + 1) = FileAt(k) + 1 /\ PartAt(k + 1) = 0
    \/ /\ FileAt(k) # 0 /\ PartAt(k) <= Parts(FileAt(k))
       /\ FileAt(k + 1) = FileAt(k) /\ PartAt(k + 1) = PartAt(k) + 1
Chain == \A k \in DOMAIN datagrams : Succeeds(k)

HasName(n, f) == Len(n) >= files[f].length /\ \A p \in 1..files[f].length : n[p] = f
Holds(s, f, m) == Len(s) = m /\ \A p \in 1..m : s[p] = [of |-> f, part |-> p]

\* The next datagram is the one the server waits for.
Front ==
    /\ backup_at = "count" /\ sender_at # "count" =>
          1 \in DOMAIN datagrams /\ datagrams[1].kind = "count"
    /\ backup_at = "name" => FileAt(1) = taken + 1 /\ PartAt(1) = 0
    /\ backup_at = "chunks" =>
          /\ FileAt(1) = taken + 1 /\ PartAt(1) = Len(stored[fd]) + 1
          /\ taken + 1 \in DOMAIN files /\ HasName(fd, taken + 1)
          /\ Holds(stored[fd], taken + 1, Len(stored[fd]))

Saved(f) == \E n \in DOMAIN stored : HasName(n, f) /\ Holds(stored[n], f, Parts(f))
Copies == taken \in 0..Len(files) /\ \A f \in 1..taken : Saved(f)

Undisturbed == disturbed = {}
ExactInv == Undisturbed /\ Plain => Chain /\ Front /\ Copies

LEMMA ExactSends ==
    ASSUME BackupBase, Chain, Front, Copies, SendCount \/ SendPart
    PROVE  Chain' /\ Front' /\ Copies'
  <1>1. BackupTypeOK /\ Client /\ Server /\ Sorted
    BY DEF BackupBase
  <1>2. Idle /\ files' = files
    BY <1>1, CountFacts, SendPartCases
  <1>3. Copies'
    <2>1. taken' = taken /\ stored' = stored
      BY <1>2 DEF Idle
    <2>2. \A n, g : HasName(n, g)' <=> HasName(n, g)
      BY <1>2 DEF HasName
    <2>3. \A g : Saved(g)' <=> Saved(g)
      BY <1>2, <2>1, <2>2 DEF Saved, Holds, Parts
    <2> QED BY <1>2, <2>1, <2>3 DEF Copies
  <1>4. CASE SendCount
    <2>1. /\ DOMAIN datagrams' = {1} /\ datagrams'[1] = Dgram("count", 0, Len(files))
          /\ FileAt(1)' = 0 /\ FileAt(2)' = 1 /\ PartAt(2)' = 0 /\ backup_at = "count"
      BY <1>1, <1>4, CountFacts
    <2>2. Chain'
      <3>1. 1 + 1 = 2
        OBVIOUS
      <3>2. Succeeds(1)'
        BY <2>1, <3>1 DEF Succeeds
      <3> QED BY <2>1, <3>2 DEF Chain
    <2>3. Front'
      <3>1. datagrams'[1].kind = "count" /\ backup_at' = "count"
        BY <1>2, <2>1 DEF Dgram, Idle
      <3> QED BY <2>1, <3>1 DEF Front
    <2> QED BY <1>3, <2>2, <2>3
  <1>5. CASE SendPart /\ ~SendsPart
    <2>1. sending' = sending /\ datagrams' = datagrams /\ sender_at = "files"
      BY <1>5, SendPartCases
    <2> QED BY <1>2, <1>3, <2>1 DEF Chain, Front, Succeeds, FileAt, PartAt, Parts, HasName, Holds, Idle
  <1>6. CASE SendPart /\ SendsPart
    <2>1. PICK f, p : f = sending[1] /\ p = sending[2]
      OBVIOUS
    <2>2. PICK h \in Nat \ {0} : h = Here
      BY <1>1, <1>6, PartKeepsOrder
    <2>3. /\ \A k \in 1..h : FileAt(k)' = FileAt(k) /\ PartAt(k)' = PartAt(k)
          /\ FileAt(h) = f /\ PartAt(h) = p
          /\ \A k : k = h + 1 => FileAt(k)' = sending'[1] /\ PartAt(k)' = sending'[2]
          /\ \A k \in DOMAIN datagrams : datagrams'[k] = datagrams[k]
          /\ DOMAIN datagrams' = 1..h
      BY <1>1, <1>6, <2>1, <2>2, PartKeepsOrder
    <2>4. /\ f \in Nat \ {0}
          /\ \/ p = Parts(f) + 1 /\ sending'[1] = f + 1 /\ sending'[2] = 0
             \/ p <= Parts(f) /\ sending'[1] = f /\ sending'[2] = p + 1
          /\ sender_at' = "files" /\ sender_at = "files"
      BY <1>1, <1>6, <2>1, SendsPartFacts DEF SendsPart
    <2>5. DOMAIN datagrams = 1..(h - 1) /\ h \in 1..h /\ 1 \in 1..h
      BY <1>1, <2>2, BackupTypes DEF Here
    <2>6. \A x : Parts(x)' = Parts(x)
      BY <1>2 DEF Parts
    <2>7. ASSUME NEW k \in 1..h PROVE Succeeds(k)'
      <3>1. FileAt(k)' = FileAt(k) /\ PartAt(k)' = PartAt(k)
        BY <2>3
      <3>2. CASE k = h
        <4>1. FileAt(k + 1)' = sending'[1] /\ PartAt(k + 1)' = sending'[2]
          BY <2>3, <3>2
        <4>2. FileAt(k) = f /\ PartAt(k) = p /\ f # 0
          BY <2>3, <2>4, <3>2
        <4> QED BY <2>4, <2>6, <3>1, <4>1, <4>2 DEF Succeeds
      <3>3. CASE k # h
        <4>1. k \in DOMAIN datagrams /\ k + 1 \in 1..h
          BY <2>2, <2>5, <3>3
        <4>2. FileAt(k + 1)' = FileAt(k + 1) /\ PartAt(k + 1)' = PartAt(k + 1)
          BY <2>3, <4>1
        <4>3. Succeeds(k)
          BY <4>1 DEF Chain
        <4> QED BY <2>6, <3>1, <4>2, <4>3 DEF Succeeds
      <3> QED BY <3>2, <3>3
    <2>8. Chain'
      BY <2>3, <2>7 DEF Chain
    <2>9. FileAt(1)' = FileAt(1) /\ PartAt(1)' = PartAt(1)
      BY <2>3, <2>5
    <2>10. Front'
      <3>1. backup_at' = "count" => 1 \in DOMAIN datagrams' /\ datagrams'[1].kind = "count"
        BY <1>2, <2>3, <2>4, <2>5 DEF Front, Idle
      <3> QED BY <1>2, <2>9, <3>1 DEF Front, HasName, Holds, Idle
    <2> QED BY <1>3, <2>8, <2>10
  <1> QED BY <1>4, <1>5, <1>6

LEMMA ChainTaken ==
    ASSUME BackupBase, Undisturbed, Chain, 1 \in DOMAIN datagrams, Taking(1),
           NEW f, NEW p, f = datagrams[1].of, p = datagrams[1].part
    PROVE  /\ Chain' /\ f \in Nat /\ p \in Nat /\ FileAt(1) = f /\ PartAt(1) = p
           /\ \/ f = 0 /\ FileAt(1)' = 1 /\ PartAt(1)' = 0
              \/ f # 0 /\ p = Parts(f) + 1 /\ FileAt(1)' = f + 1 /\ PartAt(1)' = 0
              \/ f # 0 /\ p <= Parts(f) /\ FileAt(1)' = f /\ PartAt(1)' = p + 1
  <1>1. BackupTypeOK /\ Client /\ Server /\ Sorted /\ OnlyLost
    BY DEF BackupBase, Undisturbed, OnlyLost
  <1>2. PICK n \in Nat \ {0} : /\ n = Len(datagrams) /\ DOMAIN datagrams = 1..n
                               /\ DOMAIN datagrams' = 1..(n - 1) /\ Here' = n
    <2>1. Len(datagrams) \in Nat /\ DOMAIN datagrams = 1..Len(datagrams)
      BY <1>1, BackupTypes
    <2>2. DOMAIN datagrams' = 1..(Len(datagrams) - 1) /\ Here' = Len(datagrams)
      BY <1>1, WithoutFacts DEF Taking
    <2>3. Len(datagrams) \in Nat \ {0}
      BY <2>1
    <2> QED BY <2>1, <2>2, <2>3
  <1>3. /\ f \in Nat /\ p \in Nat /\ FileAt(1) = f /\ PartAt(1) = p
        /\ \A j \in 1..n : FileAt(j)' = FileAt(j + 1) /\ PartAt(j)' = PartAt(j + 1)
    BY <1>1, <1>2, BehindFirst
  <1>4. \A x : Parts(x)' = Parts(x)
    BY DEF Parts, Taking
  <1>5. ASSUME NEW k \in 1..(n - 1) PROVE Succeeds(k)'
    <2>1. k \in 1..n /\ k + 1 \in 1..n
      BY <1>2
    <2>2. Succeeds(k + 1)
      BY <1>2, <2>1 DEF Chain
    <2>3. FileAt(k)' = FileAt(k + 1) /\ PartAt(k)' = PartAt(k + 1)
          /\ FileAt(k + 1)' = FileAt(k + 1 + 1) /\ PartAt(k + 1)' = PartAt(k + 1 + 1)
      BY <1>3, <2>1
    <2> QED BY <1>4, <2>2, <2>3 DEF Succeeds
  <1>6. Succeeds(1)
    BY DEF Chain
  <1>7. 1 \in 1..n
    BY <1>2
  <1>8. FileAt(1)' = FileAt(1 + 1) /\ PartAt(1)' = PartAt(1 + 1)
    BY <1>3, <1>7
  <1> QED BY <1>2, <1>3, <1>5, <1>6, <1>8 DEF Chain, Succeeds

\* Two files have not one name.
LEMMA NamesDiffer ==
    ASSUME BackupTypeOK, NEW f \in DOMAIN files, NEW g \in DOMAIN files, f # g,
           NEW m, NEW n, HasName(m, f), HasName(n, g)
    PROVE  m # n
  <1>1. 1 \in 1..files[f].length /\ 1 \in 1..files[g].length
    BY BackupTypes
  <1>2. m[1] = f /\ n[1] = g
    BY <1>1 DEF HasName
  <1> QED BY <1>2

LEMMA ExactReceives ==
    ASSUME BackupBase, Undisturbed, Plain, Chain, Front, Copies, NEW k \in DOMAIN datagrams,
           ReceiveCount(k) \/ ReceiveName(k) \/ ReceiveChunk(k)
    PROVE  Chain' /\ Front' /\ Copies'
  <1>1. BackupTypeOK /\ Client /\ Server /\ Sorted /\ OnlyLost /\ Taking(k) /\ k = 1
    BY Takes DEF BackupBase, Undisturbed, OnlyLost, ReceiveCount, ReceiveName, ReceiveChunk, Comes
  <1>2. PICK f, p : f = datagrams[1].of /\ p = datagrams[1].part
    OBVIOUS
  <1>3. /\ Chain' /\ f \in Nat /\ p \in Nat /\ FileAt(1) = f /\ PartAt(1) = p
        /\ \/ f = 0 /\ FileAt(1)' = 1 /\ PartAt(1)' = 0
           \/ f # 0 /\ p = Parts(f) + 1 /\ FileAt(1)' = f + 1 /\ PartAt(1)' = 0
           \/ f # 0 /\ p <= Parts(f) /\ FileAt(1)' = f /\ PartAt(1)' = p + 1
    BY <1>1, <1>2, ChainTaken
  <1>4. files' = files /\ 1 \in DOMAIN datagrams /\ taken \in Nat
    BY <1>1 DEF Taking, BackupTypeOK
  <1>5. f # 0 => /\ f \in DOMAIN files /\ p \in 0..(Parts(f) + 1)
                 /\ datagrams[1].kind = KindOf(f, p) /\ Parts(f) \in Nat
    <2>1. Made(datagrams[1])
      BY <1>1, <1>4 DEF Client
    <2> QED BY <1>1, <1>2, <2>1, BackupTypes DEF Made
  <1>6. /\ DOMAIN files = 1..Len(files) /\ Len(files) \in Nat
        /\ \A g \in DOMAIN files : files[g].length \in 1..NameLength /\ Parts(g) \in Nat
    BY <1>1, BackupTypes
  <1>7. CASE ReceiveCount(k)
    <2>1. /\ backup_at = "count" /\ taken' = taken /\ stored' = stored
          /\ backup_at' \in {"done", "name"}
      BY <1>7 DEF ReceiveCount
    <2>2. sender_at # "count" /\ taken = 0
      BY <1>1, <2>1, StaysSorted DEF Server, Taking
    <2>3. f = 0
      <3>1. datagrams[1].kind = "count"
        BY <2>1, <2>2 DEF Front
      <3> QED BY <1>1, <1>2, <1>5, <3>1 DEF KindOf
    <2>4. Front'
      BY <1>3, <2>1, <2>2, <2>3 DEF Front
    <2>5. Copies'
      BY <1>4, <2>1 DEF Copies, Saved, HasName, Holds, Parts
    <2> QED BY <1>3, <2>4, <2>5
  <1>8. CASE ReceiveName(k)
    <2>1. backup_at = "name" /\ taken' = taken /\ nF' = Copied(datagrams[1])
      BY <1>1, <1>8 DEF ReceiveName
    <2>2. f = taken + 1 /\ p = 0 /\ f # 0
      BY <1>3, <1>4, <2>1 DEF Front
    <2>3. /\ f \in DOMAIN files /\ datagrams[1].kind = "name" /\ files[f].length \in 1..NameLength
          /\ Parts(f) \in Nat
      BY <1>5, <1>6, <2>2 DEF KindOf
    <2>4. /\ backup_at' = "chunks" /\ fd' = Named(nF')
          /\ stored' = [n \in DOMAIN stored \cup {fd'} |-> IF n = fd' THEN <<>> ELSE stored[n]]
      BY <1>1, <1>8, <2>3 DEF ReceiveName
    <2>5. HasName(fd', f)
      <3>1. nF' \in Buffer
        <4>1. BackupTypeOK'
          BY <1>8, BaseByTaking DEF BackupBase
        <4> QED BY <4>1 DEF BackupTypeOK
      <3>2. \A q \in 1..files[f].length : nF'[q] = f
        <4>1. \A q \in 1..files[f].length : q \in 1..NameLength /\ q <= files[f].length
          BY <2>3, BackupAssumption
        <4> QED BY <1>2, <2>1, <2>3, <4>1 DEF Copied
      <3>3. files[f].length \in 0..NameLength
        BY <2>3
      <3>4. \A q \in 1..files[f].length : nF'[q] # Nul
        BY <2>2, <3>2 DEF Nul
      <3>5. /\ Len(Named(nF')) >= files[f].length
            /\ \A q \in 1..files[f].length : Named(nF')[q] = nF'[q]
        BY <3>1, <3>3, <3>4, NamedFacts
      <3> QED BY <2>4, <3>2, <3>5 DEF HasName
    <2>6. FileAt(1)' = f /\ PartAt(1)' = 1
      BY <1>3, <2>2, <2>3
    <2>7. stored'[fd'] = <<>>
      BY <2>4
    <2>8. Front'
      <3>1. HasName(fd, taken + 1)'
        BY <1>4, <2>1, <2>2, <2>5 DEF HasName
      <3>2. Len(stored'[fd']) = 0
        BY <2>7
      <3>3. PICK s : s = stored'[fd'] /\ Len(s) = 0
        BY <3>2
      <3>4. Holds(s, taken' + 1, Len(s))
        BY <3>3 DEF Holds
      <3>5. Holds(stored[fd], taken + 1, Len(stored[fd]))'
        BY <3>3, <3>4 DEF Holds
      <3>6. PartAt(1)' = Len(stored'[fd']) + 1 /\ FileAt(1)' = taken' + 1
            /\ taken' + 1 \in DOMAIN files'
        BY <1>4, <2>1, <2>2, <2>3, <2>6, <3>2
      <3> QED BY <2>4, <3>1, <3>5, <3>6 DEF Front
    <2>9. Copies'
      <3>1. ASSUME NEW g \in 1..taken PROVE Saved(g)'
        <4>1. PICK n \in DOMAIN stored : HasName(n, g) /\ Holds(stored[n], g, Parts(g))
          BY <3>1 DEF Copies, Saved
        <4>2. g \in DOMAIN files /\ g # f
          BY <1>4, <1>6, <2>2, <3>1 DEF Copies
        <4>3. n # fd'
          BY <1>1, <2>3, <2>5, <4>1, <4>2, NamesDiffer
        <4>4. n \in DOMAIN stored' /\ stored'[n] = stored[n]
          BY <2>4, <4>3
        <4> QED BY <1>4, <4>1, <4>4 DEF Saved, HasName, Holds, Parts
      <3> QED BY <1>4, <2>1, <3>1 DEF Copies
    <2> QED BY <1>3, <2>8, <2>9
  <1>9. CASE ReceiveChunk(k)
    <2>1. backup_at = "chunks" /\ fd' = fd /\ fd \in DOMAIN stored /\ stored[fd] \in Seq(Part)
      BY <1>1, <1>9 DEF ReceiveChunk, Server, BackupTypeOK
    <2>2. PICK m \in Nat : m = Len(stored[fd]) /\ DOMAIN stored[fd] = 1..m
      BY <2>1, LenProperties
    <2>3. /\ f = taken + 1 /\ p = m + 1 /\ f # 0 /\ HasName(fd, f) /\ Holds(stored[fd], f, m)
          /\ f \in DOMAIN files
      BY <1>3, <1>4, <2>1, <2>2 DEF Front
    <2>4. Parts(f) \in Nat /\ p \in 1..(Parts(f) + 1) /\ datagrams[1].kind = KindOf(f, p)
      BY <1>5, <2>2, <2>3
    <2>5. ASSUME NEW g \in 1..taken, NEW s, stored' = [stored EXCEPT ![fd] = s] \/ stored' = stored
          PROVE  Saved(g)'
      <3>1. PICK n \in DOMAIN stored : HasName(n, g) /\ Holds(stored[n], g, Parts(g))
        BY <2>5 DEF Copies, Saved
      <3>2. g \in DOMAIN files /\ g # f
        BY <1>4, <1>6, <2>3, <2>5 DEF Copies
      <3>3. n # fd
        BY <1>1, <2>3, <3>1, <3>2, NamesDiffer
      <3>4. n \in DOMAIN stored' /\ stored'[n] = stored[n]
        BY <2>5, <3>3
      <3> QED BY <1>4, <3>1, <3>4 DEF Saved, HasName, Holds, Parts
    <2>6. CASE p = Parts(f) + 1
      <3>1. datagrams[1].kind = "end"
        BY <2>3, <2>4, <2>6 DEF KindOf, Parts
      <3>2. taken' = taken + 1 /\ backup_at' \in {"done", "name"} /\ stored' = stored
        BY <1>1, <1>9, <3>1 DEF ReceiveChunk, EndsFile
      <3>3. FileAt(1)' = taken' + 1 /\ PartAt(1)' = 0
        BY <1>3, <2>3, <2>4, <2>6, <3>2
      <3>4. Saved(f)'
        <4>1. m = Parts(f)
          BY <2>2, <2>3, <2>4, <2>6
        <4>2. HasName(fd, f) /\ Holds(stored[fd], f, Parts(f))
          BY <2>3, <4>1
        <4> QED BY <1>4, <2>1, <3>2, <4>2 DEF Saved, HasName, Holds, Parts
      <3>5. Copies'
        <4>1. \A g \in 1..taken' : g \in 1..taken \/ g = f
          BY <1>4, <2>3, <3>2
        <4>2. taken' \in 0..Len(files')
          BY <1>4, <1>6, <2>3, <3>2
        <4> QED BY <2>5, <3>2, <3>4, <4>1, <4>2 DEF Copies
      <3> QED BY <1>3, <3>2, <3>3, <3>5 DEF Front
    <2>7. CASE p # Parts(f) + 1
      <3>1. p \in 1..Parts(f) /\ p <= Parts(f) /\ p # 0
        BY <2>4, <2>7
      <3>2. datagrams[1].kind = "chunk"
        BY <2>4, <3>1 DEF KindOf, Parts
      <3>3. ~EndsFile(datagrams[1])
        <4>1. files[f].marked \in Seq(BOOLEAN)
          BY <1>1, <2>3, BackupTypes
        <4>2. p \in DOMAIN files[f].marked
          BY <3>1, <4>1, LenProperties DEF Parts
        <4> QED BY <1>2, <2>3, <3>2, <4>2 DEF EndsFile, Plain
      <3> DEFINE new == [of |-> f, part |-> p]
      <3>4. taken' = taken /\ backup_at' = "chunks"
            /\ stored' = [stored EXCEPT ![fd] = Append(stored[fd], new)]
        BY <1>1, <1>2, <1>9, <2>1, <3>3 DEF ReceiveChunk
      <3>5. new \in Part
        BY <1>3 DEF Part
      <3>6. stored'[fd'] = Append(stored[fd], new)
        BY <2>1, <3>4
      <3>7. PICK s : s = stored'[fd'] /\ s = Append(stored[fd], new)
        BY <3>6
      <3>8. Len(s) = m + 1 /\ s[m + 1] = new /\ \A j \in 1..m : s[j] = stored[fd][j]
        BY <2>1, <2>2, <3>5, <3>7, AppendProperties
      <3>9. Holds(s, f, m + 1)
        <4>1. \A j \in 1..(m + 1) : j \in 1..m \/ j = m + 1
          BY <2>2
        <4>2. \A j \in 1..m : stored[fd][j] = [of |-> f, part |-> j]
          BY <2>3 DEF Holds
        <4>3. s[m + 1] = [of |-> f, part |-> m + 1]
          BY <2>3, <3>8
        <4> QED BY <3>8, <4>1, <4>2, <4>3 DEF Holds
      <3>10. FileAt(1)' = f /\ PartAt(1)' = p + 1
        BY <1>3, <2>3, <2>4, <3>1
      <3>11. Front'
        <4>1. HasName(fd, taken + 1)'
          BY <1>4, <2>1, <2>3, <3>4 DEF HasName
        <4>2. Holds(s, taken' + 1, Len(s)) /\ PartAt(1)' = Len(s) + 1
          BY <2>3, <3>4, <3>8, <3>9, <3>10
        <4>3. Holds(stored[fd], taken + 1, Len(stored[fd]))'
          BY <3>7, <4>2 DEF Holds
        <4>4. PartAt(1)' = Len(stored'[fd']) + 1 /\ FileAt(1)' = taken' + 1
              /\ taken' + 1 \in DOMAIN files'
          BY <1>4, <2>3, <3>4, <3>7, <3>10, <4>2
        <4> QED BY <3>4, <4>1, <4>3, <4>4 DEF Front
      <3>12. Copies'
        <4>1. \A g \in 1..taken : Saved(g)'
          BY <2>5, <3>4
        <4> QED BY <1>4, <3>4, <4>1 DEF Copies
      <3> QED BY <1>3, <3>11, <3>12
    <2> QED BY <2>6, <2>7
  <1> QED BY <1>7, <1>8, <1>9

LEMMA ExactInit ==
    ASSUME BackupInit, BackupBase
    PROVE  ExactInv
  <1>1. /\ taken = 0 /\ backup_at = "count" /\ sender_at = "count" /\ DOMAIN datagrams = {}
        /\ Len(files) \in Nat
    BY BackupTypes DEF BackupInit, BackupBase
  <1>2. Chain /\ Front
    BY <1>1 DEF Chain, Front
  <1>3. Copies
    BY <1>1 DEF Copies
  <1> QED BY <1>2, <1>3 DEF ExactInv

LEMMA ExactNext ==
    ASSUME BackupBase, ExactInv, [BackupNext]_backup
    PROVE  ExactInv'
  <1>1. files' = files /\ disturbed' = disturbed
    BY DEF BackupNext, BackupStep, SendCount, SendPart, LoseDatagram, ReceiveCount, ReceiveName,
           ReceiveChunk, backup
  <1>2. SUFFICES ASSUME Undisturbed, Plain PROVE Chain' /\ Front' /\ Copies'
    BY <1>1 DEF ExactInv, Undisturbed, Plain
  <1>3. Chain /\ Front /\ Copies
    BY <1>2 DEF ExactInv
  <1>4. CASE SendCount \/ SendPart
    BY <1>3, <1>4, ExactSends
  <1>5. ASSUME NEW k \in DOMAIN datagrams, ReceiveCount(k) \/ ReceiveName(k) \/ ReceiveChunk(k)
        PROVE  Chain' /\ Front' /\ Copies'
    BY <1>2, <1>3, <1>5, ExactReceives
  <1>6. \A k \in DOMAIN datagrams : ~LoseDatagram(k)
    BY <1>2 DEF LoseDatagram, Undisturbed
  <1>7. CASE UNCHANGED backup
    <2>1. UNCHANGED <<files, sender_at, sending, datagrams, taken, fd, stored, backup_at>>
      BY <1>7 DEF backup
    <2>2. /\ \A k : FileAt(k)' = FileAt(k) /\ PartAt(k)' = PartAt(k) /\ Parts(k)' = Parts(k)
          /\ \A n, f : HasName(n, f)' <=> HasName(n, f)
      <3>1. \A k : FileAt(k)' = FileAt(k) /\ PartAt(k)' = PartAt(k)
        BY ONLY <2>1 DEF FileAt, PartAt
      <3>2. \A k : Parts(k)' = Parts(k)
        BY ONLY <2>1 DEF Parts
      <3>3. \A n, f : HasName(n, f)' <=> HasName(n, f)
        BY ONLY <2>1 DEF HasName
      <3> QED BY <3>1, <3>2, <3>3
    <2>3. Chain'
      <3>1. \A k : Succeeds(k)' <=> Succeeds(k)
        BY <2>2 DEF Succeeds
      <3> QED BY <1>3, <2>1, <3>1 DEF Chain
    <2>4. Front'
      BY <1>3, <2>1, <2>2 DEF Front, Holds
    <2>5. Copies'
      <3>1. \A f : Saved(f)' <=> Saved(f)
        BY <2>1, <2>2 DEF Saved, Holds
      <3> QED BY <1>3, <2>1, <3>1 DEF Copies
    <2> QED BY <2>3, <2>4, <2>5
  <1> QED BY <1>4, <1>5, <1>6, <1>7 DEF BackupNext, BackupStep

BackupInv == BackupBase /\ LossyInv /\ ExactInv

LEMMA CopyFromInv ==
    ASSUME BackupInv
    PROVE  BackupIsCopy
  <1>1. BackupTypeOK /\ Server /\ LossyInv /\ ExactInv
    BY DEF BackupInv, BackupBase
  <1>2. SUFFICES ASSUME Plain, backup_at = "done", numFiles = Len(files)
                 PROVE  /\ Undisturbed =>
                             \A f \in DOMAIN files :
                                \E n \in DOMAIN stored :
                                   stored[n] = Whole(f) /\ SubSeq(n, 1, files[f].length) = OwnName(f)
                        /\ OnlyLost => \A n \in DOMAIN stored : Unmixed(stored[n])
    BY DEF BackupIsCopy, Undisturbed, OnlyLost, Unmixed
  <1>3. taken = Len(files) /\ Len(files) \in Nat /\ DOMAIN files = 1..Len(files)
    BY <1>1, <1>2, BackupTypes DEF Server
  <1>4. ASSUME OnlyLost, NEW n \in DOMAIN stored PROVE Unmixed(stored[n])
    <2>1. PICK e \in Nat : Clean(e)
      BY <1>1, <1>2, <1>4 DEF LossyInv
    <2>2. e = taken
      <3>1. e \in taken..Len(files)
        BY <2>1 DEF Clean
      <3> QED BY <1>3, <3>1
    <2> QED BY <1>2, <1>4, <2>1, <2>2 DEF Clean
  <1>5. ASSUME Undisturbed, NEW f \in DOMAIN files
        PROVE  \E n \in DOMAIN stored :
                  stored[n] = Whole(f) /\ SubSeq(n, 1, files[f].length) = OwnName(f)
    <2>1. Saved(f)
      BY <1>1, <1>2, <1>3, <1>5 DEF ExactInv, Copies
    <2>2. PICK n \in DOMAIN stored : HasName(n, f) /\ Holds(stored[n], f, Parts(f))
      BY <2>1 DEF Saved
    <2>3. n \in Seq(Char) /\ stored[n] \in Seq(Part)
      BY <1>1 DEF BackupTypeOK, Char
    <2>4. Parts(f) \in Nat /\ files[f].length \in 1..NameLength
      BY <1>1, BackupTypes
    <2>5. stored[n] = Whole(f)
      <3>1. Len(stored[n]) = Parts(f)
            /\ \A q \in 1..Parts(f) : stored[n][q] = [of |-> f, part |-> q]
        BY <2>2 DEF Holds
      <3>2. stored[n] = [q \in 1..Parts(f) |-> stored[n][q]]
        BY <2>3, <3>1, LenProperties
      <3> QED BY <3>1, <3>2 DEF Whole, Parts
    <2>6. SubSeq(n, 1, files[f].length) = OwnName(f)
      <3>1. PICK l \in Nat : l = files[f].length /\ l >= 1 /\ l <= Len(n) /\ Len(n) \in Nat
        BY <2>2, <2>3, <2>4, BackupAssumption, LenProperties DEF HasName
      <3>2. \A q \in 1..l : n[q] = f /\ n[q] \in Char
        BY <2>2, <2>3, <3>1 DEF HasName
      <3>3. /\ SubSeq(n, 1, l) \in Seq(Char) /\ Len(SubSeq(n, 1, l)) = l
            /\ \A q \in 1..l : SubSeq(n, 1, l)[q] = n[q]
        <4>1. 1 \in Int /\ l \in Int
          BY <3>1
        <4>2. /\ SubSeq(n, 1, l) \in Seq(Char)
              /\ Len(SubSeq(n, 1, l)) = IF 1 <= l THEN l - 1 + 1 ELSE 0
              /\ \A q \in 1..(l - 1 + 1) : SubSeq(n, 1, l)[q] = n[1 + q - 1]
          BY <3>2, <4>1, SubSeqProperties
        <4> QED BY <3>1, <4>2
      <3>4. SubSeq(n, 1, l) = [q \in 1..l |-> SubSeq(n, 1, l)[q]]
        BY <3>3, LenProperties
      <3>5. [q \in 1..l |-> SubSeq(n, 1, l)[q]] = [q \in 1..l |-> f]
        BY <3>2, <3>3
      <3> QED BY <3>1, <3>4, <3>5 DEF OwnName
    <2> QED BY <2>5, <2>6
  <1> QED BY <1>4, <1>5

\* The types, what the client and the server are at, and the order on the way.
THEOREM BackupInvHolds == BackupSpec => []BackupInv
  <1>1. BackupInit => BackupInv
    BY BaseInit, LossyInit, ExactInit DEF BackupInv
  <1>2. BackupInv /\ [BackupNext]_backup => BackupInv'
    BY BaseNext, LossyNext, ExactNext DEF BackupInv
  <1> QED BY <1>1, <1>2, PTL DEF BackupSpec

\* If no chunk begins like the mark and the number of files was read right, every
\* file is stored whole when nothing was lost or reordered, and no two files are
\* mixed when datagrams were only lost, however many files, chunks and characters.
THEOREM BackupCopies == BackupSpec => []BackupIsCopy
  <1>1. BackupInv => BackupIsCopy
    BY CopyFromInv
  <1> QED BY <1>1, BackupInvHolds, PTL

HIDE BackupAssumption

-----------------------------------------------------------------------------
(* Lab 8: the numbers the clients go by.                                     *)

USE ChatAssumption

ChatSpec == ChatInit /\ [][ChatNext]_chat_vars

\* A connection waits to be accepted, or has a descriptor, or neither, and has been
\* sent nothing before; who is connected is in the array.
Lines ==
    /\ \A f, g \in UserFd : at_fd[f] = at_fd[g] /\ at_fd[f] # Nobody => f = g
    /\ \A j, k \in DOMAIN backlog : backlog[j] = backlog[k] => j = k
    /\ \A k \in DOMAIN backlog : /\ told[backlog[k]] = <<>>
                                 /\ \A f \in UserFd : at_fd[f] # backlog[k]
    /\ \A u \in User : line[u] = "none" =>
          /\ told[u] = <<>> /\ \A f \in UserFd : at_fd[f] # u
          /\ \A k \in DOMAIN backlog : backlog[k] # u
    /\ \A f \in UserFd : at_fd[f] # Nobody <=> f \in read_fds
    /\ \A f \in UserFd : at_fd[f] # Nobody => \E k \in DOMAIN clients : clients[k] = f

\* What select() has found is still there when its turn comes.
Found ==
    /\ sockfd \in tmp_fds => backlog # <<>>
    /\ \A f \in tmp_fds \cap UserFd : up[at_fd[f]] # <<>> \/ Ended(at_fd[f])

\* A line on its way is for whoever has its number, if that one is still there.
Meant ==
    \A u \in User : \A k \in DOMAIN up[u] :
        LET l == up[u][k]
        IN  l.dest = NoNumber \/ l.for = Nobody \/ at_fd[l.dest] = l.for \/ Ended(l.for)

\* What t says about number f: where there is something of a kind, whether the last of
\* it is that there is one, and whether the last is that it is new.
About(t, is, f) == {j \in DOMAIN t : t[j].is \in is /\ f \in t[j].fds}
Known(t, f) ==
    \E j \in About(t, {"new", "list"}, f) : \A k \in About(t, {"closed"}, f) : k < j
StillNew(t, f) ==
    \E j \in About(t, {"new"}, f) : \A k \in About(t, {"closed", "list"}, f) : k < j

\* NumbersAgree in these terms.
Agree ==
    \A f, g \in UserFd : at_fd[f] # Nobody /\ f # g =>
        /\ at_fd[g] # Nobody => Known(told[at_fd[f]], g)
        /\ StillNew(told[at_fd[f]], g) =>
              at_fd[g] # Nobody \/ (g + 1 \in DOMAIN clients /\ clients[g + 1] = f)

\* ReachesItsReader for a message m to u.
SaidRight(m, u) ==
    m.is = "text" =>
        /\ m.lines # <<>>
        /\ LET first == Head(m.lines)
           IN  \/ first.dest = NoNumber \/ first.for = u
               \/ first.for = Nobody \/ Ended(first.for)
Reached == \A u \in User : \A j \in DOMAIN told[u] : SaidRight(told[u][j], u)

\* What has been said is right in any case; the rest holds while the server runs.
ChatInv ==
    /\ ChatTypeOK /\ Reached
    /\ chat = "run" => Lines /\ Found /\ Meant /\ Agree

\* The numbers that stand for nobody and nothing are nobody's.
LEMMA ChatNumbers ==
    /\ UserFd \subseteq Nat \ {0} /\ sockfd \in Nat /\ sockfd \notin UserFd
    /\ NoNumber \notin UserFd /\ NoNumber # sockfd
    /\ User \subseteq Nat \ {0} /\ Nobody \notin User
  BY DEF UserFd, sockfd, NoNumber, User, Nobody

Told == Seq(News \cup Text)

\* What is said behind t, if it is something else, changes nothing.
LEMMA Unmentioned ==
    ASSUME NEW t \in Told, NEW s \in Told, NEW f,
           \A j \in DOMAIN s : s[j].is = "text" \/ f \notin s[j].fds
    PROVE  /\ Known(t \o s, f) <=> Known(t, f)
           /\ StillNew(t \o s, f) <=> StillNew(t, f)
  <1>1. /\ DOMAIN t = 1..Len(t) /\ DOMAIN s = 1..Len(s) /\ Len(t) \in Nat /\ Len(s) \in Nat
        /\ DOMAIN (t \o s) = 1..(Len(t) + Len(s))
        /\ \A j \in 1..Len(t) : (t \o s)[j] = t[j]
        /\ \A j \in 1..(Len(t) + Len(s)) : j > Len(t) => (t \o s)[j] = s[j - Len(t)]
    BY DEF Told
  <1>2. ASSUME NEW is, is \subseteq {"new", "list", "closed"}
        PROVE  About(t \o s, is, f) = About(t, is, f)
    <2>1. ASSUME NEW j \in 1..(Len(t) + Len(s)), j > Len(t)
          PROVE  j \notin About(t \o s, is, f)
      <3>1. j - Len(t) \in DOMAIN s /\ (t \o s)[j] = s[j - Len(t)]
        BY <1>1, <2>1
      <3>2. s[j - Len(t)].is = "text" \/ f \notin s[j - Len(t)].fds
        BY <3>1
      <3>3. "text" \notin is
        BY <1>2
      <3> QED BY <3>1, <3>2, <3>3 DEF About
    <2>2. ASSUME NEW j \in 1..Len(t)
          PROVE  j \in DOMAIN (t \o s) /\ (j \in About(t \o s, is, f) <=> j \in About(t, is, f))
      <3>1. j \in DOMAIN (t \o s) /\ j \in DOMAIN t /\ (t \o s)[j] = t[j]
        BY <1>1
      <3> QED BY <3>1 DEF About
    <2>3. About(t \o s, is, f) \subseteq 1..(Len(t) + Len(s)) /\ About(t, is, f) \subseteq 1..Len(t)
      BY <1>1 DEF About
    <2>4. \A j \in 1..(Len(t) + Len(s)) : j > Len(t) \/ j \in 1..Len(t)
      BY <1>1
    <2>5. \A x : x \in About(t \o s, is, f) <=> x \in About(t, is, f)
      BY <2>1, <2>2, <2>3, <2>4
    <2> QED BY <2>5
  <1>3. About(t \o s, {"new", "list"}, f) = About(t, {"new", "list"}, f)
    BY <1>2
  <1>4. About(t \o s, {"closed"}, f) = About(t, {"closed"}, f)
    BY <1>2
  <1>5. About(t \o s, {"new"}, f) = About(t, {"new"}, f)
    BY <1>2
  <1>6. About(t \o s, {"closed", "list"}, f) = About(t, {"closed", "list"}, f)
    BY <1>2
  <1> QED BY <1>3, <1>4, <1>5, <1>6 DEF Known, StillNew

\* The last word about a number.
LEMMA LastWord ==
    ASSUME NEW t \in Told, NEW f, Len(t) > 0, f \in t[Len(t)].fds
    PROVE  /\ t[Len(t)].is \in {"new", "list"} => Known(t, f)
           /\ t[Len(t)].is \in {"closed", "list"} => ~StillNew(t, f)
  <1> DEFINE n == Len(t)
  <1>1. n \in Nat /\ n \in DOMAIN t /\ DOMAIN t = 1..n
    BY DEF Told
  <1>2. ASSUME NEW is
        PROVE  /\ About(t, is, f) \subseteq 1..n
               /\ n \in About(t, is, f) <=> t[n].is \in is
    <2>1. f \in t[n].fds
      OBVIOUS
    <2> HIDE DEF n
    <2> QED BY <1>1, <2>1 DEF About
  <1>3. \A k \in 1..n : k # n => k < n
    <2> HIDE DEF n
    <2> QED BY <1>1
  <1>4. ASSUME t[n].is \in {"new", "list"} PROVE Known(t, f)
    <2>1. n \in About(t, {"new", "list"}, f)
      BY <1>2, <1>4
    <2>2. t[n].is \notin {"closed"}
      BY <1>4
    <2>3. \A k \in About(t, {"closed"}, f) : k < n
      BY <1>2, <1>3, <2>2
    <2> QED BY <2>1, <2>3 DEF Known
  <1>5. ASSUME t[n].is \in {"closed", "list"} PROVE ~StillNew(t, f)
    <2>1. n \in About(t, {"closed", "list"}, f)
      BY <1>2, <1>5
    <2>2. ASSUME NEW j \in About(t, {"new"}, f) PROVE ~(n < j)
      <3>1. j \in 1..n
        BY <1>2
      <3> QED BY <1>1, <3>1
    <2> QED BY <2>1, <2>2 DEF StillNew
  <1> QED BY <1>4, <1>5

LEMMA LastOfBoth ==
    ASSUME NEW t \in Told, NEW s \in Told, Len(s) > 0
    PROVE  /\ t \o s \in Told /\ Len(t \o s) > 0 /\ Len(s) \in DOMAIN s
           /\ (t \o s)[Len(t \o s)] = s[Len(s)]
  <1>1. /\ t \o s \in Told /\ Len(t \o s) = Len(t) + Len(s)
        /\ Len(t) \in Nat /\ Len(s) \in Nat /\ DOMAIN s = 1..Len(s)
        /\ \A j \in 1..(Len(t) + Len(s)) : j > Len(t) => (t \o s)[j] = s[j - Len(t)]
    BY DEF Told
  <1>2. Len(t) + Len(s) \in 1..(Len(t) + Len(s)) /\ Len(t) + Len(s) > Len(t)
        /\ (Len(t) + Len(s)) - Len(t) = Len(s)
    BY <1>1
  <1> QED BY <1>1, <1>2

\* What one sequence behind another holds, and at which places.
LEMMA JoinTypes ==
    ASSUME NEW t \in Told, NEW s \in Told
    PROVE  /\ t \o s \in Told /\ Len(t \o s) = Len(t) + Len(s)
           /\ Len(t) \in Nat /\ Len(s) \in Nat
           /\ DOMAIN t = 1..Len(t) /\ DOMAIN s = 1..Len(s)
           /\ DOMAIN (t \o s) = 1..(Len(t) + Len(s))
           /\ \A j \in 1..Len(t) : (t \o s)[j] = t[j]
           /\ \A j \in 1..(Len(t) + Len(s)) : j > Len(t) => (t \o s)[j] = s[j - Len(t)]
           /\ Len(s) = 0 => s = <<>> /\ t \o s = t
  BY DEF Told

LEMMA ChatInvInit == ChatInit => ChatInv
  <1> SUFFICES ASSUME ChatInit PROVE ChatInv
    OBVIOUS
  <1>1. ChatTypeOK
    BY ChatNumbers DEF ChatInit, ChatTypeOK
  <1>2. Reached
    BY DEF ChatInit, Reached
  <1>3. Lines
    BY ChatNumbers DEF ChatInit, Lines
  <1>4. Found /\ Meant /\ Agree
    BY ChatNumbers DEF ChatInit, Found, Meant, Agree
  <1> QED BY <1>1, <1>2, <1>3, <1>4 DEF ChatInv

-----------------------------------------------------------------------------

\* What send() leaves: everyone has what it was sent, or the server has died.
LEMMA Sends ==
    ASSUME ChatTypeOK, chat = "run", NEW out \in [User -> Told], SendAll(out)
    PROVE  /\ told' \in [User -> Told] /\ line' \in [User -> {"none", "open", "fin", "rst", "sent"}]
           /\ chat' \in {"run", "died"}
           /\ \A u \in User : /\ Ended(u)' <=> Ended(u)
                              /\ line'[u] = "none" <=> line[u] = "none"
           /\ chat' = "run" => \A u \in User : told'[u] = told[u] \o out[u]
           /\ chat' # "run" => told' = told
  <1>1. told \in [User -> Told]
    BY DEF ChatTypeOK, Told
  <1>2. \A u \in User : told[u] \o out[u] \in Told
    BY <1>1 DEF Told
  <1>3. CASE /\ \E u \in User : /\ Ended(u) /\ out[u] # <<>>
                                /\ Len(out[u]) + (IF line[u] = "sent" THEN 1 ELSE 0) >= 2
             /\ chat' = "died" /\ told' = told /\ line' = line
    <2>1. \A u \in User : Ended(u)' <=> Ended(u)
      BY <1>3 DEF Ended
    <2> QED BY <1>1, <1>3, <2>1 DEF ChatTypeOK
  <1>4. CASE /\ told' = [u \in User |-> told[u] \o out[u]]
             /\ line' = [u \in User |-> IF Ended(u) /\ out[u] # <<>> THEN "sent" ELSE line[u]]
             /\ chat' = chat
    <2>1. \A u \in User : line'[u] = IF Ended(u) /\ out[u] # <<>> THEN "sent" ELSE line[u]
      BY <1>4
    <2>2. \A u \in User : line[u] \in {"none", "open", "fin", "rst", "sent"}
      BY DEF ChatTypeOK
    <2>3. \A u \in User : /\ Ended(u)' <=> Ended(u)
                          /\ line'[u] = "none" <=> line[u] = "none"
                          /\ line'[u] \in {"none", "open", "fin", "rst", "sent"}
      BY <2>1, <2>2 DEF Ended
    <2>4. line' \in [User -> {"none", "open", "fin", "rst", "sent"}]
      BY <1>4, <2>2
    <2>5. told' \in [User -> Told] /\ \A u \in User : told'[u] = told[u] \o out[u]
      BY <1>2, <1>4
    <2> QED BY <1>4, <2>3, <2>4, <2>5
  <1> QED BY <1>3, <1>4 DEF SendAll

\* It is said as often as someone is in the array.
LEMMA OncePerIs ==
    ASSUME NEW ks \in SUBSET (1..Len(clients)), clients \in Seq(UserFd), NEW it \in News
    PROVE  /\ OncePer(ks, it) \in Told /\ Len(OncePer(ks, it)) = Cardinality(ks)
           /\ ks # {} => Len(OncePer(ks, it)) > 0
           /\ Len(OncePer(ks, it)) \in Nat
           /\ \A j \in DOMAIN OncePer(ks, it) : OncePer(ks, it)[j] = it
  <1>1. Len(clients) \in Nat
    OBVIOUS
  <1>2. IsFiniteSet(1..Len(clients))
    BY <1>1, FS_Interval
  <1>4. IsFiniteSet(ks)
    BY <1>2, FS_Subset
  <1>3. Cardinality(ks) \in Nat /\ (ks # {} => Cardinality(ks) # 0)
    BY <1>4, FS_CardinalityType, FS_EmptySet
  <1> QED BY <1>3 DEF OncePer, Told

\* Messages stay right when connections only end.
LEMMA StaysRight ==
    ASSUME ChatTypeOK, \A u \in User : Ended(u) => Ended(u)',
           NEW m \in News \cup Text, NEW u \in User, SaidRight(m, u)
    PROVE  SaidRight(m, u)'
  <1>1. CASE m.is # "text"
    BY <1>1 DEF SaidRight
  <1>2. CASE m.is = "text"
    <2>1. m \in Text /\ m.lines \in Seq(Line) /\ m.lines # <<>>
      BY <1>2 DEF SaidRight, News, Text
    <2>2. Head(m.lines) \in Line
      BY <2>1
    <2>3. Head(m.lines).for \in User \cup {Nobody}
      BY <2>2 DEF Line
    <2> QED BY <1>2, <2>1, <2>3 DEF SaidRight
  <1> QED BY <1>1, <1>2

LEMMA ReachedStays ==
    ASSUME ChatTypeOK, Reached, \A u \in User : Ended(u) => Ended(u)', told' = told
    PROVE  Reached'
  <1> SUFFICES ASSUME NEW u \in User, NEW j \in DOMAIN told[u]
               PROVE  SaidRight(told[u][j], u)'
    BY DEF Reached
  <1>1. told[u][j] \in News \cup Text
    BY DEF ChatTypeOK
  <1>2. SaidRight(told[u][j], u)
    BY DEF Reached
  <1> DEFINE m == told[u][j]
  <1>3. PICK x : x = m
    OBVIOUS
  <1>4. m' = m
    OBVIOUS
  <1>5. SaidRight(x, u)'
    BY <1>1, <1>2, <1>3, StaysRight
  <1> QED BY <1>3, <1>4, <1>5

LEMMA ReachedGrows ==
    ASSUME ChatTypeOK, Reached, \A u \in User : Ended(u) => Ended(u)',
           NEW out \in [User -> Told], \A u \in User : told'[u] = told[u] \o out[u],
           \A u \in User : \A j \in DOMAIN out[u] : SaidRight(out[u][j], u)
    PROVE  Reached'
  <1> SUFFICES ASSUME NEW u \in User, NEW j \in DOMAIN told'[u]
               PROVE  SaidRight(told[u][j], u)'
    BY DEF Reached
  <1> DEFINE t == told[u]
             s == out[u]
             n == Len(told[u])
  <1>1. /\ t \in Told /\ s \in Told /\ told'[u] = t \o s
        /\ n = Len(t)
    BY DEF ChatTypeOK, Told
  <1>2. PICK x : x = told'[u][j]
    OBVIOUS
  <1>3. x \in News \cup Text /\ SaidRight(x, u)
    <2>1. \A k \in DOMAIN t : SaidRight(t[k], u)
      BY DEF Reached
    <2>2. \A k \in DOMAIN s : SaidRight(s[k], u)
      OBVIOUS
    <2> HIDE DEF t, s, n
    <2>3. /\ n \in Nat /\ j \in 1..(n + Len(s)) /\ DOMAIN t = 1..n /\ DOMAIN s = 1..Len(s)
          /\ Len(s) \in Nat
      BY <1>1 DEF Told
    <2>4. CASE j <= n
      <3>1. j \in DOMAIN t /\ x = t[j] /\ t[j] \in News \cup Text
        BY <1>1, <1>2, <2>3, <2>4 DEF Told
      <3> QED BY <2>1, <3>1
    <2>5. CASE ~(j <= n)
      <3>1. j - n \in DOMAIN s /\ x = s[j - n] /\ s[j - n] \in News \cup Text
        BY <1>1, <1>2, <2>3, <2>5 DEF Told
      <3> QED BY <2>2, <3>1
    <2> QED BY <2>4, <2>5
  <1>4. SaidRight(x, u)'
    BY <1>3, StaysRight
  <1> QED BY <1>2, <1>4

LEMMA LineTypes ==
    ASSUME ChatTypeOK, NEW u \in User, NEW k \in DOMAIN up[u]
    PROVE  /\ up[u][k] \in Line /\ up[u][k].for \in User \cup {Nobody}
           /\ up[u][k].dest \in UserFd \cup {NoNumber}
  <1>1. up[u] \in Seq(Line)
    BY DEF ChatTypeOK
  <1>2. up[u][k] \in Line
    BY <1>1
  <1> QED BY <1>2 DEF Line

-----------------------------------------------------------------------------
(* The clients and select().                                                *)

LEMMA DialKeeps == ASSUME ChatInv, chat = "run", NEW u \in User, Dial(u) PROVE ChatInv'
  <1> USE DEF Dial, kept
  <1>1. ChatTypeOK /\ Reached /\ Lines /\ Found /\ Meant /\ Agree
    BY DEF ChatInv
  <1>2. /\ line[u] = "none" /\ line \in [User -> {"none", "open", "fin", "rst", "sent"}]
        /\ line' = [line EXCEPT ![u] = "open"] /\ backlog' = Append(backlog, u)
        /\ clients' = clients /\ read_fds' = read_fds /\ tmp_fds' = tmp_fds
        /\ at_fd' = at_fd /\ told' = told /\ chat' = chat /\ up' = up /\ typed' = typed
    BY <1>1 DEF ChatTypeOK
  <1>3. ChatTypeOK'
    BY <1>1, <1>2 DEF ChatTypeOK
  <1>4. /\ \A v \in User : v # u => line'[v] = line[v]
        /\ line'[u] = "open"
    BY <1>2
  <1>5. \A v \in User : Ended(v)' <=> Ended(v)
    BY <1>2, <1>4 DEF Ended
  <1>6. Reached'
    BY <1>1, <1>2, <1>5, ReachedStays
  <1>7. Lines'
    <2>1. /\ told[u] = <<>> /\ \A f \in UserFd : at_fd[f] # u
          /\ \A k \in DOMAIN backlog : backlog[k] # u
      BY <1>1, <1>2 DEF Lines
    <2>2. /\ backlog \in Seq(User) /\ Len(backlog) \in Nat /\ DOMAIN backlog = 1..Len(backlog)
          /\ DOMAIN backlog' = 1..(Len(backlog) + 1) /\ backlog'[Len(backlog) + 1] = u
          /\ \A k \in DOMAIN backlog : backlog'[k] = backlog[k]
      BY <1>1, <1>2 DEF ChatTypeOK
    <2>3. \A k \in DOMAIN backlog' : k \in DOMAIN backlog \/ k = Len(backlog) + 1
      BY <2>2
    <2>4. \A j, k \in DOMAIN backlog' : backlog'[j] = backlog'[k] => j = k
      BY <1>1, <2>1, <2>2, <2>3 DEF Lines
    <2>5. \A k \in DOMAIN backlog' : /\ told[backlog'[k]] = <<>>
                                     /\ \A f \in UserFd : at_fd[f] # backlog'[k]
      BY <1>1, <2>1, <2>2, <2>3 DEF Lines
    <2>6. \A v \in User : line'[v] = "none" =>
            /\ told[v] = <<>> /\ \A f \in UserFd : at_fd[f] # v
            /\ \A k \in DOMAIN backlog' : backlog'[k] # v
      BY <1>1, <1>4, <2>1, <2>2, <2>3 DEF Lines
    <2> QED BY <1>1, <1>2, <2>4, <2>5, <2>6 DEF Lines
  <1>8. Found'
    <2>1. backlog' # <<>>
      <3>1. backlog \in Seq(User) /\ backlog' = Append(backlog, u)
        BY <1>1, <1>2 DEF ChatTypeOK
      <3>2. Len(backlog') = Len(backlog) + 1 /\ Len(backlog) \in Nat
        BY <3>1
      <3> QED BY <3>1, <3>2
    <2>2. \A f \in tmp_fds \cap UserFd : at_fd[f] \in User
      BY <1>1 DEF ChatTypeOK, Lines
    <2> QED BY <1>1, <1>2, <1>5, <2>1, <2>2 DEF Found
  <1>9. Meant' /\ Agree'
    <2>1. \A v \in User : \A k \in DOMAIN up[v] : up[v][k].for \in User \cup {Nobody}
      BY <1>1, LineTypes
    <2>2. Meant'
      BY <1>1, <1>2, <1>5, <2>1 DEF Meant
    <2> QED BY <1>1, <1>2, <2>2 DEF Agree
  <1> QED BY <1>3, <1>6, <1>7, <1>8, <1>9 DEF ChatInv

LEMMA HangUpKeeps == ASSUME ChatInv, chat = "run", NEW u \in User, HangUp(u) PROVE ChatInv'
  <1> USE DEF HangUp, kept
  <1>1. ChatTypeOK /\ Reached /\ Lines /\ Found /\ Meant /\ Agree
    BY DEF ChatInv
  <1>2. /\ line[u] = "open" /\ line \in [User -> {"none", "open", "fin", "rst", "sent"}]
        /\ line' \in [User -> {"none", "open", "fin", "rst", "sent"}]
        /\ line'[u] \in {"fin", "rst"} /\ \A v \in User : v # u => line'[v] = line[v]
        /\ clients' = clients /\ read_fds' = read_fds /\ tmp_fds' = tmp_fds
        /\ at_fd' = at_fd /\ told' = told /\ chat' = chat /\ up' = up /\ typed' = typed
        /\ backlog' = backlog
    BY <1>1 DEF ChatTypeOK
  <1>3. ChatTypeOK'
    BY <1>1, <1>2 DEF ChatTypeOK
  <1>4. \A v \in User : /\ Ended(v) => Ended(v)'
                        /\ line'[v] = "none" <=> line[v] = "none"
    BY <1>2 DEF Ended
  <1>5. Reached'
    BY <1>1, <1>2, <1>4, ReachedStays
  <1>6. Lines'
    BY <1>1, <1>2, <1>4 DEF Lines
  <1>7. Found'
    <2>1. \A f \in tmp_fds \cap UserFd : at_fd[f] \in User
      BY <1>1 DEF ChatTypeOK, Lines
    <2> QED BY <1>1, <1>2, <1>4, <2>1 DEF Found
  <1>8. Meant' /\ Agree'
    <2>1. \A v \in User : \A k \in DOMAIN up[v] : up[v][k].for \in User \cup {Nobody}
      BY <1>1, LineTypes
    <2>2. Meant'
      BY <1>1, <1>2, <1>4, <2>1 DEF Meant
    <2> QED BY <1>1, <1>2, <2>2 DEF Agree
  <1> QED BY <1>3, <1>5, <1>6, <1>7, <1>8 DEF ChatInv

LEMMA TypeKeeps == ASSUME ChatInv, chat = "run", NEW u \in User, TypeText(u) PROVE ChatInv'
  <1>1. ChatTypeOK /\ Reached /\ Lines /\ Found /\ Meant /\ Agree
    BY DEF ChatInv
  <1>2. PICK dest \in Numbers(u) \cup {NoNumber} :
            up' = [up EXCEPT ![u] = Append(@, [n |-> typed + 1, dest |-> dest,
                     for |-> IF dest = NoNumber THEN Nobody ELSE at_fd[dest]])]
    BY DEF TypeText
  <1> DEFINE new == [n |-> typed + 1, dest |-> dest,
                     for |-> IF dest = NoNumber THEN Nobody ELSE at_fd[dest]]
  <1>3. /\ typed < MaxLines /\ typed' = typed + 1 /\ typed \in 0..MaxLines
        /\ up \in [User -> Seq(Line)] /\ line' = line /\ backlog' = backlog
        /\ clients' = clients /\ read_fds' = read_fds /\ tmp_fds' = tmp_fds
        /\ at_fd' = at_fd /\ told' = told /\ chat' = chat
    BY <1>1 DEF ChatTypeOK, TypeText, kept
  <1>4. dest \in UserFd \cup {NoNumber}
    BY DEF Numbers
  <1>5. new \in Line
    <2>1. typed + 1 \in 1..MaxLines
      BY <1>3
    <2>2. (IF dest = NoNumber THEN Nobody ELSE at_fd[dest]) \in User \cup {Nobody}
      BY <1>1, <1>4 DEF ChatTypeOK
    <2> QED BY <1>4, <2>1, <2>2 DEF Line
  <1>6. /\ up' = [up EXCEPT ![u] = Append(@, new)] /\ new.dest = dest
        /\ new.for = IF dest = NoNumber THEN Nobody ELSE at_fd[dest]
    BY <1>2
  <1> HIDE DEF new
  <1>7. /\ up' \in [User -> Seq(Line)] /\ \A v \in User : v # u => up'[v] = up[v]
        /\ up'[u] = Append(up[u], new) /\ up'[u] # <<>>
    BY SMTT(20), <1>3, <1>5, <1>6
  <1>8. ChatTypeOK'
    <2>1. typed' \in 0..MaxLines
      BY <1>3
    <2> QED BY <1>1, <1>3, <1>7, <2>1 DEF ChatTypeOK
  <1>9. \A v \in User \cup {Nobody} : Ended(v)' <=> Ended(v)
    BY <1>3 DEF Ended
  <1>10. Reached' /\ Lines' /\ Agree'
    <2>1. Reached'
      BY <1>1, <1>3, <1>9, ReachedStays
    <2>2. Lines'
      BY <1>1, <1>3 DEF Lines
    <2> QED BY <1>1, <1>3, <2>1, <2>2 DEF Agree
  <1>11. Found'
    <2>1. \A f \in tmp_fds \cap UserFd : at_fd[f] \in User
      BY <1>1 DEF ChatTypeOK, Lines
    <2> QED BY <1>1, <1>3, <1>7, <1>9, <2>1 DEF Found
  <1>12. Meant'
    <2> SUFFICES ASSUME NEW v \in User, NEW k \in DOMAIN up'[v]
                 PROVE  \/ up'[v][k].dest = NoNumber \/ up'[v][k].for = Nobody
                        \/ at_fd[up'[v][k].dest] = up'[v][k].for \/ Ended(up'[v][k].for)
      BY <1>3 DEF Meant, Ended
    <2>1. CASE k \in DOMAIN up[v] /\ up'[v][k] = up[v][k]
      BY <1>1, <2>1 DEF Meant
    <2>2. CASE v = u /\ up'[v][k] = new
      BY <1>6, <2>2
    <2>3. v = u => (k \in DOMAIN up[v] /\ up'[v][k] = up[v][k]) \/ up'[v][k] = new
      BY <1>3, <1>7
    <2> QED BY <1>7, <2>1, <2>2, <2>3
  <1> QED BY <1>8, <1>10, <1>11, <1>12 DEF ChatInv

LEMMA SelectKeeps == ASSUME ChatInv, chat = "run", SelectChat PROVE ChatInv'
  <1>1. ChatTypeOK /\ Reached /\ Lines /\ Found /\ Meant /\ Agree
    BY DEF ChatInv
  <1>2. /\ clients' = clients /\ read_fds' = read_fds /\ at_fd' = at_fd /\ backlog' = backlog
        /\ line' = line /\ up' = up /\ told' = told /\ typed' = typed /\ chat' = chat
        /\ tmp_fds' = {f \in read_fds :
                         \/ f = sockfd /\ backlog # <<>>
                         \/ f # sockfd /\ (up[at_fd[f]] # <<>> \/ Ended(at_fd[f]))}
    BY DEF SelectChat
  <1>3. ChatTypeOK'
    BY <1>1, <1>2 DEF ChatTypeOK
  <1>4. Reached'
    BY <1>1, <1>2 DEF Reached, SaidRight, Ended
  <1>5. Lines' /\ Meant' /\ Agree'
    BY <1>1, <1>2 DEF Lines, Meant, Agree, Ended
  <1>6. Found'
    BY <1>1, <1>2, ChatNumbers DEF Found, Ended
  <1> QED BY <1>3, <1>4, <1>5, <1>6 DEF ChatInv

-----------------------------------------------------------------------------
(* The handlers.                                                             *)

\* Who has no descriptor is sent nothing.
LEMMA NoIndices ==
    ASSUME clients \in Seq(UserFd), NEW fds, NEW u, \A f \in UserFd : fds[f] # u
    PROVE  Indices(u, fds) = {}
  <1>1. \A k \in DOMAIN clients : clients[k] \in UserFd
    OBVIOUS
  <1> QED BY <1>1 DEF Indices

LEMMA RelayKeeps == ASSUME ChatInv, chat = "run", NEW i \in UserFd, Relay(i) PROVE ChatInv'
  <1>1. ChatTypeOK /\ Reached /\ Lines /\ Found /\ Meant /\ Agree
    BY DEF ChatInv
  <1> DEFINE u == at_fd[i]
             lines == up[u]
  <1>2. /\ i \in tmp_fds /\ tmp_fds' = tmp_fds \ {i} /\ lines # <<>>
        /\ up' = [up EXCEPT ![u] = <<>>]
        /\ clients' = clients /\ read_fds' = read_fds /\ at_fd' = at_fd
        /\ backlog' = backlog /\ typed' = typed
    BY DEF Relay, TurnOf
  <1>3. u \in User /\ at_fd \in [UserFd -> User \cup {Nobody}]
    BY <1>1, <1>2 DEF ChatTypeOK, Lines
  <1>4. /\ up \in [User -> Seq(Line)] /\ lines \in Seq(Line) /\ Head(lines) \in Line
        /\ lines[1] = Head(lines) /\ 1 \in DOMAIN lines
    BY <1>1, <1>2, <1>3 DEF ChatTypeOK
  <1> DEFINE it == [is |-> "text", lines |-> lines]
  <1>5. it \in Text /\ it.is = "text" /\ it.lines = lines
    BY <1>4 DEF Text
  <1>6. PICK dest \in UserFd \cup {sockfd, NoNumber} :
            /\ addressee(lines) # NoNumber => dest = addressee(lines)
            /\ \/ chat' = "died" /\ told' = told /\ line' = line
               \/ SendAll([v \in User |-> IF dest \in UserFd /\ at_fd[dest] = v
                                          THEN <<it>> ELSE <<>>])
    BY DEF Relay
  <1> DEFINE out == [v \in User |-> IF dest \in UserFd /\ at_fd[dest] = v
                                      THEN <<it>> ELSE <<>>]
  <1>7. out \in [User -> Told] /\ \A v \in User : \A j \in DOMAIN out[v] :
              /\ j = 1 /\ out[v][j] = it /\ dest \in UserFd /\ at_fd[dest] = v
    <2>1. <<it>> \in Told /\ <<>> \in Told
      BY <1>5 DEF Told
    <2>2. DOMAIN <<it>> = {1} /\ <<it>>[1] = it /\ DOMAIN <<>> = {}
      OBVIOUS
    <2> HIDE DEF it
    <2> QED BY <2>1, <2>2
  <1> HIDE DEF out, it
  <1>8. ASSUME chat' = "run" PROVE SendAll(out)
    BY <1>6, <1>8 DEF out
  <1>9. /\ told' \in [User -> Told] /\ line' \in [User -> {"none", "open", "fin", "rst", "sent"}]
        /\ chat' \in {"run", "died"}
        /\ \A v \in User : /\ Ended(v)' <=> Ended(v)
                           /\ line'[v] = "none" <=> line[v] = "none"
        /\ chat' = "run" => \A v \in User : told'[v] = told[v] \o out[v]
        /\ chat' # "run" => told' = told
    <2>1. CASE chat' = "died" /\ told' = told /\ line' = line
      BY <1>1, <2>1 DEF ChatTypeOK, Told, Ended
    <2>2. CASE SendAll(out)
      BY <1>1, <1>7, <2>2, Sends
    <2> QED BY <1>6, <2>1, <2>2 DEF out
  <1>10. /\ up' \in [User -> Seq(Line)] /\ up'[u] = <<>>
         /\ \A v \in User : v # u => up'[v] = up[v]
    BY <1>2, <1>3, <1>4
  <1>11. ChatTypeOK'
    BY <1>1, <1>2, <1>9, <1>10 DEF ChatTypeOK, Told
  <1>12. Reached'
    <2>1. CASE chat' # "run"
      BY <1>1, <1>9, <2>1, ReachedStays
    <2>2. CASE chat' = "run"
      <3>1. ASSUME NEW v \in User, NEW j \in DOMAIN out[v] PROVE SaidRight(out[v][j], v)
        <4>1. out[v][j] = it /\ dest \in UserFd /\ at_fd[dest] = v
          BY <1>7, <3>1
        <4>2. Head(lines).dest = NoNumber \/ dest = Head(lines).dest
          BY <1>6 DEF addressee
        <4>3. \/ Head(lines).dest = NoNumber \/ Head(lines).for = Nobody
              \/ at_fd[Head(lines).dest] = Head(lines).for \/ Ended(Head(lines).for)
          BY <1>1, <1>3, <1>4 DEF Meant
        <4> QED BY <1>2, <1>5, <4>1, <4>2, <4>3 DEF SaidRight
      <3> QED BY <1>1, <1>7, <1>9, <2>2, <3>1, ReachedGrows
    <2> QED BY <2>1, <2>2
  <1>13. ASSUME chat' = "run" PROVE Lines' /\ Found' /\ Meant' /\ Agree'
    <2>1. ASSUME NEW v \in User, \A f \in UserFd : at_fd[f] # v PROVE told'[v] = told[v]
      <3>1. out[v] = <<>>
        BY <2>1 DEF out
      <3>2. told[v] \o <<>> = told[v]
        BY <1>1 DEF ChatTypeOK
      <3> QED BY <1>9, <1>13, <3>1, <3>2
    <2>2. Lines'
      <3>1. \A k \in DOMAIN backlog : backlog[k] \in User
        BY <1>1 DEF ChatTypeOK
      <3>2. \A k \in DOMAIN backlog' : /\ told'[backlog'[k]] = <<>>
                                       /\ \A f \in UserFd : at_fd'[f] # backlog'[k]
        BY <1>1, <1>2, <2>1, <3>1 DEF Lines
      <3>3. \A v \in User : line'[v] = "none" =>
              /\ told'[v] = <<>> /\ \A f \in UserFd : at_fd'[f] # v
              /\ \A k \in DOMAIN backlog' : backlog'[k] # v
        BY <1>1, <1>2, <1>9, <2>1 DEF Lines
      <3> QED BY <1>1, <1>2, <3>2, <3>3 DEF Lines
    <2>3. Found'
      <3>1. \A f \in tmp_fds' \cap UserFd : at_fd[f] \in User /\ at_fd[f] # u
        BY <1>1, <1>2, <1>3 DEF ChatTypeOK, Lines
      <3>2. sockfd \in tmp_fds' => backlog' # <<>>
        BY <1>1, <1>2 DEF Found
      <3> HIDE DEF u
      <3>3. \A f \in tmp_fds' \cap UserFd : 
                up'[at_fd'[f]] # <<>> \/ line'[at_fd'[f]] \in {"fin", "rst", "sent"}
        BY <1>1, <1>2, <1>9, <1>10, <3>1 DEF Found, Ended
      <3> QED BY <3>2, <3>3 DEF Found, Ended
    <2>4. Meant'
      <3> SUFFICES ASSUME NEW v \in User, NEW k \in DOMAIN up'[v]
                   PROVE  \/ up'[v][k].dest = NoNumber \/ up'[v][k].for = Nobody
                          \/ at_fd[up'[v][k].dest] = up'[v][k].for
                          \/ line'[up'[v][k].for] \in {"fin", "rst", "sent"}
        BY <1>2 DEF Meant, Ended
      <3>1. v # u /\ up'[v] = up[v]
        BY <1>10
      <3>2. up[v][k].for \in User \cup {Nobody}
        BY <1>1, <3>1, LineTypes
      <3> QED BY <1>1, <1>9, <3>1, <3>2 DEF Meant, Ended
    <2>5. Agree'
      <3>1. ASSUME NEW f \in UserFd, at_fd[f] # Nobody, NEW g \in UserFd
            PROVE  /\ Known(told'[at_fd[f]], g) <=> Known(told[at_fd[f]], g)
                   /\ StillNew(told'[at_fd[f]], g) <=> StillNew(told[at_fd[f]], g)
        <4>1. at_fd[f] \in User
          BY <1>3, <3>1
        <4>2. told[at_fd[f]] \in Told /\ out[at_fd[f]] \in Told
          BY <1>1, <1>7, <4>1 DEF ChatTypeOK, Told
        <4>3. \A j \in DOMAIN out[at_fd[f]] : out[at_fd[f]][j].is = "text"
          BY <1>5, <1>7, <4>1
        <4>4. told'[at_fd[f]] = told[at_fd[f]] \o out[at_fd[f]]
          BY <1>9, <1>13, <4>1
        <4> QED BY <4>2, <4>3, <4>4, Unmentioned
      <3> QED BY <1>1, <1>2, <3>1 DEF Agree
    <2> QED BY <2>2, <2>3, <2>4, <2>5
  <1> QED BY <1>11, <1>12, <1>13 DEF ChatInv

LEMMA CloseKeeps == ASSUME ChatInv, chat = "run", NEW i \in UserFd, CloseChat(i) PROVE ChatInv'
  <1>1. ChatTypeOK /\ Reached /\ Lines /\ Found /\ Meant /\ Agree
    BY DEF ChatInv
  <1> DEFINE u == at_fd[i]
             it == [is |-> "closed", fds |-> {i}]
             out == [v \in User |-> OncePer(Indices(v, at_fd) \ {i + 1}, it)]
  <1>2. /\ i \in tmp_fds /\ tmp_fds' = tmp_fds \ {i} /\ up[u] = <<>>
        /\ clients' = clients /\ backlog' = backlog /\ up' = up /\ typed' = typed
    BY DEF CloseChat, TurnOf
  <1>3. u \in User /\ at_fd \in [UserFd -> User \cup {Nobody}] /\ Ended(u)
    BY <1>1, <1>2 DEF ChatTypeOK, Lines, Found
  <1>4. it \in News /\ it.is = "closed" /\ it.fds = {i}
    BY DEF News
  <1>5. clients \in Seq(UserFd) /\ DOMAIN clients = 1..Len(clients)
    BY <1>1 DEF ChatTypeOK
  <1>6. out \in [User -> Told] /\ \A v \in User : \A j \in DOMAIN out[v] : out[v][j] = it
    <2> HIDE DEF it
    <2>1. \A v \in User : Indices(v, at_fd) \ {i + 1} \in SUBSET (1..Len(clients))
      BY <1>5 DEF Indices
    <2> QED BY <1>4, <1>5, <2>1, OncePerIs
  <1>7. \/ chat' = "died" /\ told' = told /\ line' = line /\ at_fd' = at_fd /\ read_fds' = read_fds
        \/ /\ SendAll(out)
           /\ at_fd' = [at_fd EXCEPT ![i] = Nobody] /\ read_fds' = read_fds \ {i}
    BY DEF CloseChat
  <1> HIDE DEF out, it
  <1>8. /\ told' \in [User -> Told] /\ line' \in [User -> {"none", "open", "fin", "rst", "sent"}]
        /\ chat' \in {"run", "died"}
        /\ \A v \in User : /\ Ended(v)' <=> Ended(v)
                           /\ line'[v] = "none" <=> line[v] = "none"
        /\ chat' = "run" => \A v \in User : told'[v] = told[v] \o out[v]
        /\ chat' # "run" => told' = told
    <2>1. CASE chat' = "died" /\ told' = told /\ line' = line
      BY <1>1, <2>1 DEF ChatTypeOK, Told, Ended
    <2>2. CASE SendAll(out)
      BY <1>1, <1>6, <2>2, Sends
    <2> QED BY <1>7, <2>1, <2>2
  <1>9. ChatTypeOK'
    <2>1. at_fd' \in [UserFd -> User \cup {Nobody}] /\ tmp_fds' \subseteq read_fds'
          /\ read_fds' \subseteq UserFd \cup {sockfd}
      BY <1>1, <1>2, <1>3, <1>7 DEF ChatTypeOK
    <2> QED BY <1>1, <1>2, <1>8, <2>1 DEF ChatTypeOK, Told
  <1>10. Reached'
    <2>1. CASE chat' # "run"
      BY <1>1, <1>8, <2>1, ReachedStays
    <2>2. CASE chat' = "run"
      <3>1. \A v \in User : \A j \in DOMAIN out[v] : SaidRight(out[v][j], v)
        BY <1>4, <1>6 DEF SaidRight
      <3> QED BY <1>1, <1>6, <1>8, <2>2, <3>1, ReachedGrows
    <2> QED BY <2>1, <2>2
  <1>11. ASSUME chat' = "run" PROVE Lines' /\ Found' /\ Meant' /\ Agree'
    <2>1. /\ at_fd' = [at_fd EXCEPT ![i] = Nobody] /\ read_fds' = read_fds \ {i}
          /\ at_fd'[i] = Nobody /\ \A f \in UserFd : f # i => at_fd'[f] = at_fd[f]
      BY <1>3, <1>7, <1>11
    <2>2. ASSUME NEW v \in User, \A f \in UserFd : at_fd[f] # v PROVE told'[v] = told[v]
      <3>1. Indices(v, at_fd) = {}
        BY <1>5, <2>2, NoIndices
      <3>2. Cardinality({}) = 0 /\ {} \ {i + 1} = {}
        BY FS_EmptySet
      <3>3. out[v] = <<>>
        <4>1. out[v] = OncePer({}, it)
          BY <3>1, <3>2 DEF out
        <4>2. out[v] \in Told /\ Len(out[v]) = 0
          BY <1>4, <1>5, <3>2, <4>1, OncePerIs
        <4> QED BY <4>2 DEF Told
      <3>4. told[v] \o <<>> = told[v]
        BY <1>1 DEF ChatTypeOK
      <3> QED BY <1>8, <1>11, <3>3, <3>4
    <2>3. Lines'
      <3>1. \A k \in DOMAIN backlog : backlog[k] \in User
        BY <1>1 DEF ChatTypeOK
      <3>2. \A f \in UserFd : \A v \in User : at_fd[f] # v => at_fd'[f] # v
        BY <2>1, ChatNumbers
      <3>3. \A k \in DOMAIN backlog' : /\ told'[backlog'[k]] = <<>>
                                       /\ \A f \in UserFd : at_fd'[f] # backlog'[k]
        BY <1>1, <1>2, <2>2, <3>1, <3>2 DEF Lines
      <3>4. \A v \in User : line'[v] = "none" =>
              /\ told'[v] = <<>> /\ \A f \in UserFd : at_fd'[f] # v
              /\ \A k \in DOMAIN backlog' : backlog'[k] # v
        BY <1>1, <1>2, <1>8, <2>2, <3>2 DEF Lines
      <3>5. \A f, g \in UserFd : at_fd'[f] = at_fd'[g] /\ at_fd'[f] # Nobody => f = g
        BY <1>1, <2>1 DEF Lines
      <3>6. \A f \in UserFd : /\ at_fd'[f] # Nobody <=> f \in read_fds'
                              /\ at_fd'[f] # Nobody => \E k \in DOMAIN clients' : clients'[k] = f
        BY <1>1, <1>2, <2>1 DEF Lines
      <3>7. \A j, k \in DOMAIN backlog' : backlog'[j] = backlog'[k] => j = k
        BY <1>1, <1>2 DEF Lines
      <3> QED BY <3>3, <3>4, <3>5, <3>6, <3>7 DEF Lines
    <2>4. Found'
      <3>1. \A f \in tmp_fds' \cap UserFd : at_fd'[f] = at_fd[f] /\ at_fd[f] \in User
        BY <1>1, <1>2, <1>3, <2>1 DEF ChatTypeOK, Lines
      <3>2. sockfd \in tmp_fds' => backlog' # <<>>
        BY <1>1, <1>2 DEF Found
      <3> HIDE DEF u
      <3>3. \A f \in tmp_fds' \cap UserFd :
                up'[at_fd'[f]] # <<>> \/ line'[at_fd'[f]] \in {"fin", "rst", "sent"}
        BY <1>1, <1>2, <1>8, <3>1 DEF Found, Ended
      <3> QED BY <3>2, <3>3 DEF Found, Ended
    <2>5. Meant'
      <3> SUFFICES ASSUME NEW v \in User, NEW k \in DOMAIN up[v]
                   PROVE  \/ up[v][k].dest = NoNumber \/ up[v][k].for = Nobody
                          \/ at_fd'[up[v][k].dest] = up[v][k].for
                          \/ line'[up[v][k].for] \in {"fin", "rst", "sent"}
        BY <1>2 DEF Meant, Ended
      <3>1. up[v][k].for \in User \cup {Nobody} /\ up[v][k].dest \in UserFd \cup {NoNumber}
        BY <1>1, LineTypes
      <3>2. CASE up[v][k].dest = i /\ up[v][k].for = u
        BY <1>3, <1>8, <3>2 DEF Ended
      <3>3. CASE up[v][k].dest = i /\ at_fd[up[v][k].dest] # up[v][k].for
        BY <1>1, <1>8, <3>1, <3>3 DEF Meant, Ended
      <3>4. CASE up[v][k].dest # i
        BY <1>1, <1>8, <2>1, <3>1, <3>4 DEF Meant, Ended
      <3> QED BY <3>2, <3>3, <3>4
    <2>6. Agree'
      <3> SUFFICES ASSUME NEW f \in UserFd, NEW g \in UserFd, at_fd'[f] # Nobody, f # g
                   PROVE  /\ at_fd'[g] # Nobody => Known(told'[at_fd'[f]], g)
                          /\ StillNew(told'[at_fd'[f]], g) =>
                                \/ at_fd'[g] # Nobody
                                \/ g + 1 \in DOMAIN clients /\ clients[g + 1] = f
        BY <1>2 DEF Agree
      <3>1. PICK w \in User : w = at_fd[f] /\ w = at_fd'[f] /\ f # i
        BY <1>3, <2>1
      <3>2. /\ told[w] \in Told /\ out[w] \in Told
            /\ told'[w] = told[w] \o out[w]
        BY <1>1, <1>6, <1>8, <1>11 DEF ChatTypeOK, Told
      <3>3. CASE g # i
        <4>1. \A j \in DOMAIN out[w] : out[w][j].is = "text" \/ g \notin out[w][j].fds
          BY <1>4, <1>6, <3>3
        <4>2. /\ Known(told'[w], g) <=> Known(told[w], g)
              /\ StillNew(told'[w], g) <=> StillNew(told[w], g)
          BY <3>2, <4>1, Unmentioned
        <4> QED BY <1>1, <2>1, <3>1, <3>3, <4>2 DEF Agree
      <3>4. CASE g = i /\ Indices(w, at_fd) \ {i + 1} # {}
        <4>1. Indices(w, at_fd) \ {i + 1} \in SUBSET (1..Len(clients))
          BY <1>5 DEF Indices
        <4>2. out[w] = OncePer(Indices(w, at_fd) \ {i + 1}, it)
          BY DEF out
        <4>3. Len(out[w]) > 0 /\ Len(out[w]) \in Nat
          BY <1>4, <1>5, <3>4, <4>1, <4>2, OncePerIs
        <4>4. /\ told'[w] \in Told /\ Len(told'[w]) > 0 /\ Len(out[w]) \in DOMAIN out[w]
              /\ told'[w][Len(told'[w])] = out[w][Len(out[w])]
          BY <3>2, <4>3, LastOfBoth
        <4>5. told'[w][Len(told'[w])] = it
          BY <1>6, <4>4
        <4>6. PICK t : t = told'[w]
          OBVIOUS
        <4>7. t \in Told /\ Len(t) > 0 /\ g \in t[Len(t)].fds /\ t[Len(t)].is = "closed"
          BY <1>4, <3>4, <4>4, <4>5, <4>6
        <4>8. ~StillNew(t, g)
          BY <4>7, LastWord
        <4> QED BY <2>1, <3>1, <3>4, <4>6, <4>8
      <3>5. CASE g = i /\ Indices(w, at_fd) \ {i + 1} = {}
        <4>1. PICK k \in DOMAIN clients : clients[k] = f
          BY <1>1, <3>1 DEF Lines, Nobody, User
        <4>2. k \in Indices(w, at_fd)
          BY <3>1, <4>1 DEF Indices
        <4>3. k = i + 1
          BY <3>5, <4>2
        <4> QED BY <2>1, <3>5, <4>1, <4>3
      <3> QED BY <3>3, <3>4, <3>5
    <2> QED BY <2>3, <2>4, <2>5, <2>6
  <1> QED BY <1>9, <1>10, <1>11 DEF ChatInv

\* An accepted connection's number f, or, to its owner, all the numbers.
IsAnnounced(m, f, fds, u) ==
    m = [is |-> "new", fds |-> {f}] \/ (m = all_numbers /\ u = fds[f])

\* What u is sent when the connection fds[f] has been accepted.
LEMMA AnnouncedFacts ==
    ASSUME clients \in Seq(UserFd), NEW f \in UserFd,
           NEW fds \in [UserFd -> User \cup {Nobody}], NEW u \in User,
           NEW a, a = Announced(f, fds)[u]
    PROVE  /\ a \in Told
           /\ \A j \in DOMAIN a : IsAnnounced(a[j], f, fds, u)
           /\ u # fds[f] /\ Indices(u, fds) = {} => a = <<>>
           /\ u # fds[f] /\ Indices(u, fds) # {} => Len(a) > 0
           /\ u = fds[f] /\ clients # <<>> => Len(a) > 0 /\ a[Len(a)] = all_numbers
  <1> DEFINE it == [is |-> "new", fds |-> {f}]
             ks == Indices(u, fds)
             last == IF u = fds[f] /\ clients # <<>> THEN <<all_numbers>> ELSE <<>>
  <1>1. Announced(f, fds)[u] = OncePer(ks, it) \o last
    BY DEF Announced
  <1>2. it \in News /\ all_numbers \in News
    <2>1. {clients[k] : k \in DOMAIN clients} \subseteq UserFd
      OBVIOUS
    <2> QED BY <2>1 DEF News, all_numbers
  <1>3. ks \in SUBSET (1..Len(clients)) /\ Cardinality({}) = 0
    BY FS_EmptySet DEF Indices
  <1>4. last \in Told /\ Len(last) \in {0, 1}
        /\ (u = fds[f] /\ clients # <<>> => Len(last) = 1 /\ last[1] = all_numbers)
        /\ (u # fds[f] => last = <<>>)
        /\ \A j \in DOMAIN last : last[j] = all_numbers /\ u = fds[f]
    <2> HIDE DEF it, ks
    <2>1. <<all_numbers>> \in Told /\ <<>> \in Told
      BY <1>2 DEF Told
    <2> QED BY <2>1
  <1> HIDE DEF it, ks, last
  <1> DEFINE s == OncePer(ks, it)
  <1>5. /\ s \in Told /\ Len(s) \in Nat /\ (ks # {} => Len(s) > 0)
        /\ \A j \in DOMAIN s : s[j] = it
        /\ Len(s) = Cardinality(ks)
    BY <1>2, <1>3, OncePerIs
  <1> HIDE DEF s
  <1>6. s = <<>> \/ ks # {}
    <2>1. CASE ks = {}
      <3>1. Len(s) = 0
        BY <1>3, <1>5, <2>1
      <3> QED BY <1>5, <3>1, JoinTypes
    <2> QED BY <2>1
  <1>7. /\ s \o last \in Told /\ Len(s \o last) = Len(s) + Len(last)
        /\ DOMAIN (s \o last) = 1..(Len(s) + Len(last))
        /\ \A j \in 1..Len(s) : (s \o last)[j] = s[j] /\ j \in DOMAIN s
        /\ \A j \in 1..(Len(s) + Len(last)) :
              j > Len(s) => (s \o last)[j] = last[j - Len(s)] /\ j - Len(s) \in DOMAIN last
    <2>1. last \in Told /\ s \in Told
      BY <1>4, <1>5
    <2>2. ASSUME NEW j \in 1..(Len(s) + Len(last)), j > Len(s)
          PROVE  j - Len(s) \in DOMAIN last
      BY <2>1, <2>2, JoinTypes
    <2> QED BY <2>1, <2>2, JoinTypes
  <1>8. \A j \in DOMAIN (s \o last) :
            (s \o last)[j] = it \/ ((s \o last)[j] = all_numbers /\ u = fds[f])
    <2> SUFFICES ASSUME NEW j \in DOMAIN (s \o last)
                 PROVE  (s \o last)[j] = it \/ ((s \o last)[j] = all_numbers /\ u = fds[f])
      OBVIOUS
    <2>1. j \in 1..(Len(s) + Len(last)) /\ (j \in 1..Len(s) \/ j > Len(s))
      BY <1>4, <1>5, <1>7
    <2> QED BY <1>4, <1>5, <1>7, <2>1
  <1>9. ASSUME u # fds[f] PROVE s \o last = s
    <2>1. last = <<>>
      BY <1>4, <1>9
    <2> QED BY <1>5, <2>1 DEF Told
  <1>10. ASSUME u = fds[f], clients # <<>>
         PROVE  Len(s \o last) > 0 /\ (s \o last)[Len(s \o last)] = all_numbers
    <2>1. last \in Told /\ s \in Told /\ Len(last) = 1 /\ last[1] = all_numbers
      BY <1>4, <1>5, <1>10
    <2>2. Len(last) > 0
      BY <2>1
    <2> QED BY <2>1, <2>2, LastOfBoth
  <1>11. Announced(f, fds)[u] = s \o last
    BY <1>1 DEF s
  <1>13. /\ a \in Told
         /\ \A j \in DOMAIN a : a[j] = it \/ (a[j] = all_numbers /\ u = fds[f])
         /\ u # fds[f] /\ ks = {} => a = <<>>
         /\ u # fds[f] /\ ks # {} => Len(a) > 0
         /\ u = fds[f] /\ clients # <<>> => Len(a) > 0 /\ a[Len(a)] = all_numbers
    BY <1>5, <1>6, <1>7, <1>8, <1>9, <1>10, <1>11
  <1> QED BY <1>13 DEF it, ks, IsAnnounced

LEMMA JoinKeeps == ASSUME ChatInv, chat = "run", AcceptChat PROVE ChatInv'
  <1>1. ChatTypeOK /\ Reached /\ Lines /\ Found /\ Meant /\ Agree
    BY DEF ChatInv
  <1> DEFINE u0 == Head(backlog)
  <1>2. PICK f \in UserFd :
          /\ at_fd[f] = Nobody
          /\ at_fd' = [at_fd EXCEPT ![f] = u0]
          /\ read_fds' = read_fds \cup {f}
          /\ \/ clients' = Append(clients, f) /\ Len(clients) < Room
                /\ SendAll(Announced(f, at_fd'))
             \/ chat' = "undefined" /\ clients' = clients /\ told' = told /\ line' = line
    BY DEF AcceptChat
  <1>3. /\ sockfd \in tmp_fds /\ tmp_fds' = tmp_fds \ {sockfd}
        /\ backlog' = Tail(backlog) /\ up' = up /\ typed' = typed
    BY DEF AcceptChat, TurnOf
  <1>4. /\ backlog \in Seq(User) /\ backlog # <<>> /\ u0 \in User /\ Len(backlog) \in Nat
        /\ Len(backlog) > 0 /\ u0 = backlog[1] /\ DOMAIN backlog = 1..Len(backlog)
        /\ backlog' \in Seq(User) /\ DOMAIN backlog' = 1..(Len(backlog) - 1)
        /\ \A k \in DOMAIN backlog' : backlog'[k] = backlog[k + 1] /\ k + 1 \in DOMAIN backlog
    BY <1>1, <1>3 DEF ChatTypeOK, Found
  <1>5. told[u0] = <<>> /\ \A g \in UserFd : at_fd[g] # u0
    BY <1>1, <1>4 DEF Lines
  <1> HIDE DEF u0
  <1>6. /\ at_fd \in [UserFd -> User \cup {Nobody}] /\ at_fd' \in [UserFd -> User \cup {Nobody}]
        /\ at_fd'[f] = u0 /\ \A g \in UserFd : g # f => at_fd'[g] = at_fd[g]
    BY <1>1, <1>2, <1>4 DEF ChatTypeOK
  <1>7. PICK fds \in [UserFd -> User \cup {Nobody}] : fds = at_fd'
    BY <1>6
  <1> DEFINE out == Announced(f, fds)
  <1>8. clients \in Seq(UserFd) /\ DOMAIN clients = 1..Len(clients) /\ Len(clients) \in Nat
    BY <1>1 DEF ChatTypeOK
  <1>9. out \in [User -> Told]
    <2>1. \A v \in User : out[v] \in Told
      <3> SUFFICES ASSUME NEW v \in User PROVE out[v] \in Told
        OBVIOUS
      <3>1. PICK a : a = out[v]
        OBVIOUS
      <3>2. a \in Told
        BY <1>8, <3>1, AnnouncedFacts
      <3> QED BY <3>1, <3>2
    <2> QED BY <2>1 DEF Announced
  <1> HIDE DEF out
  <1>10. /\ told' \in [User -> Told] /\ line' \in [User -> {"none", "open", "fin", "rst", "sent"}]
         /\ chat' \in {"run", "died", "undefined"}
         /\ \A v \in User : /\ Ended(v)' <=> Ended(v)
                            /\ line'[v] = "none" <=> line[v] = "none"
         /\ chat' = "run" => /\ \A v \in User : told'[v] = told[v] \o out[v]
                             /\ clients' = Append(clients, f)
         /\ chat' # "run" => told' = told
    <2>1. CASE chat' = "undefined" /\ told' = told /\ line' = line
      BY <1>1, <2>1 DEF ChatTypeOK, Told, Ended
    <2>2. CASE clients' = Append(clients, f) /\ SendAll(out)
      BY <1>1, <1>9, <2>2, Sends
    <2> QED BY <1>2, <1>7, <2>1, <2>2 DEF out
  <1>11. ChatTypeOK'
    <2>1. clients' \in Seq(UserFd) /\ Len(clients') <= Room
      <3>1. Len(clients) <= Room /\ Room \in Nat
        BY <1>1 DEF ChatTypeOK, ChatAssumption
      <3>2. clients' = clients \/ (Len(clients) < Room /\ clients' = Append(clients, f))
        BY <1>2
      <3> QED BY <1>8, <3>1, <3>2
    <2>2. tmp_fds' \subseteq read_fds' /\ read_fds' \subseteq UserFd \cup {sockfd}
      BY <1>1, <1>2, <1>3 DEF ChatTypeOK
    <2> QED BY <1>1, <1>3, <1>4, <1>6, <1>10, <2>1, <2>2 DEF ChatTypeOK, Told
  <1> DEFINE new == [is |-> "new", fds |-> {f}]
  <1>12. \A v \in User : \A j \in DOMAIN out[v] :
             out[v][j] = new \/ (out[v][j] = all_numbers /\ v = u0)
    <2> SUFFICES ASSUME NEW v \in User
                 PROVE  \A j \in DOMAIN out[v] :
                            out[v][j] = new \/ (out[v][j] = all_numbers /\ v = u0)
      OBVIOUS
    <2>1. PICK a : a = Announced(f, fds)[v]
      OBVIOUS
    <2>2. \A j \in DOMAIN a : IsAnnounced(a[j], f, fds, v)
      BY <1>8, <2>1, AnnouncedFacts
    <2>3. out[v] = a /\ fds[f] = u0
      BY <1>6, <1>7, <2>1 DEF out
    <2> QED BY <2>2, <2>3 DEF IsAnnounced
  <1>15. ASSUME NEW v \in User
         PROVE  /\ v # u0 /\ Indices(v, fds) = {} => out[v] = <<>>
                /\ v # u0 /\ Indices(v, fds) # {} => Len(out[v]) > 0
                /\ v = u0 /\ clients # <<>> =>
                      Len(out[v]) > 0 /\ out[v][Len(out[v])] = all_numbers
    <2>1. fds[f] = u0
      BY <1>6, <1>7
    <2>2. PICK a : a = Announced(f, fds)[v]
      OBVIOUS
    <2>3. /\ v # fds[f] /\ Indices(v, fds) = {} => a = <<>>
          /\ v # fds[f] /\ Indices(v, fds) # {} => Len(a) > 0
          /\ v = fds[f] /\ clients # <<>> => Len(a) > 0 /\ a[Len(a)] = all_numbers
      BY <1>8, <2>2, AnnouncedFacts
    <2>4. out[v] = a
      BY <2>2 DEF out
    <2> QED BY <2>1, <2>3, <2>4
  <1>13. Reached'
    <2>1. CASE chat' # "run"
      BY <1>1, <1>10, <2>1, ReachedStays
    <2>2. CASE chat' = "run"
      <3>1. new.is = "new" /\ all_numbers.is = "list"
        BY DEF all_numbers
      <3> HIDE DEF new
      <3>2. \A v \in User : \A j \in DOMAIN out[v] : out[v][j].is # "text"
        BY <1>12, <3>1
      <3>3. \A v \in User : \A j \in DOMAIN out[v] : SaidRight(out[v][j], v)
        BY <3>2 DEF SaidRight
      <3> QED BY <1>1, <1>9, <1>10, <2>2, <3>3, ReachedGrows
    <2> QED BY <2>1, <2>2
  <1>14. ASSUME chat' = "run" PROVE Lines' /\ Found' /\ Meant' /\ Agree'
    <2>1. /\ clients' = Append(clients, f) /\ DOMAIN clients' = 1..(Len(clients) + 1)
          /\ clients'[Len(clients) + 1] = f
          /\ \A k \in DOMAIN clients : clients'[k] = clients[k] /\ k \in DOMAIN clients'
      BY <1>8, <1>10, <1>14
    <2>2. ASSUME NEW v \in User, v # u0, \A g \in UserFd : at_fd[g] # v
          PROVE  told'[v] = told[v] /\ \A g \in UserFd : at_fd'[g] # v
      <3>1. \A g \in UserFd : fds[g] # v
        BY <1>6, <1>7, <2>2
      <3>2. out[v] = <<>>
        BY <1>8, <1>15, <2>2, <3>1, NoIndices
      <3>3. told[v] \o <<>> = told[v]
        BY <1>1 DEF ChatTypeOK
      <3> QED BY <1>7, <1>10, <1>14, <3>1, <3>2, <3>3
    <2>3. Lines'
      <3>1. \A k \in DOMAIN backlog' : backlog'[k] # u0
        <4> SUFFICES ASSUME NEW k \in DOMAIN backlog' PROVE backlog'[k] # u0
          OBVIOUS
        <4>1. k + 1 # 1 /\ k + 1 \in DOMAIN backlog /\ 1 \in DOMAIN backlog
          BY <1>4
        <4>2. backlog[k + 1] # backlog[1]
          BY <1>1, <4>1 DEF Lines
        <4> QED BY <1>4, <4>2
      <3>2. \A k \in DOMAIN backlog' : /\ told'[backlog'[k]] = <<>>
                                       /\ \A g \in UserFd : at_fd'[g] # backlog'[k]
        <4> SUFFICES ASSUME NEW k \in DOMAIN backlog'
                     PROVE  /\ told'[backlog'[k]] = <<>>
                            /\ \A g \in UserFd : at_fd'[g] # backlog'[k]
          OBVIOUS
        <4>1. PICK v \in User : v = backlog'[k] /\ v = backlog[k + 1] /\ k + 1 \in DOMAIN backlog
          BY <1>4
        <4>2. /\ told[backlog[k + 1]] = <<>>
              /\ \A g \in UserFd : at_fd[g] # backlog[k + 1]
          <5>1. \A i \in DOMAIN backlog : /\ told[backlog[i]] = <<>>
                                          /\ \A g \in UserFd : at_fd[g] # backlog[i]
            BY <1>1 DEF Lines
          <5> QED BY <4>1, <5>1
        <4>3. v # u0 /\ told[v] = <<>> /\ \A g \in UserFd : at_fd[g] # v
          BY <3>1, <4>1, <4>2
        <4> QED BY <2>2, <4>1, <4>3
      <3>3. ASSUME NEW v \in User, line'[v] = "none"
            PROVE  /\ told'[v] = <<>> /\ \A g \in UserFd : at_fd'[g] # v
                   /\ \A k \in DOMAIN backlog' : backlog'[k] # v
        <4>1. /\ told[v] = <<>> /\ \A g \in UserFd : at_fd[g] # v
              /\ \A k \in DOMAIN backlog : backlog[k] # v
          BY <1>1, <1>10, <3>3 DEF Lines
        <4>2. v # u0
          BY <1>4, <4>1
        <4> QED BY <1>4, <2>2, <4>1, <4>2
      <3>4. \A g, h \in UserFd : at_fd'[g] = at_fd'[h] /\ at_fd'[g] # Nobody => g = h
        BY <1>1, <1>5, <1>6 DEF Lines
      <3>5. \A g \in UserFd : at_fd'[g] # Nobody <=> g \in read_fds'
        BY <1>1, <1>2, <1>4, <1>6, ChatNumbers DEF Lines
      <3>6. ASSUME NEW g \in UserFd, at_fd'[g] # Nobody
            PROVE  \E k \in DOMAIN clients' : clients'[k] = g
        <4>1. CASE g = f
          <5>1. Len(clients) + 1 \in DOMAIN clients'
            BY <1>8, <2>1
          <5> QED BY <2>1, <4>1, <5>1
        <4>2. CASE g # f
          <5>1. PICK k \in DOMAIN clients : clients[k] = g
            BY <1>1, <1>6, <3>6, <4>2 DEF Lines
          <5> QED BY <2>1, <5>1
        <4> QED BY <4>1, <4>2
      <3>7. \A j, k \in DOMAIN backlog' : backlog'[j] = backlog'[k] => j = k
        <4> SUFFICES ASSUME NEW j \in DOMAIN backlog', NEW k \in DOMAIN backlog',
                            backlog'[j] = backlog'[k]
                     PROVE  j = k
          OBVIOUS
        <4>1. j + 1 = k + 1
          BY <1>1, <1>4 DEF Lines
        <4> QED BY <1>4, <4>1
      <3> QED BY <3>2, <3>3, <3>4, <3>5, <3>6, <3>7 DEF Lines
    <2>4. Found'
      <3>1. \A g \in tmp_fds' \cap UserFd : at_fd'[g] = at_fd[g] /\ at_fd[g] \in User
        BY <1>1, <1>2, <1>3, <1>6 DEF ChatTypeOK, Lines
      <3>2. sockfd \notin tmp_fds'
        BY <1>3
      <3>3. \A g \in tmp_fds' \cap UserFd :
                up'[at_fd'[g]] # <<>> \/ line'[at_fd'[g]] \in {"fin", "rst", "sent"}
        BY <1>1, <1>3, <1>10, <3>1 DEF Found, Ended
      <3> QED BY <3>2, <3>3 DEF Found, Ended
    <2>5. Meant'
      <3> SUFFICES ASSUME NEW v \in User, NEW k \in DOMAIN up[v]
                   PROVE  \/ up[v][k].dest = NoNumber \/ up[v][k].for = Nobody
                          \/ at_fd'[up[v][k].dest] = up[v][k].for
                          \/ line'[up[v][k].for] \in {"fin", "rst", "sent"}
        BY <1>3 DEF Meant, Ended
      <3>1. up[v][k].for \in User \cup {Nobody} /\ up[v][k].dest \in UserFd \cup {NoNumber}
        BY <1>1, LineTypes
      <3>2. \/ up[v][k].dest = NoNumber \/ up[v][k].for = Nobody
            \/ at_fd[up[v][k].dest] = up[v][k].for \/ Ended(up[v][k].for)
        BY <1>1 DEF Meant
      <3> QED BY <1>2, <1>6, <1>10, <3>1, <3>2 DEF Ended
    <2>6. Agree'
      <3> SUFFICES ASSUME NEW h \in UserFd, NEW g \in UserFd, at_fd'[h] # Nobody, h # g
                   PROVE  /\ at_fd'[g] # Nobody => Known(told'[at_fd'[h]], g)
                          /\ StillNew(told'[at_fd'[h]], g) =>
                                \/ at_fd'[g] # Nobody
                                \/ g + 1 \in DOMAIN clients' /\ clients'[g + 1] = h
        BY DEF Agree
      <3>1. PICK w \in User : w = at_fd'[h]
        BY <1>6
      <3>2. PICK t : t = told'[w]
        OBVIOUS
      <3>3. /\ told[w] \in Told /\ out[w] \in Told /\ t = told[w] \o out[w]
        BY <1>1, <1>9, <1>10, <1>14, <3>2 DEF ChatTypeOK, Told
      <3>4. CASE h = f
        <4>1. w = u0 /\ told[w] = <<>> /\ g # f
          BY <1>5, <1>6, <3>1, <3>4
        <4>2. t = out[w]
          BY <3>3, <4>1 DEF Told
        <4>3. ASSUME at_fd'[g] # Nobody PROVE Known(t, g)
          <5>1. PICK k \in DOMAIN clients : clients[k] = g
            BY <1>1, <1>6, <4>1, <4>3 DEF Lines
          <5>2. clients # <<>>
            BY <1>8, <5>1
          <5>3. Len(out[w]) > 0 /\ out[w][Len(out[w])] = all_numbers
            BY <1>15, <4>1, <5>2
          <5>4. g \in all_numbers.fds /\ all_numbers.is = "list"
            BY <5>1 DEF all_numbers
          <5> QED BY <3>3, <4>2, <5>3, <5>4, LastWord
        <4>4. ~StillNew(t, g)
          <5>1. About(t, {"new"}, g) = {}
            <6> SUFFICES ASSUME NEW j \in DOMAIN t, t[j].is = "new", g \in t[j].fds PROVE FALSE
              BY DEF About
            <6>1. t[j] = new \/ t[j] = all_numbers
              BY <1>12, <4>2
            <6> QED BY <4>1, <6>1 DEF all_numbers
          <5> QED BY <5>1 DEF StillNew
        <4> QED BY <3>1, <3>2, <4>3, <4>4
      <3>5. CASE h # f
        <4>1. w = at_fd[h] /\ at_fd[h] # Nobody /\ w # u0
          BY <1>5, <1>6, <3>1, <3>5
        <4>2. \A j \in DOMAIN out[w] : out[w][j] = new
          BY <1>12, <4>1
        <4>3. CASE g = f
          <5>1. PICK k \in DOMAIN clients : clients[k] = h
            BY <1>1, <4>1 DEF Lines
          <5>2. k \in Indices(w, fds)
            BY <1>7, <3>1, <5>1 DEF Indices
          <5>3. Len(out[w]) > 0
            BY <1>15, <4>1, <5>2
          <5>4. /\ t \in Told /\ Len(t) > 0 /\ Len(out[w]) \in DOMAIN out[w]
                /\ t[Len(t)] = out[w][Len(out[w])]
            BY <3>3, <5>3, LastOfBoth
          <5>5. t[Len(t)] = new
            BY <4>2, <5>4
          <5>6. Known(t, g)
            BY <4>3, <5>4, <5>5, LastWord
          <5>7. at_fd'[g] # Nobody
            BY <1>4, <1>6, <4>3, ChatNumbers
          <5> QED BY <3>1, <3>2, <5>6, <5>7
        <4>4. CASE g # f
          <5>1. \A j \in DOMAIN out[w] : out[w][j].is = "text" \/ g \notin out[w][j].fds
            BY <4>2, <4>4
          <5>2. /\ Known(t, g) <=> Known(told[w], g)
                /\ StillNew(t, g) <=> StillNew(told[w], g)
            BY <3>3, <5>1, Unmentioned
          <5>3. at_fd'[g] = at_fd[g]
            BY <1>6, <4>4
          <5>4. /\ at_fd[g] # Nobody => Known(told[w], g)
                /\ StillNew(told[w], g) =>
                      at_fd[g] # Nobody \/ (g + 1 \in DOMAIN clients /\ clients[g + 1] = h)
            BY <1>1, <4>1 DEF Agree
          <5> QED BY <2>1, <3>1, <3>2, <5>2, <5>3, <5>4
        <4> QED BY <4>3, <4>4
      <3> QED BY <3>4, <3>5
    <2> QED BY <2>3, <2>4, <2>5, <2>6
  <1> QED BY <1>11, <1>13, <1>14 DEF ChatInv

-----------------------------------------------------------------------------

LEMMA ChatInvStep == ChatInv /\ [ChatNext]_chat_vars => ChatInv'
  <1> SUFFICES ASSUME ChatInv, [ChatNext]_chat_vars PROVE ChatInv'
    OBVIOUS
  <1>1. CASE UNCHANGED chat_vars
    BY <1>1 DEF chat_vars, ChatInv, ChatTypeOK, Reached, SaidRight, Lines, Found, Meant, Agree,
                Ended
  <1>2. CASE ChatNext
    BY <1>2, DialKeeps, HangUpKeeps, TypeKeeps, SelectKeeps, RelayKeeps, CloseKeeps, JoinKeeps
       DEF ChatNext, ChatServer
  <1> QED BY <1>1, <1>2

\* The variables keep their types, every client in the array has been told what it goes
\* by, and a line on its way is for whoever has its number.
THEOREM ChatInvHolds == ChatSpec => []ChatInv
  BY ChatInvInit, ChatInvStep, PTL DEF ChatSpec

LEMMA ChatInvIsEnough == ChatInv => NumbersHold
  <1> SUFFICES ASSUME ChatInv PROVE NumbersHold
    OBVIOUS
  <1>1. NumbersAgree
    <2>1. ASSUME chat = "run" PROVE Agree /\ at_fd \in [UserFd -> User \cup {Nobody}]
      BY <2>1 DEF ChatInv, ChatTypeOK
    <2> QED BY <2>1 DEF NumbersAgree, Numbers, Agree, Known, StillNew, About
  <1>2. ReachesItsReader
    BY DEF ChatInv, Reached, SaidRight, ReachesItsReader
  <1> QED BY <1>1, <1>2 DEF NumbersHold

\* However connections come and go and numbers are reused: whoever is connected knows
\* everyone else's number, a number it was told of is somebody's unless its own place in
\* the array kept it from hearing of the end, and lines go where they were meant to.
THEOREM NumbersStayRight == ChatSpec => []NumbersHold
  BY ChatInvHolds, ChatInvIsEnough, PTL

-----------------------------------------------------------------------------
\* Each of the seven programs keeps the types of its variables, at its own pace: none
\* touches what is another's.
THEOREM LabsTypes ==
    /\ StopAndWaitSpec /\ ProbeSpec /\ BackupSpec /\ EchoSpec
    /\ ChatSpec /\ HttpSpec /\ MailSpec
    => []LabsTypeOK
  <1>1. SWInv /\ ProbeInv /\ BackupInv /\ EchoInv /\ ChatInv /\ HttpInv /\ MailInv
        => LabsTypeOK
    BY DEF SWInv, ProbeInv, BackupInv, BackupBase, EchoInv, ChatInv, HttpInv, MailInv,
           LabsTypeOK
  <1> QED BY <1>1, SWInvHolds, ProbeInvHolds, BackupInvHolds, EchoInvHolds, ChatInvHolds,
             HttpInvHolds, MailInvHolds, PTL

=============================================================================
