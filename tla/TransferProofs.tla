--------------------------- MODULE TransferProofs ---------------------------
(* Proofs about Transfer, for every size of messages, files and windows, and *)
(* whatever the emulator does.                                               *)
EXTENDS Transfer, SequenceTheorems, TLAPS

USE TransferAssumption

-----------------------------------------------------------------------------
(* The invariant.                                                            *)

Header == {"warm", "warm_ack", "name", "name_ack", "size", "size_ack"}
Waits  == {"warm_ack", "name_ack", "size_ack", "body_ack"}

\* Messages that the sender may be ahead, and with the one it waits for.
Ahead ==
    CASE spc = "window" -> i
      [] spc \in {"body", "body_ack"} -> Window
      [] spc = "drain" -> Window - i
      [] OTHER -> 0
Owed == Ahead + (IF spc \in Waits THEN 1 ELSE 0)

\* Messages and replies under way.
UnderWay == Len(entry) + Len(transit) + (Len(exit) - taken) + acks

\* Replies the sender has read.
Acked == taken - acks

\* What is read of the file in n times.
Upto(n) == IF n * MSGSIZE < size THEN n * MSGSIZE ELSE IF size > 0 THEN size ELSE 0

\* What the sender's position says of replies and file.
SenderAt ==
    /\ spc \in {"warm", "warm_ack"} => Acked = warmed /\ warmed < COUNT
    /\ spc \in {"name", "name_ack"} => Acked = COUNT
    /\ spc \in {"size", "size_ack"} => Acked = COUNT + 1
    /\ IF spc \in Header THEN sent_size = 0 /\ i = 0
       ELSE /\ Acked + Ahead - (COUNT + 2) \in Nat
            /\ sent_size = Upto(Acked + Ahead - (COUNT + 2))
    /\ spc \notin Header => Acked >= COUNT + 2
    /\ spc \in {"window", "drain"} => i < Window
    /\ spc = "window" => Acked = COUNT + 2
    /\ spc = "body_ack" => sent_size < size
    /\ spc \in {"drain", "done"} => sent_size >= size
    /\ size = 0 => spc \in Header \cup {"crashed"}

\* What the receiver's position says of the messages taken.
ReceiverAt ==
    /\ rpc \in {"init", "warm"} => taken = echoed /\ echoed < COUNT
    /\ rpc = "init" => exit = <<>>
    /\ rpc = "name" => taken = COUNT
    /\ rpc = "size" => taken = COUNT + 1
    /\ rpc \in {"body", "done"} => taken >= COUNT + 2

\* What messages under way are.
Kind ==
    CASE spc \in {"warm", "warm_ack"} -> "warm"
      [] spc \in {"name", "name_ack"} -> "name"
      [] spc \in {"size", "size_ack"} -> "size"
      [] OTHER -> "data"

\* Nothing has been lost.
Whole == UnderWay = Owed

\* The j-th read; those at the end of the file are empty.
IsPart(x, j) == /\ x.len > 0 <=> (j - 1) * MSGSIZE < size
                /\ x.len > 0 => x.val = j

\* What the p-th message is.
Fits(x, p) ==
    /\ x.kind = Kind
    /\ Kind = "data" /\ Whole /\ p > COUNT + 2 => IsPart(x, p - (COUNT + 2))

Stream ==
    /\ UnderWay <= Owed
    /\ \A k \in 1..Len(exit) : k > taken => Fits(exit[k], k)
    /\ \A k \in 1..Len(transit) : Fits(transit[k], Len(exit) + k)
    /\ \A k \in 1..Len(entry) : Fits(entry[k], Len(exit) + Len(transit) + k)

\* A loss with one message under way leaves both programs waiting for ever.
Careful == "loss" \notin emulator \/ Window <= 0
Stuck   == spc \in Waits /\ UnderWay = 0

Filed ==
    /\ Careful => Whole \/ Stuck
    /\ Careful \/ Whole => \A k \in 1..Len(file) : file[k].val = k
    /\ Whole => Len(file) = IF taken <= COUNT + 2 THEN 0
                            ELSE IF taken - (COUNT + 2) < Chunks
                                 THEN taken - (COUNT + 2) ELSE Chunks
    /\ rpc \in {"init", "warm", "name", "size"} => file = <<>>

TInv == TypeOK /\ SenderAt /\ ReceiverAt /\ Stream /\ Filed

-----------------------------------------------------------------------------
(* Numbers.                                                                  *)

LEMMA SizeFacts ==
    ASSUME TypeOK
    PROVE  /\ size \in Int /\ size >= -1 /\ count \in Nat
           /\ MaxSize \in Int /\ size <= MaxSize
           /\ Window \in Nat /\ (size <= 0 => Window = 0)
  <1>1. size \in Int /\ size >= -1 /\ count \in Nat /\ size \in Sizes
    BY DEF TypeOK
  <1>2. MaxSize \in Sizes \cup {0} /\ \A y \in Sizes : y <= MaxSize
    BY DEF MaxSize
  <1>3. \A y \in Sizes : y \in Int
    OBVIOUS
  <1>4. MaxSize \in Int /\ size <= MaxSize
    BY <1>1, <1>2, <1>3
  <1>5. Window \in Nat
    <2>1. CASE size <= 0
      BY <1>1, <2>1 DEF Window
    <2>2. CASE size > 0
      <3>1. count * Scale \in Nat /\ 8 * size \in Nat /\ 8 * size > 0
        BY <1>1, <2>2
      <3>2. \A a \in Nat, b \in Nat : b > 0 => a \div b \in Nat
        OBVIOUS
      <3> QED BY <1>1, <2>2, <3>1, <3>2 DEF Window
    <2> QED BY <1>1, <2>1, <2>2
  <1> QED BY <1>1, <1>4, <1>5 DEF Window

\* A product with a greater factor is greater.
LEMMA Steps ==
    ASSUME NEW j \in Nat, NEW n \in Nat
    PROVE  /\ j * MSGSIZE \in Nat /\ (j + 1) * MSGSIZE = j * MSGSIZE + MSGSIZE
           /\ j <= n => j * MSGSIZE <= n * MSGSIZE
  <1>1. j * MSGSIZE \in Nat /\ (j + 1) * MSGSIZE = j * MSGSIZE + MSGSIZE
    OBVIOUS
  <1>2. ASSUME j <= n PROVE j * MSGSIZE <= n * MSGSIZE
    <2>1. (n - j) * MSGSIZE \in Nat
      BY <1>2
    <2>2. (n - j) * MSGSIZE = n * MSGSIZE - j * MSGSIZE
      OBVIOUS
    <2> QED BY <2>1, <2>2, <1>1, n * MSGSIZE \in Nat
  <1> QED BY <1>1, <1>2

\* The chunks of the file are the reads that begin before its end.
LEMMA ChunksAre ==
    ASSUME TypeOK, size > 0, NEW j \in Nat
    PROVE  Chunks \in Nat /\ (j < Chunks <=> j * MSGSIZE < size)
  <1>1. size \in Nat /\ Chunks = (size + MSGSIZE - 1) \div MSGSIZE
    BY SizeFacts DEF Chunks
  <1> DEFINE q == (size + MSGSIZE - 1) \div MSGSIZE
  <1>2. q \in Nat /\ MSGSIZE * q <= size + MSGSIZE - 1
        /\ size + MSGSIZE - 1 < MSGSIZE * q + MSGSIZE
    BY <1>1
  <1> HIDE DEF q
  <1>3. q * MSGSIZE = MSGSIZE * q
    BY <1>2
  <1>4. ASSUME j < q PROVE j * MSGSIZE < size
    <2>1. (j + 1) * MSGSIZE <= q * MSGSIZE /\ (j + 1) * MSGSIZE = j * MSGSIZE + MSGSIZE
      BY <1>2, <1>4, Steps, j + 1 \in Nat, j + 1 <= q
    <2> QED BY <1>1, <1>2, <1>3, <2>1, j * MSGSIZE \in Nat
  <1>5. ASSUME ~(j < q) PROVE ~(j * MSGSIZE < size)
    <2>1. q * MSGSIZE <= j * MSGSIZE
      BY <1>2, <1>5, Steps
    <2> QED BY <1>1, <1>2, <1>3, <2>1, j * MSGSIZE \in Nat
  <1> QED BY <1>1, <1>2, <1>4, <1>5 DEF q

\* The next read goes to the next chunk, and to the end of the file after it.
LEMMA NextRead ==
    ASSUME TypeOK, NEW n \in Nat, sent_size = Upto(n), size > 0
    PROVE  /\ fp2 \in 0..MSGSIZE /\ sent_size + fp2 = Upto(n + 1)
           /\ (fp2 > 0 <=> n * MSGSIZE < size)
           /\ (n * MSGSIZE < size => sent_size \div MSGSIZE = n)
           /\ sent_size <= size /\ sent_size \in Nat
  <1>1. size \in Nat /\ n * MSGSIZE \in Nat /\ MSGSIZE \in Nat /\ MSGSIZE > 0
        /\ (n + 1) * MSGSIZE = n * MSGSIZE + MSGSIZE
    BY SizeFacts, Steps
  <1>2. CASE n * MSGSIZE < size
    <2>1. sent_size = n * MSGSIZE
      BY <1>2 DEF Upto
    <2>2. (n * MSGSIZE) \div MSGSIZE = n
      OBVIOUS
    <2>3. fp2 \in 0..MSGSIZE /\ fp2 > 0
      BY <1>1, <1>2, <2>1 DEF fp2
    <2>4. sent_size + fp2 = Upto(n + 1)
      BY <1>1, <1>2, <2>1 DEF fp2, Upto
    <2> QED BY <1>1, <1>2, <2>1, <2>2, <2>3, <2>4
  <1>3. CASE ~(n * MSGSIZE < size)
    <2>1. sent_size = size
      BY <1>3 DEF Upto
    <2>2. fp2 = 0
      BY <1>1, <2>1 DEF fp2
    <2> QED BY <1>1, <1>3, <2>1, <2>2 DEF Upto
  <1> QED BY <1>2, <1>3

-----------------------------------------------------------------------------
(* Messages and queues.                                                      *)

LEMMA MessageFacts ==
    ASSUME TypeOK
    PROVE  /\ text("warm", 0, MSGSIZE) \in Message
           /\ text("name", 0, MSGSIZE) \in Message
           /\ text("size", size, 1) \in Message
           /\ \A x \in Message : x.len \in Nat /\ x.val \in Int
           /\ \A v \in 1..MaxSize + 1, n \in 0..MSGSIZE : text("data", v, n) \in Message
  BY SizeFacts DEF text, Message

\* Damage leaves the kind of a message alone, its length, and what chunk it is.
LEMMA DamageFacts ==
    ASSUME TypeOK, NEW x \in Message, NEW y \in damaged(x)
    PROVE  /\ y \in Message /\ y.kind = x.kind /\ y.len = x.len /\ ~y.ok
           /\ x.kind = "data" => y.val = x.val
  <1>1. CASE x.kind = "size"
    <2>1. PICK v \in -1..MaxSize + 1 : y = [x EXCEPT !.val = v, !.ok = FALSE]
      BY <1>1 DEF damaged
    <2>2. x \in [kind : {"size"}, val : -1..MaxSize + 1, len : {1}, ok : BOOLEAN]
      BY <1>1 DEF Message
    <2>3. y \in [kind : {"size"}, val : -1..MaxSize + 1, len : {1}, ok : BOOLEAN]
      BY <2>1, <2>2
    <2>4. y.kind = x.kind /\ y.len = x.len /\ ~y.ok
      BY <2>1, <2>2
    <2> QED BY <1>1, <2>3, <2>4 DEF Message
  <1>2. CASE x.kind # "size"
    <2>1. y = [x EXCEPT !.ok = FALSE]
      BY <1>2 DEF damaged
    <2> QED BY <1>2, <2>1 DEF Message
  <1> QED BY <1>1, <1>2

\* Taking the first message and adding a last one.
LEMMA QueueFacts ==
    ASSUME NEW S, NEW q \in Seq(S), NEW x \in S
    PROVE  /\ Len(q) \in Nat
           /\ Append(q, x) \in Seq(S) /\ Len(Append(q, x)) = Len(q) + 1
           /\ \A k \in 1..Len(Append(q, x)) :
                Append(q, x)[k] = IF k <= Len(q) THEN q[k] ELSE x
           /\ q # <<>> => /\ Len(q) > 0 /\ Head(q) = q[1] /\ Head(q) \in S
                          /\ Tail(q) \in Seq(S) /\ Len(Tail(q)) = Len(q) - 1
                          /\ \A k \in 1..Len(Tail(q)) : Tail(q)[k] = q[k + 1]
  OBVIOUS

LEMMA NumberTypes ==
    ASSUME TypeOK
    PROVE  /\ Len(entry) \in Nat /\ Len(transit) \in Nat /\ Len(exit) \in Nat
           /\ taken \in Nat /\ taken <= Len(exit) /\ acks \in Nat
           /\ UnderWay \in Nat /\ Acked \in Int /\ Ahead \in Int /\ Owed \in Int
           /\ Owed = IF spc \in Waits THEN Ahead + 1 ELSE Ahead
           /\ UnderWay = Len(entry) + Len(transit) + Len(exit) - Acked
  <1>1. /\ Len(entry) \in Nat /\ Len(transit) \in Nat /\ Len(exit) \in Nat
        /\ taken \in Nat /\ taken <= Len(exit) /\ acks \in Nat
    BY DEF TypeOK
  <1>2. Ahead \in Int
    <2>1. Window \in Int /\ i \in Int
      BY SizeFacts DEF TypeOK
    <2> QED BY <2>1 DEF Ahead
  <1>3. Owed \in Int /\ Owed = IF spc \in Waits THEN Ahead + 1 ELSE Ahead
    BY <1>2 DEF Owed
  <1> QED BY <1>1, <1>2, <1>3 DEF UnderWay, Acked

-----------------------------------------------------------------------------
(* What a step of the sender does to the stream.                             *)

\* One message more.
LEMMA PutPreserves ==
    ASSUME TInv, NEW x \in Message, x.kind = Kind, Kind' = Kind,
           entry' = Append(entry, x), spc \notin Waits, Owed' = Owed + 1,
           Acked + Owed + 1 > COUNT + 2 => IsPart(x, Acked + Owed + 1 - (COUNT + 2)),
           UNCHANGED <<size, count, emulator, rpc, echoed, rsize, received_size, file,
                       taken, acks, transit, exit>>
    PROVE  Stream' /\ Filed' /\ (Whole' <=> Whole)
  <1> USE DEF TInv
  <1>0. Len(entry) \in Nat /\ Len(transit) \in Nat /\ Len(exit) \in Nat
        /\ taken \in Nat /\ taken <= Len(exit) /\ acks \in Nat /\ UnderWay \in Nat
        /\ Acked \in Int /\ Owed \in Int
    BY NumberTypes
  <1>1. /\ Len(entry') = Len(entry) + 1
        /\ \A k \in 1..Len(entry') : entry'[k] = IF k <= Len(entry) THEN entry[k] ELSE x
    BY QueueFacts DEF TypeOK
  <1>2. UnderWay' = UnderWay + 1 /\ UnderWay \in Nat /\ Owed \in Int
    <2>1. Len(entry') = Len(entry) + 1 /\ UNCHANGED <<transit, exit, taken, acks>>
      BY <1>1
    <2> QED BY <1>0, <2>1 DEF UnderWay
  <1>3. Whole' <=> Whole
    BY <1>2 DEF Whole
  <1>4. \A y, p : Fits(y, p)' <=> Fits(y, p)
    BY <1>3 DEF Fits, IsPart
  <1>5. Whole => Len(exit) + Len(transit) + Len(entry) + 1 = Acked + Owed + 1
    BY SMTT(20), NumberTypes DEF Whole
  <1>6. Fits(x, Len(exit) + Len(transit) + Len(entry) + 1)
    <2>1. CASE Whole
      <3> DEFINE p == Len(exit) + Len(transit) + Len(entry) + 1
      <3>1. p = Acked + Owed + 1
        BY <1>5, <2>1
      <3>2. p > COUNT + 2 => IsPart(x, p - (COUNT + 2))
        <4> HIDE DEF p
        <4> QED BY <1>0, <3>1, Z3
      <3> QED BY <2>1, <3>2 DEF Fits
    <2>2. CASE ~Whole
      BY <2>2 DEF Fits
    <2> QED BY <2>1, <2>2
  <1>7. Stream'
    <2>1. UnderWay' <= Owed'
      BY <1>2 DEF Stream
    <2>2. \A k \in 1..Len(exit) : k > taken => Fits(exit[k], k)'
      BY <1>4 DEF Stream
    <2>3. \A k \in 1..Len(transit) : Fits(transit[k], Len(exit) + k)'
      BY <1>4 DEF Stream
    <2>4. ASSUME NEW k \in 1..Len(entry')
          PROVE  Fits(entry[k], Len(exit) + Len(transit) + k)'
      <3>0. Len(exit') = Len(exit) /\ Len(transit') = Len(transit)
        OBVIOUS
      <3>1. CASE k <= Len(entry)
        <4>1. k \in 1..Len(entry) /\ entry'[k] = entry[k]
          BY <1>1, <3>1, NumberTypes
        <4>2. Fits(entry'[k], Len(exit) + Len(transit) + k)
          BY <4>1 DEF Stream
        <4> QED BY <1>4, <3>0, <4>2
      <3>2. CASE k > Len(entry)
        <4>1. k = Len(entry) + 1 /\ entry'[k] = x
          BY <1>0, <1>1, <3>2
        <4>2. Len(exit) + Len(transit) + k = Len(exit) + Len(transit) + Len(entry) + 1
          BY <4>1, NumberTypes
        <4> QED BY <3>0, <4>1, <4>2, <1>4, <1>6
      <3> QED BY <1>0, <1>1, <3>1, <3>2
    <2> QED BY <2>1, <2>2, <2>3, <2>4 DEF Stream, Fits, Kind, Whole, IsPart
  <1>8. Filed'
    <2>1. Careful' <=> Careful
      BY DEF Careful, Window
    <2>2. Chunks' = Chunks
      BY DEF Chunks
    <2>3. ~Stuck
      BY DEF Stuck
    <2> QED BY <1>3, <2>1, <2>2, <2>3 DEF Filed
  <1> QED BY <1>3, <1>7, <1>8

\* One reply less, or none.
LEMMA AckPreserves ==
    ASSUME TInv, NEW d \in {0, 1}, acks' = acks - d, Owed' = Owed - d,
           IF d = 1 THEN acks > 0 ELSE spc \notin Waits,
           Kind' = Kind \/ Owed' = 0,
           UNCHANGED <<size, count, emulator, rpc, echoed, rsize, received_size, file,
                       taken, entry, transit, exit>>
    PROVE  Stream' /\ Filed' /\ (Whole' <=> Whole)
  <1> USE DEF TInv
  <1>0. Len(entry) \in Nat /\ Len(transit) \in Nat /\ Len(exit) \in Nat
        /\ taken \in Nat /\ taken <= Len(exit) /\ acks \in Nat /\ UnderWay \in Nat
        /\ Acked \in Int /\ Owed \in Int
    BY NumberTypes
  <1>1. UnderWay' = UnderWay - d /\ UnderWay \in Nat /\ Owed \in Int
    <2>1. acks' = acks - d /\ UNCHANGED <<entry, transit, exit, taken>> /\ d \in Int
      OBVIOUS
    <2> QED BY <1>0, <2>1 DEF UnderWay
  <1>2. Whole' <=> Whole
    BY <1>1 DEF Whole
  <1>3. ASSUME Kind' # Kind
        PROVE  Len(entry) = 0 /\ Len(transit) = 0 /\ Len(exit) = taken
    <2>1. UnderWay <= Owed /\ Owed - d = 0
      BY <1>3 DEF Stream
    <2>2. UnderWay <= d /\ acks >= d
      BY <1>0, <2>1
    <2> QED BY <1>0, <2>2 DEF UnderWay
  <1>4. \A y, p : Kind' = Kind => (Fits(y, p)' <=> Fits(y, p))
    BY <1>2 DEF Fits, IsPart
  <1>5. Stream'
    <2>1. UnderWay' <= Owed'
      BY <1>1 DEF Stream
    <2>2. \A k \in 1..Len(exit) : k > taken => Fits(exit[k], k)'
      BY <1>3, <1>4, NumberTypes DEF Stream
    <2>3. \A k \in 1..Len(transit) : Fits(transit[k], Len(exit) + k)'
      BY <1>3, <1>4 DEF Stream
    <2>4. \A k \in 1..Len(entry) : Fits(entry[k], Len(exit) + Len(transit) + k)'
      BY <1>3, <1>4 DEF Stream
    <2> QED BY <2>1, <2>2, <2>3, <2>4 DEF Stream, Fits, Kind, Whole, IsPart
  <1>6. Filed'
    <2>1. Careful' <=> Careful
      BY DEF Careful, Window
    <2>2. Chunks' = Chunks
      BY DEF Chunks
    <2>3. ~Stuck
      <3>1. CASE d = 1
        <4>1. acks > 0
          BY <3>1
        <4>2. UnderWay # 0
          BY ONLY <1>0, <4>1 DEF UnderWay
        <4> QED BY <4>2 DEF Stuck
      <3>2. CASE d = 0
        BY <3>2 DEF Stuck
      <3> QED BY <3>1, <3>2
    <2> QED BY <1>2, <2>1, <2>2, <2>3 DEF Filed
  <1> QED BY <1>2, <1>5, <1>6

-----------------------------------------------------------------------------
(* The sender.                                                               *)

\* What is unchanged when a message is put, or a reply read.
Others == <<size, count, emulator, rpc, echoed, rsize, received_size, file, taken,
            transit, exit>>

LEMMA PutTypes ==
    ASSUME TypeOK, NEW x \in Message, entry' = Append(entry, x), acks' = acks,
           UNCHANGED Others,
           spc' \in {"warm_ack", "name_ack", "size_ack", "window", "body", "body_ack"},
           warmed' = warmed, i' \in Nat, sent_size' \in Nat
    PROVE  TypeOK'
  <1>1. entry' \in Seq(Message)
    BY DEF TypeOK
  <1> QED BY <1>1 DEF TypeOK, Others

LEMMA ReplyTypes ==
    ASSUME TypeOK, acks' \in Nat, entry' = entry, UNCHANGED Others,
           spc' \in {"warm", "name", "size", "window", "body", "drain", "done", "crashed"},
           warmed' \in 0..COUNT, i' \in Nat, sent_size' \in Nat
    PROVE  TypeOK'
  BY DEF TypeOK, Others

LEMMA ReceiverStays ==
    ASSUME ReceiverAt, UNCHANGED Others
    PROVE  ReceiverAt'
  BY DEF ReceiverAt, Others

\* The messages before the file: each is waited for.
LEMMA HeaderPut ==
    ASSUME TInv, SendWarm \/ SendName \/ SendSize
    PROVE  TInv' /\ (Whole' <=> Whole)
  <1> USE DEF TInv
  <1> DEFINE x == IF spc = "warm" THEN text("warm", 0, MSGSIZE)
                  ELSE IF spc = "name" THEN text("name", 0, MSGSIZE)
                  ELSE text("size", size, 1)
  <1>1. /\ spc \in {"warm", "name", "size"}
        /\ spc' = IF spc = "warm" THEN "warm_ack"
                  ELSE IF spc = "name" THEN "name_ack" ELSE "size_ack"
        /\ entry' = Append(entry, x)
        /\ UNCHANGED <<warmed, i, sent_size, acks>> /\ UNCHANGED Others
    BY DEF SendWarm, SendName, SendSize, Put, Link!Put, run, receiver, Others
  <1>2. x \in Message /\ x.kind = spc
    BY <1>1, MessageFacts DEF text
  <1> HIDE DEF x
  <1>3. TypeOK'
    BY <1>1, <1>2, PutTypes DEF TypeOK
  <1>4. Acked' = Acked /\ Acked \in Int /\ Acked <= COUNT + 1
    BY <1>1, NumberTypes DEF Acked, Others, SenderAt, TypeOK
  <1>5. Ahead = 0 /\ Ahead' = 0 /\ Owed = 0 /\ Owed' = 1 /\ spc \notin Waits
    BY <1>1 DEF Ahead, Owed, Waits
  <1>6. SenderAt'
    BY <1>1, <1>4 DEF SenderAt, Header, Others
  <1>7. Kind' = Kind /\ x.kind = Kind
    BY <1>1, <1>2 DEF Kind
  <1>8. Stream' /\ Filed' /\ (Whole' <=> Whole)
    <2>1. ~(Acked + Owed + 1 > COUNT + 2)
      BY <1>4, <1>5
    <2> QED BY <1>1, <1>2, <1>5, <1>7, <2>1, PutPreserves DEF Others
  <1> QED BY <1>1, <1>3, <1>6, <1>8, ReceiverStays

LEMMA HeaderReply ==
    ASSUME TInv, WarmAck \/ NameAck \/ SizeAck
    PROVE  TInv' /\ (Whole' <=> Whole)
  <1> USE DEF TInv
  <1>1. /\ spc \in {"warm_ack", "name_ack", "size_ack"}
        /\ acks > 0 /\ acks' = acks - 1 /\ acks' \in Nat /\ acks \in Nat
        /\ entry' = entry
        /\ UNCHANGED <<i, sent_size>> /\ UNCHANGED Others
    BY NumberTypes
    DEF WarmAck, NameAck, SizeAck, Check, run, receiver, link, Others
  <1>2. /\ warmed' = IF spc = "warm_ack" THEN warmed + 1 ELSE warmed
        /\ spc' = IF spc = "warm_ack" THEN IF warmed + 1 = COUNT THEN "name" ELSE "warm"
                  ELSE IF spc = "name_ack" THEN "size"
                  ELSE IF size = 0 THEN "crashed"
                  ELSE IF 0 < Window THEN "window" ELSE "body"
    BY DEF WarmAck, NameAck, SizeAck, WarmedUp
  <1>3. /\ Acked' = Acked + 1 /\ Acked \in Int /\ size \in Int /\ Window \in Nat
        /\ warmed \in Nat /\ sent_size = 0 /\ i = 0
        /\ size' = size /\ Window' = Window
    BY <1>1, NumberTypes, SizeFacts
    DEF Acked, Others, SenderAt, Header, TypeOK, Window
  <1>4. TypeOK'
    <2>1. warmed' \in 0..COUNT
      BY <1>1, <1>2 DEF SenderAt, TypeOK
    <2>2. spc' \in {"warm", "name", "size", "window", "body", "drain", "done", "crashed"}
      BY <1>1, <1>2
    <2> QED BY <1>1, <2>1, <2>2, ReplyTypes DEF TypeOK
  <1>5. Ahead = 0 /\ Owed = 1
    BY <1>1 DEF Ahead, Owed, Waits
  <1>6. Ahead' = 0 /\ Owed' = 0
    BY <1>1, <1>2, <1>3 DEF Ahead, Owed, Waits
  <1>7. SenderAt'
    <2>1. CASE spc = "warm_ack"
      BY <1>1, <1>2, <1>3, <2>1 DEF SenderAt, Header
    <2>2. CASE spc = "name_ack"
      BY <1>1, <1>2, <1>3, <2>2 DEF SenderAt, Header
    <2>3. CASE spc = "size_ack"
      <3>1. Acked' = COUNT + 2 /\ Acked' + Ahead' - (COUNT + 2) = 0
        BY <1>3, <1>6, <2>3 DEF SenderAt
      <3>2. Upto(0)' = 0
        BY <1>3, 0 * MSGSIZE = 0 DEF Upto
      <3>3. spc' \in {"crashed", "window", "body"}
        BY <1>2, <2>3
      <3>4. Upto(Acked + Ahead - (COUNT + 2))' = 0
        BY <1>3, <3>1, 0 * MSGSIZE = 0 DEF Upto
      <3> QED BY <1>1, <1>2, <1>3, <2>3, <3>1, <3>3, <3>4 DEF SenderAt, Header
    <2> QED BY <1>1, <2>1, <2>2, <2>3
  <1>8. Stream' /\ Filed' /\ (Whole' <=> Whole)
    BY <1>1, <1>5, <1>6, AckPreserves, 1 \in {0, 1} DEF Others
  <1> QED BY <1>1, <1>4, <1>7, <1>8, ReceiverStays

\* The window, and the messages after it that are waited for.
LEMMA BodyPut ==
    ASSUME TInv, FillWindow \/ SendNext
    PROVE  TInv' /\ (Whole' <=> Whole)
  <1> USE DEF TInv
  <1> DEFINE x == text("data", sent_size \div MSGSIZE + 1, fp2)
             n == Acked + Ahead - (COUNT + 2)
  <1>1. /\ spc \in {"window", "body"}
        /\ spc = "body" => sent_size < size
        /\ spc' = IF spc = "body" THEN "body_ack"
                  ELSE IF i + 1 < Window THEN "window" ELSE "body"
        /\ i' = IF spc = "window" THEN i + 1 ELSE i
        /\ sent_size' = IF spc = "window" THEN sent_size + fp2 ELSE sent_size
        /\ entry' = Append(entry, x)
        /\ UNCHANGED <<warmed, acks>> /\ UNCHANGED Others
    BY DEF FillWindow, SendNext, SendChunk, Put, Link!Put, run, receiver, Others
  <1>2. /\ n \in Nat /\ sent_size = Upto(n) /\ Acked \in Int /\ i \in Nat
        /\ Window \in Nat /\ size \in Int /\ sent_size \in Nat
        /\ MaxSize \in Int /\ size <= MaxSize
    BY <1>1, NumberTypes, SizeFacts DEF SenderAt, Header, TypeOK
  <1>3. size > 0
    <2>1. CASE spc = "body"
      BY <1>1, <1>2, <2>1
    <2>2. CASE spc = "window"
      BY <1>2, <2>2, SizeFacts DEF SenderAt
    <2> QED BY <1>1, <2>1, <2>2
  <1>4. /\ fp2 \in 0..MSGSIZE /\ sent_size + fp2 = Upto(n + 1)
        /\ (fp2 > 0 <=> n * MSGSIZE < size)
        /\ (n * MSGSIZE < size => sent_size \div MSGSIZE = n)
        /\ sent_size <= size
    BY <1>2, <1>3, NextRead
  <1> HIDE DEF n
  <1>5. x \in Message /\ x.kind = "data"
    <2>1. sent_size \div MSGSIZE \in Nat /\ sent_size \div MSGSIZE <= sent_size
      <3>1. \A a \in Nat, b \in Nat \ {0} : a \div b \in Nat /\ a \div b <= a
        <4>1. SUFFICES ASSUME NEW a \in Nat, NEW b \in Nat \ {0}
                       PROVE  a \div b \in Nat /\ a \div b <= a
          OBVIOUS
        <4>2. a \div b \in Nat /\ b * (a \div b) <= a
          OBVIOUS
        <4>3. \A q \in Nat : q <= b * q
          <5>1. SUFFICES ASSUME NEW q \in Nat PROVE q <= b * q
            OBVIOUS
          <5>2. (b - 1) * q \in Nat
            OBVIOUS
          <5>3. (b - 1) * q = b * q - q
            OBVIOUS
          <5> QED BY <5>2, <5>3, b * q \in Nat
        <4> QED BY <4>2, <4>3, b * (a \div b) \in Nat
      <3> QED BY <1>2, <3>1
    <2>2. sent_size \div MSGSIZE + 1 \in 1..MaxSize + 1
      BY <1>2, <1>4, <2>1
    <2> QED BY <1>4, <2>2, MessageFacts DEF text
  <1>6. IsPart(x, n + 1)
    <2>1. x.len = fp2 /\ x.val = sent_size \div MSGSIZE + 1
      BY DEF text
    <2>2. (n + 1) - 1 = n
      BY <1>2
    <2> HIDE DEF x
    <2> QED BY <1>2, <1>4, <2>1, <2>2 DEF IsPart
  <1> HIDE DEF x
  <1>7. Acked' = Acked /\ Window' = Window /\ size' = size
    BY <1>1 DEF Acked, Others, Window
  <1>8. /\ Owed = Ahead /\ Ahead \in Int /\ spc \notin Waits
        /\ Owed' = Owed + 1 /\ Ahead' = IF spc = "window" THEN Ahead + 1 ELSE Ahead
    <2>1. Owed = Ahead /\ spc \notin Waits /\ Ahead \in Int
      BY <1>1, <1>2 DEF Owed, Waits, Ahead
    <2>2. CASE spc = "body"
      BY <1>1, <1>2, <1>7, <2>1, <2>2 DEF Owed, Waits, Ahead
    <2>3. CASE spc = "window"
      <3>1. i < Window
        BY <2>3 DEF SenderAt
      <3>2. Ahead' = Ahead + 1
        BY <1>1, <1>2, <1>7, <2>3, <3>1 DEF Ahead
      <3> QED BY <1>1, <2>1, <2>3, <3>2 DEF Owed, Waits
    <2> QED BY <1>1, <2>1, <2>2, <2>3
  <1>9. TypeOK'
    BY <1>1, <1>2, <1>4, <1>5, PutTypes
  <1>10. SenderAt'
    <2>1. Acked' + Ahead' - (COUNT + 2) = IF spc = "window" THEN n + 1 ELSE n
      BY <1>1, <1>2, <1>7, <1>8 DEF n
    <2>2. sent_size' = Upto(IF spc = "window" THEN n + 1 ELSE n)
      BY <1>1, <1>2, <1>4
    <2>3. \A m : Upto(m)' = Upto(m)
      BY <1>7 DEF Upto
    <2>4. Acked' + Ahead' - (COUNT + 2) \in Nat
          /\ sent_size' = Upto(Acked + Ahead - (COUNT + 2))'
      BY <1>1, <1>2, <2>1, <2>2, <2>3
    <2>5. spc' \in {"window", "body", "body_ack"} /\ size # 0
      BY <1>1, <1>3
    <2>6. /\ spc' = "window" => i' < Window' /\ Acked' = COUNT + 2
          /\ spc' = "body_ack" => sent_size' < size'
          /\ Acked' >= COUNT + 2
      BY <1>1, <1>7 DEF SenderAt, Header
    <2> QED BY <1>7, <2>4, <2>5, <2>6 DEF SenderAt, Header
  <1>11. Kind' = Kind /\ x.kind = Kind
    BY <1>1, <1>5 DEF Kind
  <1>12. Stream' /\ Filed' /\ (Whole' <=> Whole)
    <2>1. Acked + Owed + 1 - (COUNT + 2) = n + 1
      BY <1>2, <1>8 DEF n
    <2>2. IsPart(x, Acked + Owed + 1 - (COUNT + 2))
      BY <1>6, <2>1
    <2> QED BY <1>1, <1>5, <1>8, <1>11, <2>2, PutPreserves DEF Others
  <1> QED BY <1>1, <1>9, <1>10, <1>12, ReceiverStays

LEMMA BodyReply ==
    ASSUME TInv, BodyAck \/ AllSent \/ Drain
    PROVE  TInv' /\ (Whole' <=> Whole)
  <1> USE DEF TInv
  <1> DEFINE n == Acked + Ahead - (COUNT + 2)
             d == IF spc = "body" THEN 0 ELSE 1
  <1>1. /\ spc \in {"body", "body_ack", "drain"}
        /\ spc # "body" => acks > 0
        /\ acks' = acks - d /\ acks' \in Nat /\ acks \in Nat /\ entry' = entry
        /\ warmed' = warmed /\ UNCHANGED Others
    BY SMTT(20), NumberTypes DEF BodyAck, AllSent, Drain, Check, run, receiver, link, Others
  <1>2. /\ spc' = IF spc = "body_ack" THEN "body"
                  ELSE IF spc = "body" THEN IF 0 < Window THEN "drain" ELSE "done"
                  ELSE IF i + 1 >= Window THEN "done" ELSE "drain"
        /\ i' = IF spc = "body_ack" THEN i ELSE IF spc = "body" THEN 0 ELSE i + 1
        /\ sent_size' = IF spc = "body_ack" THEN sent_size + fp2 ELSE sent_size
        /\ spc = "body" => sent_size >= size
    BY DEF BodyAck, AllSent, Drain, Drained
  <1>3. /\ n \in Nat /\ sent_size = Upto(n) /\ Acked \in Int /\ i \in Nat
        /\ Window \in Nat /\ size \in Int /\ sent_size \in Nat /\ size # 0
        /\ spc = "drain" => i < Window
    BY <1>1, NumberTypes, SizeFacts DEF SenderAt, Header, TypeOK
  <1>4. Window' = Window /\ size' = size /\ Acked' = Acked + d
    BY SMTT(20), <1>1, NumberTypes DEF Acked, Others, Window
  <1>5. spc = "body_ack" =>
           fp2 \in 0..MSGSIZE /\ sent_size + fp2 = Upto(n + 1)
    BY <1>3, NextRead DEF SenderAt
  <1>6. Ahead \in Int /\ Owed = Ahead + (IF spc = "body_ack" THEN 1 ELSE 0)
    BY <1>1, <1>3 DEF Ahead, Owed, Waits
  <1>7. Ahead' = IF spc = "drain" THEN Ahead - 1 ELSE Ahead
    BY <1>1, <1>2, <1>3, <1>4 DEF Ahead
  <1>8. Owed' = Owed - d
    BY <1>1, <1>2, <1>6, <1>7 DEF Owed, Waits
  <1>9. TypeOK'
    <2>1. warmed' \in 0..COUNT
      BY <1>1 DEF TypeOK
    <2>2. spc' \in {"warm", "name", "size", "window", "body", "drain", "done", "crashed"}
      BY <1>1, <1>2
    <2>3. i' \in Nat /\ sent_size' \in Nat
      BY <1>2, <1>3, <1>5
    <2> QED BY <1>1, <2>1, <2>2, <2>3, ReplyTypes
  <1> HIDE DEF n
  <1>10. SenderAt'
    <2>1. Acked' + Ahead' - (COUNT + 2) = IF spc = "body_ack" THEN n + 1 ELSE n
      BY <1>1, <1>3, <1>4, <1>6, <1>7 DEF n
    <2>2. sent_size' = Upto(IF spc = "body_ack" THEN n + 1 ELSE n)
      BY <1>2, <1>3, <1>5
    <2>3. \A m : Upto(m)' = Upto(m)
      BY <1>4 DEF Upto
    <2>4. Acked' + Ahead' - (COUNT + 2) \in Nat
          /\ sent_size' = Upto(Acked + Ahead - (COUNT + 2))'
      BY <1>3, <2>1, <2>2, <2>3
    <2>5. spc' \in {"body", "drain", "done"}
      BY <1>1, <1>2
    <2>6. Acked' >= COUNT + 2
      BY <1>1, <1>3, <1>4 DEF SenderAt, Header
    <2>7. /\ spc' = "drain" => i' < Window'
          /\ spc' \in {"drain", "done"} => sent_size' >= size'
      BY <1>1, <1>2, <1>3, <1>4 DEF SenderAt
    <2> QED BY <1>3, <1>4, <2>4, <2>5, <2>6, <2>7 DEF SenderAt, Header
  <1>11. Kind' = Kind
    BY <1>1, <1>2 DEF Kind
  <1>12. Stream' /\ Filed' /\ (Whole' <=> Whole)
    <2>1. d \in {0, 1} /\ IF d = 1 THEN acks > 0 ELSE spc \notin Waits
      BY <1>1 DEF Waits
    <2> QED BY <1>1, <1>8, <1>11, <2>1, AckPreserves DEF Others
  <1> QED BY <1>1, <1>9, <1>10, <1>12, ReceiverStays

-----------------------------------------------------------------------------
(* The receiver.                                                             *)

\* A message that has arrived is what the receiver takes it for.
LEMMA TakenForWhatItIs ==
    ASSUME TInv, taken < Len(exit)
    PROVE  /\ exit[taken + 1] \in Message /\ Fits(exit[taken + 1], taken + 1)
           /\ rpc \in {"warm", "name", "size", "body", "done"}
           /\ rpc \in {"warm", "name", "size"} => Kind = rpc
           /\ rpc = "body" => Kind = "data"
           /\ UnderWay > 0
  <1> USE DEF TInv
  <1>0. /\ Len(entry) \in Nat /\ Len(transit) \in Nat /\ Len(exit) \in Nat
        /\ taken \in Nat /\ acks \in Nat /\ warmed \in Nat
    BY NumberTypes DEF TypeOK
  <1>1. taken + 1 \in 1..Len(exit) /\ taken + 1 > taken
    BY <1>0
  <1>2. exit[taken + 1] \in Message
    BY <1>1 DEF TypeOK
  <1>3. Fits(exit[taken + 1], taken + 1)
    BY <1>1 DEF Stream
  <1>4. UnderWay > 0
    BY <1>0 DEF UnderWay
  <1>5. rpc \in {"warm", "name", "size", "body", "done"}
    BY <1>0 DEF ReceiverAt, TypeOK
  <1>6. CASE spc \in Header
    <2>1. Owed <= 1
      BY <1>6 DEF Owed, Ahead, Header
    <2>2. acks = 0
      BY <1>0, <2>1, NumberTypes DEF Stream, UnderWay
    <2>3. taken = Acked
      BY <1>0, <2>2 DEF Acked
    <2>4. spc \in {"warm", "warm_ack"} => taken < COUNT
      BY <2>3 DEF SenderAt
    <2>5. spc \in {"name", "name_ack"} => taken = COUNT
      BY <2>3 DEF SenderAt
    <2>6. spc \in {"size", "size_ack"} => taken = COUNT + 1
      BY <2>3 DEF SenderAt
    <2> QED
      BY SMTT(20), <1>0, <1>2, <1>3, <1>4, <1>5, <1>6, <2>4, <2>5, <2>6
      DEF ReceiverAt, Header, Kind
  <1>7. CASE spc \notin Header
    <2>1. taken >= COUNT + 2
      BY <1>0, <1>7 DEF SenderAt, Acked
    <2>2. rpc \in {"body", "done"}
      BY <1>0, <1>5, <2>1 DEF ReceiverAt
    <2>3. Kind = "data"
      BY <1>7 DEF Kind, Header
    <2> QED BY <1>2, <1>3, <1>4, <2>2, <2>3
  <1> QED BY <1>6, <1>7

LEMMA ReceivePreserves ==
    ASSUME TInv, Receiver
    PROVE  TInv' /\ (Whole' <=> Whole)
  <1> USE DEF TInv
  <1>0. /\ Len(entry) \in Nat /\ Len(transit) \in Nat /\ Len(exit) \in Nat
        /\ taken \in Nat /\ acks \in Nat /\ UnderWay \in Nat /\ Acked \in Int
    BY NumberTypes
  <1>1. UNCHANGED <<size, count, emulator, spc, warmed, i, sent_size, entry, transit, exit>>
    BY DEF Receiver, Start, Echo, GetName, GetSize, GetChunk, Receive, run, sender, link
  <1>2. Ahead' = Ahead /\ Owed' = Owed /\ Kind' = Kind /\ Window' = Window
        /\ Chunks' = Chunks /\ (Careful' <=> Careful) /\ \A m : Upto(m)' = Upto(m)
    BY <1>1 DEF Ahead, Owed, Kind, Window, Chunks, Careful, Upto
  <1>3. CASE Start
    <2>1. /\ rpc = "init" /\ rpc' = "warm"
          /\ UNCHANGED <<echoed, rsize, received_size, file, taken, acks>>
      BY <1>3 DEF Start
    <2>2. UnderWay' = UnderWay /\ Acked' = Acked
      BY <1>1, <2>1 DEF UnderWay, Acked
    <2>3. TypeOK'
      BY <1>1, <2>1 DEF TypeOK
    <2>4. SenderAt' /\ ReceiverAt'
      BY <1>1, <1>2, <2>1, <2>2 DEF SenderAt, ReceiverAt
    <2>5. (Whole' <=> Whole) /\ (Stuck' <=> Stuck)
      BY <1>1, <1>2, <2>2 DEF Whole, Stuck
    <2>6. \A x, p : Fits(x, p)' <=> Fits(x, p)
      BY <1>1, <1>2, <2>5 DEF Fits, IsPart
    <2>7. Stream'
      BY <1>1, <1>2, <2>1, <2>2, <2>6 DEF Stream
    <2>8. Filed'
      BY <1>2, <2>1, <2>5 DEF Filed
    <2> QED BY <2>3, <2>4, <2>5, <2>7, <2>8
  <1>4. CASE Receive /\ (Echo \/ GetName \/ GetSize \/ GetChunk)
    <2>1. taken < Len(exit) /\ taken' = taken + 1 /\ acks' = acks + 1
      BY <1>4 DEF Receive
    <2>2. /\ r \in Message /\ Fits(r, taken + 1) /\ UnderWay > 0
          /\ rpc = "body" => Kind = "data"
      BY <2>1, TakenForWhatItIs DEF r
    <2>3. /\ rpc = "warm" => /\ echoed' = echoed + 1
                             /\ rpc' = IF echoed + 1 = COUNT THEN "name" ELSE "warm"
          /\ rpc # "warm" => echoed' = echoed
          /\ rpc = "name" => rpc' = "size"
          /\ rpc = "size" => rsize' = r.val /\ rpc' \in {"body", "done"}
          /\ rpc # "size" => rsize' = rsize
          /\ rpc = "body" => received_size' = received_size + r.len
                             /\ rpc' \in {"body", "done"}
          /\ rpc # "body" => received_size' = received_size
          /\ file' = IF rpc = "body" /\ r.len > 0 THEN Append(file, r) ELSE file
          /\ rpc \in {"warm", "name", "size", "body"}
      BY <1>4 DEF Echo, GetName, GetSize, GetChunk, EchoedAll
    <2>4. UnderWay' = UnderWay /\ Acked' = Acked
      BY <1>0, <1>1, <2>1 DEF UnderWay, Acked
    <2>5. ReceiverAt'
      BY <1>0, <1>1, <2>1, <2>3 DEF ReceiverAt
    <2>6. TypeOK'
      <3>1. r.len \in Nat /\ r.val \in Int
        BY <2>2, MessageFacts
      <3>2. file' \in Seq(Message)
        BY <2>2, <2>3 DEF TypeOK
      <3>3. echoed' \in 0..COUNT
        BY <2>3 DEF ReceiverAt, TypeOK
      <3>4. rpc' \in {"init", "warm", "name", "size", "body", "done"}
        BY <2>3
      <3>5. rsize' \in Int /\ received_size' \in Nat
        <4>1. rsize \in Int /\ received_size \in Nat
          BY DEF TypeOK
        <4>2. rsize' \in {rsize, r.val} /\ received_size' \in {received_size,
                                                            received_size + r.len}
          BY <2>3
        <4> HIDE DEF r
        <4> QED BY <3>1, <4>1, <4>2
      <3>6. taken' \in 0..Len(exit') /\ acks' \in Nat
        BY <1>0, <1>1, <2>1
      <3>7. /\ size' \in Sizes /\ count' \in Counts /\ emulator' \in Emulators
            /\ spc' = spc /\ warmed' \in 0..COUNT /\ i' \in Nat /\ sent_size' \in Nat
            /\ entry' \in Seq(Message) /\ transit' \in Seq(Message)
            /\ exit' \in Seq(Message)
        BY <1>1 DEF TypeOK
      <3>8. spc \in {"warm", "warm_ack", "name", "name_ack", "size", "size_ack",
                    "window", "body", "body_ack", "drain", "done", "crashed"}
        BY DEF TypeOK
      <3> QED BY <3>2, <3>3, <3>4, <3>5, <3>6, <3>7, <3>8 DEF TypeOK
    <2>7. SenderAt'
      BY <1>1, <1>2, <2>4 DEF SenderAt
    <2>8. Whole' <=> Whole
      BY <1>2, <2>4 DEF Whole
    <2>9. \A x, p : Fits(x, p)' <=> Fits(x, p)
      BY <1>1, <1>2, <2>8 DEF Fits, IsPart
    <2>10. Stream'
      <3>1. \A k \in 1..Len(exit) : k > taken' => k > taken
        BY <1>0, <2>1
      <3> QED BY <1>1, <1>2, <2>1, <2>4, <2>9, <3>1 DEF Stream
    <2>11. Filed'
      <3>1. Careful => Whole
        BY <2>2, <1>0 DEF Filed, Stuck
      <3>2. rpc' \in {"init", "warm", "name", "size"} => file' = <<>>
        BY <2>3 DEF Filed
      <3>3. CASE ~Whole
        BY <1>2, <2>8, <3>1, <3>2, <3>3 DEF Filed
      <3>4. CASE Whole /\ rpc # "body"
        <4>1. taken' <= COUNT + 2 /\ taken <= COUNT + 2 /\ file' = file
          BY <1>0, <2>1, <2>3, <3>4 DEF ReceiverAt
        <4> QED BY <1>2, <2>8, <3>1, <3>2, <3>4, <4>1 DEF Filed
      <3>5. CASE Whole /\ rpc = "body"
        <4> DEFINE j == taken - (COUNT + 2)
        <4>1. /\ taken >= COUNT + 2 /\ j \in Nat
              /\ taken' > COUNT + 2 /\ taken' - (COUNT + 2) = j + 1
          BY <1>0, <2>1, <3>5 DEF ReceiverAt
        <4>2. IsPart(r, j + 1)
          <5>1. taken + 1 - (COUNT + 2) = j + 1 /\ taken + 1 > COUNT + 2
            BY <1>0, <4>1
          <5>2. IsPart(r, taken + 1 - (COUNT + 2))
            BY <1>0, <2>2, <3>5, <5>1 DEF Fits
          <5> QED BY <5>1, <5>2, Zenon
        <4>3. /\ r.len > 0 <=> j * MSGSIZE < size
              /\ r.len > 0 => r.val = j + 1
          <5>1. (j + 1) - 1 = j
            BY <4>1
          <5> HIDE DEF j
          <5> QED BY <4>2, <5>1 DEF IsPart
        <4>4. Chunks \in Nat /\ (j < Chunks <=> j * MSGSIZE < size)
          <5>1. CASE size > 0
            BY <4>1, <5>1, ChunksAre
          <5>2. CASE size <= 0
            <6>1. Chunks = 0 /\ j * MSGSIZE >= 0 /\ j * MSGSIZE \in Nat
              BY <4>1, <5>2 DEF Chunks
            <6> QED BY <4>1, <5>2, <6>1, SizeFacts
          <5> QED BY <5>1, <5>2, SizeFacts
        <4>5. /\ file \in Seq(Message) /\ Len(file) \in Nat
              /\ \A k \in 1..Len(file) : file[k].val = k
              /\ Len(file) = IF j < Chunks THEN j ELSE Chunks
          BY <1>0, <3>5, <4>1, <4>4 DEF Filed, TypeOK
        <4> HIDE DEF j
        <4>6. CASE r.len > 0
          <5>1. file' = Append(file, r) /\ r.val = j + 1 /\ Len(file) = j
            BY <2>3, <3>5, <4>3, <4>4, <4>5, <4>6
          <5>2. Len(file') = j + 1
                /\ \A k \in 1..Len(file') :
                     file'[k] = IF k <= Len(file) THEN file[k] ELSE r
            BY <2>2, <4>5, <5>1, QueueFacts
          <5>3. \A k \in 1..Len(file') : file'[k].val = k
            BY <4>1, <4>5, <5>1, <5>2
          <5>4. Len(file') = IF j + 1 < Chunks THEN j + 1 ELSE Chunks
            BY <4>1, <4>3, <4>4, <4>6, <5>2
          <5>5. Len(file') = IF taken' <= COUNT + 2 THEN 0
                             ELSE IF taken' - (COUNT + 2) < Chunks
                                  THEN taken' - (COUNT + 2) ELSE Chunks
            BY <1>0, <2>1, <4>1, <4>4, <5>4
          <5> QED BY <1>2, <2>8, <3>2, <3>5, <5>3, <5>5 DEF Filed
        <4>7. CASE ~(r.len > 0)
          <5>1. file' = file
            BY <2>3, <4>7
          <5>2. Len(file) = IF j + 1 < Chunks THEN j + 1 ELSE Chunks
            BY <4>1, <4>3, <4>4, <4>5, <4>7
          <5> QED BY <1>0, <1>2, <2>1, <2>8, <3>1, <3>2, <3>5, <4>1, <4>5, <5>1, <5>2
              DEF Filed
        <4> QED BY <4>6, <4>7
      <3> QED BY <3>3, <3>4, <3>5
    <2> QED BY <2>5, <2>6, <2>7, <2>8, <2>10, <2>11
  <1> QED BY <1>3, <1>4 DEF Receiver, Echo, GetName, GetSize, GetChunk

-----------------------------------------------------------------------------
(* The emulator.                                                             *)

\* What no step of the emulator changes.
Programs == <<size, count, emulator, spc, warmed, i, sent_size, rpc, echoed, rsize,
              received_size, file, taken, acks>>

LEMMA ProgramsStay ==
    ASSUME TInv, UNCHANGED Programs
    PROVE  /\ SenderAt' /\ Acked' = Acked /\ Owed' = Owed /\ Kind' = Kind
           /\ (Careful' <=> Careful) /\ Chunks' = Chunks
           /\ rpc # "init" => ReceiverAt'
           /\ entry' \in Seq(Message) /\ transit' \in Seq(Message)
              /\ exit' \in Seq(Message) /\ Len(exit') >= Len(exit) => TypeOK'
  <1> USE DEF TInv, Programs
  <1>1. Ahead' = Ahead /\ Acked' = Acked /\ Owed' = Owed /\ Kind' = Kind
        /\ Window' = Window /\ (Careful' <=> Careful) /\ Chunks' = Chunks
        /\ \A m : Upto(m)' = Upto(m)
    BY DEF Ahead, Acked, Owed, Kind, Window, Careful, Chunks, Upto
  <1>2. SenderAt'
    BY <1>1 DEF SenderAt
  <1>3. rpc # "init" => ReceiverAt'
    BY DEF ReceiverAt
  <1>4. ASSUME entry' \in Seq(Message), transit' \in Seq(Message),
               exit' \in Seq(Message), Len(exit') >= Len(exit)
        PROVE  TypeOK'
    <2>1. taken \in Nat /\ taken <= Len(exit) /\ Len(exit) \in Nat /\ Len(exit') \in Nat
      BY <1>4, NumberTypes
    <2>2. taken' \in 0..Len(exit')
      BY <1>4, <2>1
    <2> QED BY <1>4, <2>2 DEF TypeOK
  <1> QED BY <1>1, <1>2, <1>3, <1>4

\* Nothing is lost: only where the messages are changes.
LEMMA MovePreserves ==
    ASSUME TInv, UNCHANGED Programs, UnderWay' = UnderWay
    PROVE  /\ Filed' /\ UnderWay' <= Owed'
           /\ \A x, p : Fits(x, p)' <=> Fits(x, p)
  <1>1. (Whole' <=> Whole) /\ (Stuck' <=> Stuck)
    BY ProgramsStay DEF Whole, Stuck, Programs
  <1>2. Filed'
    BY <1>1, ProgramsStay DEF Filed, Programs, TInv
  <1>3. UnderWay' <= Owed'
    BY ProgramsStay DEF TInv, Stream
  <1>4. \A x, p : Fits(x, p)' <=> Fits(x, p)
    BY <1>1, ProgramsStay DEF Fits, IsPart, Programs
  <1> QED BY <1>2, <1>3, <1>4

LEMMA AcceptPreserves ==
    ASSUME TInv, NEW y \in Message, Link!Accept(y), UNCHANGED Programs
    PROVE  TInv' /\ UnderWay' = UnderWay
  <1> USE DEF TInv
  <1>0. /\ Len(entry) \in Nat /\ Len(transit) \in Nat /\ Len(exit) \in Nat
        /\ entry \in Seq(Message) /\ transit \in Seq(Message) /\ exit \in Seq(Message)
    BY NumberTypes DEF TypeOK
  <1>1. /\ entry # <<>> /\ transit' = Append(transit, y) /\ entry' = Tail(entry)
        /\ exit' = exit
    BY DEF Link!Accept
  <1>2. /\ Len(entry) > 0 /\ Head(entry) = entry[1] /\ Head(entry) \in Message
        /\ entry' \in Seq(Message) /\ Len(entry') = Len(entry) - 1
        /\ \A k \in 1..Len(entry') : entry'[k] = entry[k + 1]
    BY <1>0, <1>1, QueueFacts
  <1>3. y \in {Head(entry)} \cup damaged(Head(entry))
    BY <1>2 DEF Link!Accept
  <1>4. /\ y.kind = Head(entry).kind /\ y.len = Head(entry).len
        /\ y.kind = "data" => y.val = Head(entry).val
    BY <1>2, <1>3, DamageFacts
  <1>5. /\ transit' \in Seq(Message) /\ Len(transit') = Len(transit) + 1
        /\ \A k \in 1..Len(transit') :
             transit'[k] = IF k <= Len(transit) THEN transit[k] ELSE y
    BY <1>0, <1>1, QueueFacts
  <1>6. UnderWay' = UnderWay
    BY <1>0, <1>1, <1>2, <1>5, NumberTypes DEF UnderWay, Programs
  <1>7. /\ Filed' /\ UnderWay' <= Owed' /\ \A x, p : Fits(x, p)' <=> Fits(x, p)
        /\ SenderAt' /\ TypeOK'
    BY <1>0, <1>1, <1>2, <1>5, <1>6, MovePreserves, ProgramsStay
  <1>8. ReceiverAt'
    BY <1>1 DEF ReceiverAt, Programs
  <1>9. Fits(y, Len(exit) + Len(transit) + 1)
    <2>1. 1 \in 1..Len(entry)
      BY <1>0, <1>2
    <2>2. Fits(entry[1], Len(exit) + Len(transit) + 1)
      BY <2>1 DEF Stream
    <2> QED BY <1>2, <1>4, <2>2 DEF Fits, IsPart
  <1>10. \A k \in 1..Len(exit) : k > taken => Fits(exit[k], k)'
    BY <1>1, <1>7 DEF Stream
  <1>11. ASSUME NEW k \in 1..Len(transit') PROVE Fits(transit[k], Len(exit) + k)'
    <2>1. CASE k <= Len(transit)
      <3>1. k \in 1..Len(transit) /\ transit'[k] = transit[k]
        BY <1>0, <1>5, <2>1
      <3>2. Fits(transit'[k], Len(exit) + k)
        BY <3>1 DEF Stream
      <3> QED BY <1>1, <1>7, <3>2
    <2>2. CASE k > Len(transit)
      <3>1. k = Len(transit) + 1 /\ transit'[k] = y
        BY <1>0, <1>5, <2>2
      <3>2. Len(exit) + k = Len(exit) + Len(transit) + 1
        BY <1>0, <3>1
      <3>3. Fits(transit'[k], Len(exit) + k)
        BY <1>9, <3>1, <3>2, Zenon
      <3> QED BY <1>1, <1>7, <3>3
    <2> QED BY <1>0, <1>5, <2>1, <2>2
  <1>12. ASSUME NEW k \in 1..Len(entry')
         PROVE  Fits(entry[k], Len(exit) + Len(transit) + k)'
    <2>1. k + 1 \in 1..Len(entry) /\ entry'[k] = entry[k + 1]
      BY <1>0, <1>2
    <2>2. Fits(entry'[k], Len(exit) + Len(transit) + (k + 1))
      BY <2>1 DEF Stream
    <2>3. Len(exit) + Len(transit) + (k + 1) = Len(exit') + Len(transit') + k
      BY <1>0, <1>1, <1>5
    <2>4. Fits(entry'[k], Len(exit') + Len(transit') + k)
      BY <2>2, <2>3, Zenon
    <2> QED BY <1>7, <2>4
  <1>13. Stream'
    BY <1>1, <1>7, <1>10, <1>11, <1>12 DEF Stream, Programs
  <1> QED BY <1>6, <1>7, <1>8, <1>13

LEMMA DeliverPreserves ==
    ASSUME TInv, Link!Deliver, rpc # "init", UNCHANGED Programs
    PROVE  TInv' /\ UnderWay' = UnderWay
  <1> USE DEF TInv
  <1>0. /\ Len(entry) \in Nat /\ Len(transit) \in Nat /\ Len(exit) \in Nat
        /\ entry \in Seq(Message) /\ transit \in Seq(Message) /\ exit \in Seq(Message)
        /\ taken \in Nat /\ taken <= Len(exit)
    BY NumberTypes DEF TypeOK
  <1> DEFINE y == Head(transit)
  <1>1. /\ transit # <<>> /\ transit' = Tail(transit) /\ exit' = Append(exit, y)
        /\ entry' = entry
    BY DEF Link!Deliver
  <1>2. /\ Len(transit) > 0 /\ y = transit[1] /\ y \in Message
        /\ transit' \in Seq(Message) /\ Len(transit') = Len(transit) - 1
        /\ \A k \in 1..Len(transit') : transit'[k] = transit[k + 1]
    BY <1>0, <1>1, QueueFacts
  <1> HIDE DEF y
  <1>3. /\ exit' \in Seq(Message) /\ Len(exit') = Len(exit) + 1
        /\ \A k \in 1..Len(exit') : exit'[k] = IF k <= Len(exit) THEN exit[k] ELSE y
    BY <1>0, <1>1, <1>2, QueueFacts
  <1>4. UnderWay' = UnderWay
    BY <1>0, <1>1, <1>2, <1>3, NumberTypes DEF UnderWay, Programs
  <1>5. /\ Filed' /\ UnderWay' <= Owed' /\ \A x, p : Fits(x, p)' <=> Fits(x, p)
        /\ SenderAt' /\ ReceiverAt' /\ TypeOK'
    BY <1>0, <1>1, <1>2, <1>3, <1>4, MovePreserves, ProgramsStay
  <1>6. Fits(y, Len(exit) + 1)
    <2>1. 1 \in 1..Len(transit)
      BY <1>0, <1>2
    <2> QED BY <1>2, <2>1 DEF Stream
  <1>7. ASSUME NEW k \in 1..Len(exit'), k > taken PROVE Fits(exit[k], k)'
    <2>1. CASE k <= Len(exit)
      <3>1. k \in 1..Len(exit) /\ exit'[k] = exit[k]
        BY <1>0, <1>3, <2>1
      <3>2. Fits(exit'[k], k)
        BY <1>7, <3>1 DEF Stream
      <3> QED BY <1>5, <3>2
    <2>2. CASE k > Len(exit)
      <3>1. k = Len(exit) + 1 /\ exit'[k] = y
        BY <1>0, <1>3, <2>2
      <3>2. Fits(exit'[k], k)
        BY <1>6, <3>1, Zenon
      <3> QED BY <1>5, <3>2
    <2> QED BY <1>0, <1>3, <2>1, <2>2
  <1>8. ASSUME NEW k \in 1..Len(transit') PROVE Fits(transit[k], Len(exit) + k)'
    <2>1. k + 1 \in 1..Len(transit) /\ transit'[k] = transit[k + 1]
      BY <1>0, <1>2
    <2>2. Fits(transit'[k], Len(exit) + (k + 1))
      BY <2>1 DEF Stream
    <2>3. Len(exit) + (k + 1) = Len(exit') + k
      BY <1>0, <1>3
    <2>4. Fits(transit'[k], Len(exit') + k)
      BY <2>2, <2>3, Zenon
    <2> QED BY <1>5, <2>4
  <1>9. ASSUME NEW k \in 1..Len(entry)
        PROVE  Fits(entry[k], Len(exit) + Len(transit) + k)'
    <2>1. Fits(entry'[k], Len(exit) + Len(transit) + k)
      BY <1>1 DEF Stream
    <2>2. Len(exit) + Len(transit) + k = Len(exit') + Len(transit') + k
      BY <1>0, <1>2, <1>3
    <2>3. Fits(entry'[k], Len(exit') + Len(transit') + k)
      BY <2>1, <2>2, Zenon
    <2> QED BY <1>5, <2>3
  <1>10. Stream'
    BY <1>1, <1>5, <1>7, <1>8, <1>9 DEF Stream, Programs
  <1> QED BY <1>4, <1>5, <1>10

\* A message is lost: the sender will never have read all the replies it waits for.
LEMMA LossPreserves ==
    ASSUME TInv, Link!Drop \/ Link!Lose, UNCHANGED Programs,
           rpc = "init" \/ "loss" \in emulator
    PROVE  TInv' /\ ~Whole'
  <1> USE DEF TInv
  <1>0. /\ Len(entry) \in Nat /\ Len(transit) \in Nat /\ Len(exit) \in Nat
        /\ entry \in Seq(Message) /\ transit \in Seq(Message) /\ exit \in Seq(Message)
        /\ taken \in Nat /\ acks \in Nat /\ UnderWay \in Nat /\ Owed \in Int
        /\ Ahead \in Int /\ Window \in Nat /\ i \in Nat
    BY NumberTypes, SizeFacts DEF TypeOK
  <1>1. /\ exit' = exit /\ entry' \in Seq(Message) /\ transit' \in Seq(Message)
        /\ UnderWay' = UnderWay - 1 /\ UnderWay > 0
        /\ \A k \in 1..Len(entry') : \E m \in 1..Len(entry) : entry'[k] = entry[m]
        /\ \A k \in 1..Len(transit') : \E m \in 1..Len(transit) : transit'[k] = transit[m]
    <2>1. CASE Link!Drop
      <3>1. entry # <<>> /\ entry' = Tail(entry) /\ UNCHANGED <<transit, exit>>
        BY <2>1 DEF Link!Drop
      <3>2. /\ entry' \in Seq(Message) /\ Len(entry') = Len(entry) - 1
            /\ \A k \in 1..Len(entry') : entry'[k] = entry[k + 1]
        BY <1>0, <3>1, QueueFacts
      <3>3. \A k \in 1..Len(entry') : k + 1 \in 1..Len(entry)
        BY <1>0, <3>2
      <3>4. UnderWay' = UnderWay - 1 /\ UnderWay > 0
        BY <1>0, <3>1, <3>2, QueueFacts, NumberTypes DEF UnderWay, Programs
      <3> QED BY <1>0, <3>1, <3>2, <3>3, <3>4
    <2>2. CASE Link!Lose
      <3>1. transit # <<>> /\ transit' = Tail(transit) /\ UNCHANGED <<entry, exit>>
        BY <2>2 DEF Link!Lose
      <3>2. /\ transit' \in Seq(Message) /\ Len(transit') = Len(transit) - 1
            /\ \A k \in 1..Len(transit') : transit'[k] = transit[k + 1]
        BY <1>0, <3>1, QueueFacts
      <3>3. \A k \in 1..Len(transit') : k + 1 \in 1..Len(transit)
        BY <1>0, <3>2
      <3>4. UnderWay' = UnderWay - 1 /\ UnderWay > 0
        BY <1>0, <3>1, <3>2, QueueFacts, NumberTypes DEF UnderWay, Programs
      <3> QED BY <1>0, <3>1, <3>2, <3>3, <3>4
    <2> QED BY <2>1, <2>2
  <1>2. /\ SenderAt' /\ TypeOK' /\ Acked' = Acked /\ Owed' = Owed /\ Kind' = Kind
        /\ (Careful' <=> Careful) /\ Chunks' = Chunks
    BY <1>0, <1>1, ProgramsStay
  <1>3. ReceiverAt'
    BY <1>1 DEF ReceiverAt, Programs
  <1>4. UnderWay' <= Owed' /\ ~Whole'
    BY <1>0, <1>1, <1>2 DEF Stream, Whole
  <1>5. \A x, p : x.kind = Kind => Fits(x, p)'
    BY <1>2, <1>4 DEF Fits
  <1>6. Stream'
    <2>1. \A k \in 1..Len(exit) : k > taken => Fits(exit[k], k)'
      BY <1>1, <1>5 DEF Stream, Fits
    <2>2. \A k \in 1..Len(transit') : transit'[k].kind = Kind
      BY <1>1 DEF Stream, Fits
    <2>3. \A k \in 1..Len(transit') : Fits(transit[k], Len(exit) + k)'
      BY <1>5, <2>2
    <2>4. \A k \in 1..Len(entry') : entry'[k].kind = Kind
      <3>1. \A k \in 1..Len(entry) : entry[k].kind = Kind
        BY DEF Stream, Fits
      <3> QED BY ONLY <1>1, <3>1
    <2>5. \A k \in 1..Len(entry') : Fits(entry[k], Len(exit) + Len(transit) + k)'
      BY <1>5, <2>4
    <2> QED BY <1>1, <1>4, <2>1, <2>3, <2>5 DEF Stream, Programs
  <1>7. Filed'
    <2>1. ASSUME Careful PROVE Stuck'
      <3>1. UnderWay > 0 /\ Whole
        BY <1>0, <1>1, <2>1 DEF Filed, Stuck
      <3>2. Ahead = 0
        <4>1. CASE rpc = "init"
          <5>1. Len(exit) = 0 /\ taken = 0
            BY <1>0, <4>1 DEF ReceiverAt, TypeOK
          <5>2. spc \in Header
            BY <1>0, <5>1 DEF SenderAt, Acked
          <5> QED BY <5>2 DEF Ahead, Header
        <4>2. CASE Window <= 0
          BY <1>0, <4>2 DEF Ahead, SenderAt
        <4> QED BY <2>1, <4>1, <4>2 DEF Careful
      <3>3. spc \in Waits /\ Owed = 1
        BY <1>0, <3>1, <3>2 DEF Whole, Owed
      <3> QED BY <1>0, <1>1, <3>1, <3>3 DEF Stuck, Whole, Programs
    <2> QED BY <1>2, <1>4, <2>1 DEF Filed, Programs
  <1> QED BY <1>2, <1>3, <1>4, <1>6, <1>7

-----------------------------------------------------------------------------

LEMMA TInvInit == Init => TInv
  <1> SUFFICES ASSUME Init PROVE TInv
    OBVIOUS
  <1>1. /\ entry = <<>> /\ transit = <<>> /\ exit = <<>> /\ file = <<>>
        /\ size \in Sizes /\ count \in Counts /\ emulator \in Emulators
        /\ spc = "warm" /\ warmed = 0 /\ i = 0 /\ sent_size = 0
        /\ rpc = "init" /\ echoed = 0 /\ rsize = 0 /\ received_size = 0
        /\ taken = 0 /\ acks = 0
    BY DEF Init, Link!Init
  <1>2. /\ Len(entry) = 0 /\ Len(transit) = 0 /\ Len(exit) = 0 /\ Len(file) = 0
        /\ entry \in Seq(Message) /\ transit \in Seq(Message) /\ exit \in Seq(Message)
        /\ file \in Seq(Message)
    BY <1>1
  <1>3. TypeOK
    <2>1. 0 \in Nat /\ 0 \in Int /\ 0 \in 0..COUNT
      OBVIOUS
    <2>2. taken \in 0..Len(exit)
      BY <1>1, <1>2
    <2> QED BY <1>1, <1>2, <2>1, <2>2, Zenon DEF TypeOK
  <1>4. Ahead = 0 /\ Owed = 0 /\ Acked = 0 /\ UnderWay = 0
    BY <1>1, <1>2 DEF Ahead, Owed, Acked, UnderWay, Waits
  <1>5. SenderAt /\ ReceiverAt
    BY <1>1, <1>4 DEF SenderAt, ReceiverAt, Header
  <1>6. Stream
    BY <1>2, <1>4 DEF Stream
  <1>7. Filed
    BY <1>1, <1>2, <1>4 DEF Filed, Whole
  <1> QED BY <1>3, <1>5, <1>6, <1>7 DEF TInv

LEMMA TInvStep == TInv /\ [Next]_vars => TInv'
  <1> SUFFICES ASSUME TInv, [Next]_vars PROVE TInv'
    OBVIOUS
  <1>1. CASE Sender
    BY <1>1, HeaderPut, HeaderReply, BodyPut, BodyReply DEF Sender
  <1>2. CASE Receiver
    BY <1>2, ReceivePreserves
  <1>3. CASE Works
    <2>1. UNCHANGED Programs
      BY <1>3 DEF Works, Programs, run, sender, receiver
    <2> QED BY <1>3, <2>1, AcceptPreserves, DeliverPreserves DEF Works
  <1>4. CASE Loses
    <2>1. UNCHANGED Programs
      BY <1>4 DEF Loses, Programs, run, sender, receiver
    <2> QED BY <1>4, <2>1, LossPreserves DEF Loses
  <1>5. CASE UNCHANGED vars
    <2>1. UNCHANGED Programs /\ UNCHANGED <<entry, transit, exit>>
      BY <1>5 DEF vars, Programs, run, sender, receiver, link
    <2>2. UnderWay' = UnderWay
      BY <2>1 DEF UnderWay, Programs
    <2>3. /\ Filed' /\ UnderWay' <= Owed' /\ \A x, p : Fits(x, p)' <=> Fits(x, p)
      BY <2>1, <2>2, MovePreserves
    <2>4. Stream'
      BY <2>1, <2>3 DEF TInv, Stream, Programs
    <2>5. TypeOK' /\ SenderAt'
      BY <2>1, ProgramsStay, NumberTypes DEF TInv, TypeOK
    <2>6. ReceiverAt'
      BY <2>1 DEF TInv, ReceiverAt, Programs
    <2> QED BY <2>3, <2>4, <2>5, <2>6 DEF TInv
  <1> QED BY <1>1, <1>2, <1>3, <1>4, <1>5 DEF Next

\* Positions, numbers of messages under way and contents of the file agree.
THEOREM TInvHolds == Spec => []TInv
  BY TInvInit, TInvStep, PTL DEF Spec

LEMMA TInvIsDisciplined == TInv => Disciplined
  <1> SUFFICES ASSUME TInv PROVE Disciplined
    OBVIOUS
  <1> USE DEF TInv
  <1>1. InStep
    BY TakenForWhatItIs DEF InStep, r, Fits
  <1>2. FlowControlled
    <2>1. Owed <= Window + 1 /\ Window \in Nat
      <3>1. Window \in Nat /\ i \in Nat
        BY SizeFacts DEF TypeOK
      <3>2. Ahead <= Window
        BY <3>1 DEF Ahead, SenderAt
      <3>3. spc = "window" => Ahead + 1 <= Window
        BY <3>1 DEF Ahead, SenderAt
      <3> QED BY SMTT(20), <3>1, <3>2, <3>3, NumberTypes
    <2>2. UnderWay <= Owed /\ Owed \in Int /\ UnderWay \in Nat
      BY NumberTypes DEF Stream
    <2> QED BY <2>1, <2>2 DEF FlowControlled, UnderWay
  <1> QED BY <1>1, <1>2 DEF Disciplined

\* For every file and every window: the receiver takes each message for what it was
\* sent as, and never are more under way than the window and one more.
THEOREM StaysDisciplined == Spec => []Disciplined
  BY TInvHolds, TInvIsDisciplined, PTL

LEMMA TInvIsPrefix == TInv => FileIsPrefix
  <1> SUFFICES ASSUME TInv PROVE FileIsPrefix
    OBVIOUS
  <1> USE DEF TInv
  <1>0. file \in Seq(Message) /\ Len(file) \in Nat /\ DOMAIN file = 1..Len(file)
    BY DEF TypeOK
  <1>1. ASSUME Careful, NEW k \in DOMAIN file PROVE file[k].val = k
    BY <1>0, <1>1 DEF Filed
  <1>2. ASSUME spc = "done"
        PROVE  [k \in DOMAIN file |-> file[k].val] = [k \in 1..Chunks |-> k]
    <2>1. Owed = 0 /\ Ahead = 0
      BY <1>2 DEF Owed, Ahead, Waits
    <2>2. Whole /\ UnderWay = 0
      BY <2>1, NumberTypes DEF Whole, Stream
    <2>3. taken = Acked
      BY <2>2, NumberTypes DEF UnderWay, Acked
    <2> DEFINE j == taken - (COUNT + 2)
    <2>4. /\ j \in Nat /\ sent_size = Upto(j) /\ sent_size >= size /\ taken \in Int
          /\ Acked + 0 - (COUNT + 2) = j
      BY <1>2, <2>1, <2>3, NumberTypes DEF SenderAt, Header
    <2>5. Chunks \in Nat /\ j >= Chunks
      <3>1. CASE size > 0
        <4>1. ~(j * MSGSIZE < size)
          <5> HIDE DEF j
          <5> QED BY <2>4, <3>1, SizeFacts, j * MSGSIZE \in Nat DEF Upto
        <4> QED BY <2>4, <3>1, <4>1, ChunksAre
      <3>2. CASE size <= 0
        BY <2>4, <3>2 DEF Chunks
      <3> QED BY <3>1, <3>2, SizeFacts
    <2>6. Len(file) = Chunks
      BY <2>2, <2>4, <2>5 DEF Filed
    <2>7. \A k \in 1..Len(file) : file[k].val = k
      BY <2>2 DEF Filed
    <2> QED BY <1>0, <2>6, <2>7
  <1> QED BY <1>1, <1>2 DEF FileIsPrefix, Careful

\* For every file and every window: the copy is the beginning of the original unless
\* one of several messages may be lost, and all of it is there when the
\* sender says that its job is done.
THEOREM FileStaysPrefix == Spec => []FileIsPrefix
  BY TInvHolds, TInvIsPrefix, PTL
-----------------------------------------------------------------------------
(* When nothing is lost or damaged, nobody waits for nothing.               *)

Pure == "corrupt" \notin emulator

\* What the p-th message says, as long as nothing is lost or damaged.
Genuine(x, p) ==
    /\ x.kind = "size" => x.val = size
    /\ x.kind = "data" => x.len = Upto(p - (COUNT + 2)) - Upto(p - (COUNT + 2) - 1)

Intact ==
    /\ \A k \in 1..Len(exit) : k > taken => Genuine(exit[k], k)
    /\ \A k \in 1..Len(transit) : Genuine(transit[k], Len(exit) + k)
    /\ \A k \in 1..Len(entry) : Genuine(entry[k], Len(exit) + Len(transit) + k)

\* The receiver knows the size, and stops when it has that much.
Knows ==
    IF rpc \in {"body", "done"}
    THEN /\ rsize = size /\ received_size = Upto(taken - (COUNT + 2))
         /\ rpc = "body" <=> received_size < size
    ELSE received_size = 0

\* Reads of the file: those of the window, or those that find something.
Reads == Acked + Ahead - (COUNT + 2)
Enough == spc \notin Header => Reads <= Window \/ Reads <= Chunks

GInv ==
    /\ Pure /\ Whole => Intact /\ Knows
    /\ Enough
    /\ spc = "crashed" => size = 0

\* Neither program can go on, and nothing is on its way in the emulator.
AtRest ==
    /\ entry = <<>> /\ transit = <<>>
    /\ spc \in {"done", "crashed"} \/ (spc \in Waits \cup {"drain"} /\ acks = 0)
    /\ rpc = "done" \/ (rpc # "init" /\ taken = Len(exit))

RestIsEnd ==
    Pure /\ Whole /\ Window <= Chunks /\ AtRest =>
        rpc = "done" /\ spc = IF size = 0 THEN "crashed" ELSE "done"

\* A message put has the next position.
LEMMA PutIntact ==
    ASSUME TInv, Intact, NEW x \in Message, entry' = Append(entry, x), UNCHANGED Others,
           Genuine(x, Len(exit) + Len(transit) + Len(entry) + 1)
    PROVE  Intact'
  <1> USE DEF Others
  <1>1. /\ Len(entry) \in Nat /\ Len(transit) \in Nat /\ Len(exit) \in Nat
        /\ Len(entry') = Len(entry) + 1
        /\ \A k \in 1..Len(entry') : entry'[k] = IF k <= Len(entry) THEN entry[k] ELSE x
    <2>1. entry \in Seq(Message) /\ TypeOK
      BY DEF TInv, TypeOK
    <2>2. Len(entry) \in Nat /\ Len(transit) \in Nat /\ Len(exit) \in Nat
      BY <2>1, NumberTypes
    <2>3. /\ Len(Append(entry, x)) = Len(entry) + 1
          /\ \A k \in 1..Len(Append(entry, x)) :
                Append(entry, x)[k] = IF k <= Len(entry) THEN entry[k] ELSE x
      BY ONLY <2>1, x \in Message, QueueFacts
    <2> QED BY <2>2, <2>3
  <1>2. \A y, p : Genuine(y, p)' <=> Genuine(y, p)
    BY DEF Genuine, Upto
  <1>3. ASSUME NEW k \in 1..Len(entry')
        PROVE  Genuine(entry[k], Len(exit) + Len(transit) + k)'
    <2>1. CASE k <= Len(entry)
      <3>1. k \in 1..Len(entry) /\ entry'[k] = entry[k]
        BY <1>1, <2>1
      <3>2. Genuine(entry'[k], Len(exit) + Len(transit) + k)
        BY <3>1 DEF Intact
      <3> QED BY <1>2, <3>2
    <2>2. CASE k > Len(entry)
      <3>1. k = Len(entry) + 1 /\ entry'[k] = x
        BY <1>1, <2>2
      <3>2. Len(exit) + Len(transit) + k = Len(exit) + Len(transit) + Len(entry) + 1
        BY <1>1, <3>1
      <3> QED BY <1>2, <3>1, <3>2
    <2> QED BY <1>1, <2>1, <2>2
  <1>4. /\ \A k \in 1..Len(exit') : k > taken' => Genuine(exit[k], k)'
        /\ \A k \in 1..Len(transit') : Genuine(transit[k], Len(exit) + k)'
    BY <1>2 DEF Intact
  <1> QED BY <1>3, <1>4 DEF Intact

\* What a step of the sender leaves alone.
LEMMA KnowsStays ==
    ASSUME UNCHANGED Others
    PROVE  Knows' <=> Knows
  BY DEF Others, Knows, Upto

\* What the sender puts into the stream is what belongs there.
LEMMA SenderIsGenuine ==
    ASSUME TInv, Intact, Whole, Sender
    PROVE  Intact' /\ UNCHANGED Others
  <1>0. /\ Len(entry) \in Nat /\ Len(transit) \in Nat /\ Len(exit) \in Nat
        /\ Acked \in Int /\ Ahead \in Int /\ Owed \in Int
        /\ Len(exit) + Len(transit) + Len(entry) = Acked + Owed
    BY NumberTypes DEF TInv, Whole
  <1>1. CASE SendWarm \/ SendName \/ SendSize
    <2> DEFINE x == IF spc = "warm" THEN text("warm", 0, MSGSIZE)
                    ELSE IF spc = "name" THEN text("name", 0, MSGSIZE)
                    ELSE text("size", size, 1)
    <2>1. entry' = Append(entry, x) /\ UNCHANGED Others
      BY <1>1 DEF SendWarm, SendName, SendSize, Put, Link!Put, run, receiver, Others
    <2>2. x \in Message
      BY MessageFacts DEF TInv
    <2>3. \A p : Genuine(x, p)
      BY DEF Genuine, text
    <2> HIDE DEF x
    <2> QED BY <2>1, <2>2, <2>3, PutIntact
  <1>2. CASE FillWindow \/ SendNext
    <2> DEFINE x == text("data", sent_size \div MSGSIZE + 1, fp2)
               n == Reads
    <2>1. /\ spc \in {"window", "body"} /\ (spc = "body" => sent_size < size)
          /\ entry' = Append(entry, x) /\ UNCHANGED Others
      BY <1>2 DEF FillWindow, SendNext, SendChunk, Put, Link!Put, run, receiver, Others
    <2>2. n \in Nat /\ sent_size = Upto(n) /\ sent_size \in Nat /\ size \in Int
      BY <2>1, SizeFacts DEF TInv, TypeOK, SenderAt, Header, Reads
    <2>3. size > 0
      BY <2>1, <2>2, SizeFacts, SMTT(20) DEF TInv, TypeOK, SenderAt
    <2>4. fp2 \in 0..MSGSIZE /\ sent_size + fp2 = Upto(n + 1)
      BY <2>2, <2>3, NextRead DEF TInv
    <2>5. entry' \in Seq(Message)
      BY <1>2, TInvStep DEF Sender, Next, TInv, TypeOK
    <2>6. x \in Message
      <3>1. Len(entry') = Len(entry) + 1 /\ entry'[Len(entry) + 1] = x
        BY <2>1 DEF TInv, TypeOK
      <3> QED BY <1>0, <2>5, <3>1
    <2>7. Owed = Ahead
      BY <2>1, NumberTypes DEF TInv, Waits
    <2>8. (Len(exit) + Len(transit) + Len(entry) + 1) - (COUNT + 2) = n + 1
      BY <1>0, <2>7 DEF Reads
    <2>9. Genuine(x, Len(exit) + Len(transit) + Len(entry) + 1)
      <3>1. x.kind = "data" /\ x.len = fp2
        BY DEF text
      <3>2. fp2 = Upto(n + 1) - Upto(n + 1 - 1)
        <4>1. n + 1 - 1 = n
          BY <2>2
        <4> QED BY <2>2, <2>4, <4>1
      <3> HIDE DEF x, n
      <3>3. x.len = Upto(n + 1) - Upto(n + 1 - 1)
        BY <3>1, <3>2
      <3>4. ASSUME NEW p, p - (COUNT + 2) = n + 1 PROVE Genuine(x, p)
        <4>1. x.kind # "size"
          BY <3>1
        <4>2. x.len = Upto(p - (COUNT + 2)) - Upto(p - (COUNT + 2) - 1)
          BY ONLY <3>3, <3>4, <2>2, n + 1 \in Int, p - (COUNT + 2) \in Int
        <4> QED BY ONLY <4>1, <4>2 DEF Genuine
      <3> QED BY <2>8, <3>4
    <2> HIDE DEF x, n
    <2> QED BY <2>1, <2>6, <2>9, PutIntact
  <1>3. CASE WarmAck \/ NameAck \/ SizeAck \/ BodyAck \/ AllSent \/ Drain
    <2>1. UNCHANGED Others /\ entry' = entry
      BY <1>3 DEF WarmAck, NameAck, SizeAck, BodyAck, AllSent, Drain, Check,
                  run, receiver, link, Others
    <2>2. \A y, p : Genuine(y, p)' <=> Genuine(y, p)
      BY <2>1 DEF Others, Genuine, Upto
    <2> QED BY <2>1, <2>2 DEF Intact, Others
  <1> QED BY <1>1, <1>2, <1>3 DEF Sender

\* The receiver learns the size of the file, and then counts as the sender does.
LEMMA ReceiverKnows ==
    ASSUME TInv, Whole, Intact, Knows, Receiver
    PROVE  Intact' /\ Knows'
  <1>0. /\ Len(entry) \in Nat /\ Len(transit) \in Nat /\ Len(exit) \in Nat /\ taken \in Nat
        /\ size \in Int /\ rsize \in Int /\ received_size \in Nat
    BY NumberTypes, SizeFacts DEF TInv, TypeOK
  <1>1. UNCHANGED <<size, entry, transit, exit>>
    BY DEF Receiver, Start, Echo, GetName, GetSize, GetChunk, Receive, run, sender, link
  <1>2. \A m : Upto(m)' = Upto(m)
    BY <1>1 DEF Upto
  <1>3. Intact'
    <2>1. taken' = taken \/ taken' = taken + 1
      BY DEF Receiver, Start, Echo, GetName, GetSize, GetChunk, Receive
    <2>2. \A k \in 1..Len(exit) : k > taken' => k > taken
      BY <1>0, <2>1
    <2>3. \A y, p : Genuine(y, p)' <=> Genuine(y, p)
      BY <1>1, <1>2 DEF Genuine
    <2> QED BY <1>1, <2>2, <2>3 DEF Intact
  <1>4. CASE Start
    <2>1. rpc = "init" /\ rpc' = "warm" /\ received_size' = received_size
      BY <1>4 DEF Start
    <2> QED BY <1>3, <2>1 DEF Knows
  <1>5. ASSUME taken < Len(exit)
        PROVE  /\ rpc = "size" => r.val = size
               /\ rpc = "body" =>
                    r.len = Upto((taken + 1) - (COUNT + 2)) - Upto((taken + 1) - (COUNT + 2) - 1)
    <2>1. taken + 1 \in 1..Len(exit) /\ taken + 1 > taken
      BY <1>0, <1>5
    <2>2. Genuine(r, taken + 1)
      BY <2>1 DEF Intact, r
    <2>3. /\ rpc = "size" => r.kind = "size"
          /\ rpc = "body" => r.kind = "data"
      BY <1>5, TakenForWhatItIs DEF Fits, r
    <2> HIDE DEF r
    <2>4. rpc = "size" => r.val = size
      BY ONLY <2>2, <2>3 DEF Genuine
    <2>5. rpc = "body" =>
             r.len = Upto((taken + 1) - (COUNT + 2)) - Upto((taken + 1) - (COUNT + 2) - 1)
      BY ONLY <2>2, <2>3 DEF Genuine
    <2> QED BY <2>4, <2>5
  <1>6. CASE Echo \/ GetName
    <2>1. rpc \in {"warm", "name"} /\ received_size' = received_size
          /\ rpc' \in {"warm", "name", "size"}
      BY <1>6 DEF Echo, GetName
    <2> QED BY <1>3, <2>1 DEF Knows
  <1>7. CASE GetSize
    <2>1. /\ rpc = "size" /\ rpc' = IF 0 < r.val THEN "body" ELSE "done"
          /\ rsize' = r.val /\ received_size' = received_size
          /\ taken < Len(exit) /\ taken' = taken + 1
      BY <1>7 DEF GetSize, Receive, Expects
    <2>2. r.val = size
      BY <1>5, <2>1
    <2>3. taken' - (COUNT + 2) = 0 /\ received_size' = 0
      BY <2>1 DEF TInv, ReceiverAt, Knows
    <2>4. Upto(0) = 0
      BY <1>0 DEF Upto
    <2>6. rpc' \in {"body", "done"} /\ rsize' = size' /\ (rpc' = "body" <=> 0 < size')
      BY <1>1, <2>1, <2>2
    <2>7. Upto(taken - (COUNT + 2))' = 0
      BY <1>1, <2>3, <2>4 DEF Upto
    <2> QED BY <1>3, <2>3, <2>6, <2>7 DEF Knows
  <1>8. CASE GetChunk
    <2> DEFINE j == taken - (COUNT + 2)
    <2>1. /\ rpc = "body" /\ received_size' = received_size + r.len /\ rsize' = rsize
          /\ rpc' = IF received_size + r.len < rsize THEN "body" ELSE "done"
          /\ taken < Len(exit) /\ taken' = taken + 1
      BY <1>8 DEF GetChunk, Receive, Expects
    <2>2. rsize = size /\ received_size = Upto(j)
      BY <2>1 DEF Knows
    <2>3. r.len = Upto((taken + 1) - (COUNT + 2)) - Upto((taken + 1) - (COUNT + 2) - 1)
      BY <1>5, <2>1
    <2>4. (taken + 1) - (COUNT + 2) = j + 1 /\ (taken + 1) - (COUNT + 2) - 1 = j
          /\ taken' - (COUNT + 2) = j + 1 /\ j \in Int
      BY <1>0, <2>1
    <2> HIDE DEF j
    <2>5. Upto(j) \in Int /\ Upto(j + 1) \in Int
      BY <1>0, <2>4 DEF Upto
    <2>6. r.len = Upto(j + 1) - Upto(j)
      BY <2>3, <2>4
    <2>7. received_size' = Upto(j + 1)
      BY <2>1, <2>2, <2>5, <2>6
    <2>8. Upto(taken - (COUNT + 2))' = Upto(j + 1)
      BY <1>1, <2>4 DEF Upto
    <2>9. rpc' \in {"body", "done"} /\ rsize' = size'
          /\ (rpc' = "body" <=> received_size' < size')
      BY <1>1, <2>1, <2>2
    <2> QED BY <1>3, <2>7, <2>8, <2>9 DEF Knows
  <1> QED BY <1>3, <1>4, <1>6, <1>7, <1>8 DEF Receiver

\* The emulator damages nothing, so what it moves on is what it was.
LEMMA EmulatorIsGenuine ==
    ASSUME TInv, Intact, Pure, Works
    PROVE  Intact'
  <1>0. /\ Len(entry) \in Nat /\ Len(transit) \in Nat /\ Len(exit) \in Nat /\ taken \in Nat
        /\ entry \in Seq(Message) /\ transit \in Seq(Message) /\ exit \in Seq(Message)
        /\ taken <= Len(exit)
    BY NumberTypes DEF TInv, TypeOK
  <1>1. UNCHANGED <<size, taken>>
    BY DEF Works, run, sender, receiver
  <1>2. \A y, p : Genuine(y, p)' <=> Genuine(y, p)
    BY <1>1 DEF Genuine, Upto
  <1>3. CASE \E x \in Message : Link!Accept(x) /\ (x.ok \/ "corrupt" \in emulator)
    <2>1. PICK y \in Message : Link!Accept(y) /\ y.ok
      BY <1>3 DEF Pure
    <2>2. /\ entry # <<>> /\ transit' = Append(transit, y) /\ entry' = Tail(entry)
          /\ exit' = exit
      BY <2>1 DEF Link!Accept
    <2>3. /\ Len(entry) > 0 /\ Head(entry) = entry[1] /\ Head(entry) \in Message
          /\ Len(entry') = Len(entry) - 1
          /\ \A k \in 1..Len(entry') : entry'[k] = entry[k + 1]
      BY <1>0, <2>2, QueueFacts
    <2>4. y = entry[1]
      <3>1. y \in {Head(entry)} \cup damaged(Head(entry))
        BY <2>1, <2>3 DEF Link!Accept
      <3>2. \A z \in damaged(Head(entry)) : ~z.ok
        BY <2>3, DamageFacts DEF TInv
      <3> QED BY <2>1, <2>3, <3>1, <3>2
    <2>5. /\ Len(transit') = Len(transit) + 1
          /\ \A k \in 1..Len(transit') :
               transit'[k] = IF k <= Len(transit) THEN transit[k] ELSE y
      BY <1>0, <2>1, <2>2, QueueFacts
    <2>6. ASSUME NEW k \in 1..Len(transit') PROVE Genuine(transit'[k], Len(exit') + k)
      <3>1. CASE k <= Len(transit)
        <4>1. k \in 1..Len(transit) /\ transit'[k] = transit[k]
          BY <1>0, <2>5, <3>1
        <4> QED BY <2>2, <4>1 DEF Intact
      <3>2. CASE k > Len(transit)
        <4>1. k = Len(transit) + 1 /\ transit'[k] = entry[1] /\ 1 \in 1..Len(entry)
          BY <1>0, <2>3, <2>4, <2>5, <3>2
        <4>2. Genuine(entry[1], Len(exit) + Len(transit) + 1)
          BY <4>1 DEF Intact
        <4>3. Len(exit) + Len(transit) + 1 = Len(exit') + k
          BY <1>0, <2>2, <4>1
        <4> QED BY <4>1, <4>2, <4>3
      <3> QED BY <1>0, <2>5, <3>1, <3>2
    <2>7. ASSUME NEW k \in 1..Len(entry')
          PROVE  Genuine(entry'[k], Len(exit') + Len(transit') + k)
      <3>1. k + 1 \in 1..Len(entry) /\ entry'[k] = entry[k + 1]
        BY <1>0, <2>3
      <3>2. Genuine(entry[k + 1], Len(exit) + Len(transit) + (k + 1))
        BY <3>1 DEF Intact
      <3>3. Len(exit) + Len(transit) + (k + 1) = Len(exit') + Len(transit') + k
        BY <1>0, <2>2, <2>5
      <3> QED BY <3>1, <3>2, <3>3
    <2>8. \A k \in 1..Len(exit') : k > taken' => Genuine(exit'[k], k)
      BY <1>1, <2>2 DEF Intact
    <2> QED BY <1>2, <2>6, <2>7, <2>8 DEF Intact
  <1>4. CASE rpc # "init" /\ Link!Deliver
    <2>1. /\ transit # <<>> /\ transit' = Tail(transit) /\ exit' = Append(exit, Head(transit))
          /\ entry' = entry
      BY <1>4 DEF Link!Deliver
    <2>2. /\ Len(transit) > 0 /\ Head(transit) = transit[1] /\ Head(transit) \in Message
          /\ Len(transit') = Len(transit) - 1
          /\ \A k \in 1..Len(transit') : transit'[k] = transit[k + 1]
      BY <1>0, <2>1, QueueFacts
    <2>3. /\ Len(exit') = Len(exit) + 1
          /\ \A k \in 1..Len(exit') :
               exit'[k] = IF k <= Len(exit) THEN exit[k] ELSE transit[1]
      BY <1>0, <2>1, <2>2, QueueFacts
    <2>4. ASSUME NEW k \in 1..Len(exit'), k > taken PROVE Genuine(exit'[k], k)
      <3>1. CASE k <= Len(exit)
        <4>1. k \in 1..Len(exit) /\ exit'[k] = exit[k]
          BY <1>0, <2>3, <3>1
        <4> QED BY <2>4, <4>1 DEF Intact
      <3>2. CASE k > Len(exit)
        <4>1. k = Len(exit) + 1 /\ exit'[k] = transit[1]
          BY <1>0, <2>3, <3>2
        <4>0. 1 \in 1..Len(transit)
          BY <1>0, <2>2
        <4>2. Genuine(transit[1], Len(exit) + 1)
          BY <4>0 DEF Intact
        <4> QED BY <4>1, <4>2
      <3> QED BY <1>0, <2>3, <3>1, <3>2
    <2>5. ASSUME NEW k \in 1..Len(transit') PROVE Genuine(transit'[k], Len(exit') + k)
      <3>1. k + 1 \in 1..Len(transit) /\ transit'[k] = transit[k + 1]
        BY <1>0, <2>2
      <3>2. Genuine(transit[k + 1], Len(exit) + (k + 1))
        BY <3>1 DEF Intact
      <3>3. Len(exit) + (k + 1) = Len(exit') + k
        BY <1>0, <2>3
      <3> QED BY <3>1, <3>2, <3>3
    <2>6. ASSUME NEW k \in 1..Len(entry')
          PROVE  Genuine(entry'[k], Len(exit') + Len(transit') + k)
      <3>1. Genuine(entry[k], Len(exit) + Len(transit) + k)
        BY <2>1 DEF Intact
      <3>2. Len(exit) + Len(transit) + k = Len(exit') + Len(transit') + k
        BY <1>0, <2>2, <2>3
      <3> QED BY <2>1, <3>1, <3>2
    <2> QED BY <1>1, <1>2, <2>4, <2>5, <2>6 DEF Intact
  <1> QED BY <1>3, <1>4 DEF Works

\* Only a loss makes the stream less than whole.
LEMMA WholeUnlessLost ==
    ASSUME TInv, [Next]_vars, ~Loses
    PROVE  Whole' <=> Whole
  <1>1. CASE Sender
    BY <1>1, HeaderPut, HeaderReply, BodyPut, BodyReply DEF Sender
  <1>2. CASE Receiver
    BY <1>2, ReceivePreserves
  <1>3. CASE Works
    <2>1. UNCHANGED Programs
      BY <1>3 DEF Works, Programs, run, sender, receiver
    <2>2. UnderWay' = UnderWay
      BY <1>3, <2>1, AcceptPreserves, DeliverPreserves DEF Works
    <2> QED BY <2>1, <2>2, ProgramsStay DEF Whole
  <1>4. CASE UNCHANGED vars
    <2>1. UNCHANGED Programs /\ UNCHANGED <<entry, transit, exit>>
      BY <1>4 DEF vars, Programs, run, sender, receiver, link
    <2>2. UnderWay' = UnderWay
      BY <2>1 DEF UnderWay, Programs
    <2> QED BY <2>1, <2>2, ProgramsStay DEF Whole
  <1> QED BY <1>1, <1>2, <1>3, <1>4 DEF Next

\* A file is read on only as far as the window goes, or as there is something to read.
LEMMA EnoughStep ==
    ASSUME TInv, [Next]_vars, Enough, spc = "crashed" => size = 0
    PROVE  Enough' /\ (spc' = "crashed" => size' = 0)
  <1>0. /\ Acked \in Int /\ Ahead \in Int /\ Window \in Nat /\ i \in Nat /\ size \in Int
        /\ acks \in Nat /\ taken \in Nat
    BY NumberTypes, SizeFacts DEF TInv, TypeOK
  <1>1. CASE Receiver \/ Works \/ Loses \/ UNCHANGED vars
    <2>1. UNCHANGED <<size, count, spc, i>> /\ Acked' = Acked
      <3>1. CASE Receiver
        BY <1>0, <3>1 DEF Receiver, Start, Echo, GetName, GetSize, GetChunk, Receive,
                          run, sender, link, Acked
      <3>2. CASE Works \/ Loses \/ UNCHANGED vars
        BY <3>2 DEF Works, Loses, vars, run, sender, receiver, Acked
      <3> QED BY <1>1, <3>1, <3>2
    <2>2. Ahead' = Ahead /\ Window' = Window /\ Chunks' = Chunks
      BY <2>1 DEF Ahead, Window, Chunks
    <2> QED BY <2>1, <2>2 DEF Enough, Reads
  <1>2. CASE Sender
    <2>1. UNCHANGED <<size, count, taken>>
      BY <1>2 DEF Sender, SendWarm, WarmAck, SendName, NameAck, SendSize, SizeAck, FillWindow,
                  SendChunk, SendNext, BodyAck, AllSent, Drain, Check, Put, run, receiver
    <2>2. Window' = Window /\ Chunks' = Chunks
      BY <2>1 DEF Window, Chunks
    <2>3. CASE SendWarm \/ SendName \/ SendSize \/ WarmAck \/ NameAck
      <3>1. spc' \in Header
        BY <2>3 DEF SendWarm, SendName, SendSize, WarmAck, NameAck, Header
      <3> QED BY <3>1 DEF Enough, Header
    <2>4. CASE SizeAck
      <3>1. /\ spc = "size_ack" /\ acks' = acks - 1 /\ i' = i
            /\ spc' = IF size = 0 THEN "crashed" ELSE IF 0 < Window THEN "window" ELSE "body"
        BY <2>4 DEF SizeAck, Check
      <3>2. Acked' = COUNT + 2
        BY <1>0, <2>1, <3>1 DEF TInv, SenderAt, Acked
      <3>3. i = 0
        BY <3>1 DEF TInv, SenderAt, Header
      <3>4. Ahead' = 0
        BY <1>0, <2>2, <3>1, <3>3 DEF Ahead
      <3> QED BY <1>0, <2>1, <2>2, <3>1, <3>2, <3>4 DEF Enough, Reads
    <2>5. CASE FillWindow
      <3>1. /\ spc = "window" /\ acks' = acks /\ i' = i + 1
            /\ spc' = IF i + 1 < Window THEN "window" ELSE "body"
        BY <2>5 DEF FillWindow, SendChunk, Put
      <3>2. Acked' = COUNT + 2 /\ i < Window
        BY <2>1, <3>1 DEF TInv, SenderAt, Acked
      <3>3. Ahead' \in Int /\ Ahead' <= Window
        BY <1>0, <2>2, <3>1, <3>2 DEF Ahead
      <3>4. Reads' <= Window'
        <4>1. Reads' = (COUNT + 2) + Ahead' - (COUNT + 2)
          BY <3>2 DEF Reads
        <4>2. \A a \in Int : (COUNT + 2) + a - (COUNT + 2) = a
          OBVIOUS
        <4>3. Reads' = Ahead'
          BY ONLY <3>3, <4>1, <4>2, Zenon
        <4> QED BY ONLY <2>2, <3>3, <4>3, Zenon
      <3>5. spc' # "crashed"
        BY <3>1
      <3> QED BY <3>4, <3>5 DEF Enough
    <2>6. CASE SendNext \/ AllSent
      <3>1. /\ spc = "body" /\ acks' = acks
            /\ \/ spc' = "body_ack"
               \/ i' = 0 /\ spc' = IF 0 < Window THEN "drain" ELSE "done"
        BY <2>6 DEF SendNext, AllSent, SendChunk, Put
      <3>2. Acked' = Acked
        BY <2>1, <3>1 DEF Acked
      <3>3. Ahead' = Ahead
        BY <1>0, <2>2, <3>1 DEF Ahead
      <3> QED BY <2>2, <3>1, <3>2, <3>3 DEF Enough, Reads, Header
    <2>7. CASE BodyAck
      <3>1. spc = "body_ack" /\ acks' = acks - 1 /\ spc' = "body"
        BY <2>7 DEF BodyAck, Check
      <3>2. Reads \in Nat /\ sent_size = Upto(Reads) /\ sent_size < size
        BY <3>1 DEF TInv, SenderAt, Header, Reads
      <3>3. size > 0 /\ Reads * MSGSIZE < size
        BY <1>0, <3>2 DEF Upto
      <3>4. Chunks \in Nat /\ Reads < Chunks
        BY <3>2, <3>3, ChunksAre DEF TInv
      <3>5. Acked' = Acked + 1 /\ Ahead' = Ahead
        BY <1>0, <2>1, <2>2, <3>1 DEF Acked, Ahead
      <3>6. Reads' = Reads + 1
        BY <1>0, <3>5 DEF Reads
      <3> QED BY <2>2, <3>1, <3>2, <3>4, <3>6 DEF Enough
    <2>8. CASE Drain
      <3>1. /\ spc = "drain" /\ acks' = acks - 1 /\ i' = i + 1
            /\ spc' = IF i + 1 >= Window THEN "done" ELSE "drain"
        BY <2>8 DEF Drain, Drained, Check
      <3>2. i < Window
        BY <3>1 DEF TInv, SenderAt
      <3>3. Acked' = Acked + 1 /\ Ahead' = Ahead - 1
        BY <1>0, <2>1, <2>2, <3>1, <3>2 DEF Acked, Ahead
      <3>4. Reads' = Reads
        BY <1>0, <3>3 DEF Reads
      <3> QED BY <2>2, <3>1, <3>4 DEF Enough, Header
    <2> QED BY <1>2, <2>3, <2>4, <2>5, <2>6, <2>7, <2>8 DEF Sender
  <1> QED BY <1>1, <1>2 DEF Next

LEMMA GInvInit == Init => GInv
  <1> SUFFICES ASSUME Init PROVE GInv
    OBVIOUS
  <1>1. entry = <<>> /\ transit = <<>> /\ exit = <<>> /\ rpc = "init" /\ spc = "warm"
        /\ received_size = 0
    BY DEF Init, Link!Init
  <1>2. Intact /\ Knows
    BY <1>1 DEF Intact, Knows
  <1> QED BY <1>1, <1>2 DEF GInv, Enough, Header

LEMMA GInvStep == TInv /\ GInv /\ [Next]_vars => GInv'
  <1> SUFFICES ASSUME TInv, GInv, [Next]_vars PROVE GInv'
    OBVIOUS
  <1>1. Enough' /\ (spc' = "crashed" => size' = 0)
    BY EnoughStep DEF GInv
  <1>2. ASSUME Pure', Whole' PROVE Intact' /\ Knows'
    <2>1. UNCHANGED emulator
      BY DEF Next, Sender, SendWarm, WarmAck, SendName, NameAck, SendSize, SizeAck, FillWindow,
             SendNext, SendChunk, BodyAck, AllSent, Drain, Check, Put, Receiver, Start, Echo,
             GetName, GetSize, GetChunk, Receive, Works, Loses, vars, run
    <2>2. Pure
      BY <1>2, <2>1 DEF Pure
    <2>3. CASE Loses
      <3>1. UNCHANGED Programs
        BY <2>3 DEF Loses, Programs, run, sender, receiver
      <3>2. ~Whole'
        BY <2>3, <3>1, LossPreserves DEF Loses
      <3> QED BY <1>2, <3>2
    <2>4. CASE ~Loses
      <3>1. Whole /\ Intact /\ Knows
        BY <1>2, <2>2, <2>4, WholeUnlessLost DEF GInv
      <3>2. CASE Sender
        BY <3>1, <3>2, SenderIsGenuine, KnowsStays
      <3>3. CASE Receiver
        BY <3>1, <3>3, ReceiverKnows
      <3>4. CASE Works
        <4>1. Knows' <=> Knows
          BY <3>4 DEF Works, run, receiver, Knows, Upto
        <4> QED BY <2>2, <3>1, <3>4, <4>1, EmulatorIsGenuine
      <3>5. CASE UNCHANGED vars
        BY <3>1, <3>5 DEF vars, run, receiver, link, Intact, Knows, Genuine, Upto
      <3> QED BY <2>4, <3>2, <3>3, <3>4, <3>5 DEF Next
    <2> QED BY <2>3, <2>4
  <1> QED BY <1>1, <1>2 DEF GInv

LEMMA GInvIsEnd == TInv /\ GInv => RestIsEnd
  <1> SUFFICES ASSUME TInv, GInv, Pure, Whole, Window <= Chunks, AtRest
               PROVE  rpc = "done" /\ spc = IF size = 0 THEN "crashed" ELSE "done"
    BY DEF RestIsEnd
  <1>0. /\ Len(exit) \in Nat /\ taken \in Nat /\ taken <= Len(exit) /\ acks \in Nat
        /\ Acked \in Int /\ Ahead \in Int /\ Owed \in Int /\ Window \in Nat /\ i \in Nat
        /\ size \in Int /\ size >= -1
        /\ Owed = IF spc \in Waits THEN Ahead + 1 ELSE Ahead
        /\ rpc \in {"init", "warm", "name", "size", "body", "done"}
    BY NumberTypes, SizeFacts DEF TInv, TypeOK
  <1>1. Len(exit) - taken + acks = Owed
    <2>1. Len(entry) = 0 /\ Len(transit) = 0
      BY DEF AtRest
    <2> QED BY <1>0, <2>1 DEF Whole, UnderWay
  <1>2. Knows
    BY DEF GInv
  <1>3. acks = 0 /\ Acked = taken
    <2>1. CASE spc \in {"done", "crashed"}
      <3>1. Owed = 0
        BY <2>1 DEF Owed, Ahead, Waits
      <3> QED BY <1>0, <1>1, <3>1 DEF Acked
    <2>2. CASE spc \notin {"done", "crashed"}
      BY <1>0, <2>2 DEF AtRest, Acked
    <2> QED BY <2>1, <2>2
  <1>4. spc \in Waits \cup {"drain"} => Owed >= 1
    <2>1. spc \in {"warm_ack", "name_ack", "size_ack"} => Ahead = 0
      BY DEF Ahead
    <2>2. spc = "body_ack" => Ahead = Window
      BY DEF Ahead
    <2>3. spc = "drain" => Ahead = Window - i /\ i < Window
      BY DEF TInv, SenderAt, Ahead
    <2> QED BY <1>0, <2>1, <2>2, <2>3 DEF Waits
  <1>5. spc \notin Header =>
           /\ taken >= COUNT + 2 /\ Reads \in Nat /\ sent_size = Upto(Reads)
           /\ Reads = taken + Ahead - (COUNT + 2)
    BY <1>0, <1>3 DEF TInv, SenderAt, Reads
  <1>6. CASE rpc # "done"
    <2>1. taken = Len(exit)
      BY <1>6 DEF AtRest
    <2>2. spc \in {"done", "crashed"}
      BY <1>0, <1>1, <1>3, <1>4, <2>1 DEF AtRest
    <2>3. Ahead = 0 /\ spc \notin Header
      BY <2>2 DEF Ahead, Header
    <2>4. taken >= COUNT + 2 /\ Reads = taken - (COUNT + 2)
      BY <1>0, <1>5, <2>3
    <2>5. rpc = "body"
      BY <1>0, <1>6, <2>1, <2>4 DEF TInv, ReceiverAt
    <2>6. received_size = sent_size /\ received_size < size
      BY <1>2, <1>5, <2>3, <2>4, <2>5 DEF Knows
    <2>7. sent_size \in Nat /\ (spc = "done" => sent_size >= size)
      BY DEF TInv, TypeOK, SenderAt
    <2>8. spc = "crashed" => size = 0
      BY DEF GInv
    <2> QED BY <1>0, <2>2, <2>6, <2>7, <2>8
  <1>7. CASE rpc = "done"
    <2> DEFINE j == taken - (COUNT + 2)
    <2>1. j \in Nat /\ received_size = Upto(j) /\ ~(received_size < size)
      BY <1>0, <1>2, <1>7 DEF Knows, TInv, ReceiverAt
    <2>2. spc \notin {"warm_ack", "name_ack", "size_ack"}
      BY <1>0, <1>3, <2>1 DEF TInv, SenderAt
    <2>3. size > 0 => Chunks \in Nat /\ Chunks <= j
      <3>1. ASSUME size > 0 PROVE Chunks \in Nat /\ (j < Chunks <=> j * MSGSIZE < size)
        BY <2>1, <3>1, ChunksAre DEF TInv
      <3>2. ASSUME size > 0 PROVE ~(j * MSGSIZE < size)
        <4>1. j * MSGSIZE \in Nat
          BY <2>1
        <4> HIDE DEF j
        <4> QED BY <1>0, <2>1, <3>2, <4>1 DEF Upto
      <3> HIDE DEF j
      <3> QED BY <2>1, <3>1, <3>2
    <2>4. spc # "body_ack"
      <3> SUFFICES ASSUME spc = "body_ack" PROVE FALSE
        OBVIOUS
      <3>1. Ahead = Window /\ sent_size < size /\ spc \notin Header
        BY DEF Ahead, TInv, SenderAt, Header
      <3>2. size > 0 /\ Reads * MSGSIZE < size
        BY <1>0, <1>5, <3>1 DEF Upto
      <3>3. Reads < Chunks
        BY <1>5, <3>1, <3>2, ChunksAre DEF TInv
      <3> QED BY <1>0, <1>5, <2>3, <3>1, <3>2, <3>3
    <2>5. spc # "drain"
      <3> SUFFICES ASSUME spc = "drain" PROVE FALSE
        OBVIOUS
      <3>1. Ahead = Window - i /\ i < Window /\ spc \notin Header
        BY DEF Ahead, TInv, SenderAt, Header
      <3>2. size > 0
        BY <1>0, <3>1, SizeFacts DEF TInv
      <3>3. Reads <= Chunks
        BY <1>0, <1>5, <2>3, <3>1, <3>2 DEF GInv, Enough
      <3> QED BY <1>0, <1>5, <2>3, <3>1, <3>2, <3>3
    <2>6. spc \in {"done", "crashed"}
      BY <2>2, <2>4, <2>5 DEF AtRest, Waits
    <2>7. (spc = "crashed" => size = 0) /\ (size = 0 => spc \in Header \cup {"crashed"})
      BY DEF GInv, TInv, SenderAt
    <2> QED BY <1>7, <2>6, <2>7 DEF Header
  <1> QED BY <1>6, <1>7

\* For every file and every window that the file fills: as long as nothing is lost or
\* damaged, the two programs are never waiting for each other with nothing under way, or
\* one for another that has ended.  This is what the sender and the receiver of lab 3,
\* which have no timer, rely on in recv_message().
THEOREM NobodyWaitsForNothing == Spec => []RestIsEnd
  <1>1. Spec => [](TInv /\ GInv)
    <2>1. Init => TInv /\ GInv
      BY TInvInit, GInvInit
    <2>2. TInv /\ GInv /\ [Next]_vars => (TInv /\ GInv)'
      BY TInvStep, GInvStep
    <2> QED BY <2>1, <2>2, PTL DEF Spec
  <1> QED BY <1>1, GInvIsEnd, PTL

\* The count of what is under way falls short of what the sender owes only when the
\* emulator loses a message: no other step of any program changes the difference.
THEOREM OnlyLossesAreMissed == Spec => [][Whole /\ ~Whole' => Loses]_vars
  <1>1. TInv /\ [Next]_vars => [Whole /\ ~Whole' => Loses]_vars
    BY WholeUnlessLost
  <1> QED BY <1>1, TInvHolds, PTL DEF Spec

=============================================================================
