---------------------------- MODULE StopAndWait ----------------------------
(***************************************************************************)
(* The file transfer of lab 2: send.c and recv.c with the emulator between *)
(* them.  The sender waits for a reply after every message; neither has a  *)
(* timer, and a message does not say what it is.                           *)
(***************************************************************************)
EXTENDS Integers, Sequences

CONSTANTS
    MAX_LEN,    \* payload bytes of a message (1400)
    FileSizes,  \* sizes of the file; -1 if it cannot be opened
    Troubles    \* of the emulator: subsets of {"loss", "corrupt", "assert"}

ASSUME StopAndWaitAssumption ==
    /\ MAX_LEN \in Nat \ {0}
    /\ FileSizes \subseteq Nat \cup {-1}
    /\ Troubles \subseteq SUBSET {"loss", "corrupt", "assert"}

VARIABLES
    fsize, trouble,     \* the run: chosen at the start
    send_at, awaits,    \* sender: what it sends next; in recv_message()
    sent_size,          \* sender
    recv_at, opened,    \* receiver: what it takes the next message for
    rsize, got, copy,   \* receiver; copy is what it has written, chunk by chunk
    wire, inbox,        \* messages before and behind the emulator
    acks                \* on their way back; nothing in them is looked at

sw_run   == <<fsize, trouble>>
sw_send  == <<send_at, awaits, sent_size>>
sw_recv  == <<recv_at, opened, rsize, got, copy>>
stopwait == <<sw_run, sw_send, sw_recv, wire, inbox, acks>>

\* A payload is a name, a number, or the bytes of a chunk, here its number.
Datagram == [kind : {"dummy", "name", "size", "data"}, val : Int, len : 0..MAX_LEN]

StopAndWaitInit ==
    /\ fsize \in FileSizes /\ trouble \in Troubles
    /\ send_at = "dummy" /\ awaits = FALSE /\ sent_size = 0
    /\ recv_at = "absent" /\ opened = FALSE /\ rsize = 0 /\ got = 0 /\ copy = <<>>
    /\ wire = <<>> /\ inbox = <<>> /\ acks = 0

-----------------------------------------------------------------------------
(* send.c                                                                   *)

\* What read() returns.
nextBytes == IF fsize - sent_size < MAX_LEN THEN fsize - sent_size ELSE MAX_LEN

Chunk(n) == (n + MAX_LEN - 1) \div MAX_LEN

SendFile ==
    /\ send_at # "done" /\ ~awaits /\ awaits' = TRUE
    /\ wire' = Append(wire,
                  [kind |-> send_at,
                   val |-> CASE send_at = "size" -> fsize
                             [] send_at = "data" -> Chunk(sent_size) + 1
                             [] OTHER -> 0,
                   len |-> IF send_at = "data" THEN nextBytes ELSE 1])
    /\ UNCHANGED <<sw_run, send_at, sent_size, sw_recv, inbox, acks>>

\* Variant: recv_message() does not block.
after_checkNo(n) == {IF n > 0 THEN n - 1 ELSE 0}
\* What is left of n replies, if there is one to be had.
after_check(n) == {n - 1} \cap Nat

\* check() and what follows it, up to the next message.
Checked ==
    /\ awaits /\ acks' \in after_check(acks)
    /\ awaits' = FALSE
    /\ sent_size' = IF send_at = "data" THEN sent_size + nextBytes ELSE sent_size
    /\ send_at' = CASE send_at = "dummy" -> "name"
                    [] send_at = "name"  -> "size"
                    [] OTHER -> IF sent_size' < fsize THEN "data" ELSE "done"
    /\ UNCHANGED <<sw_run, sw_recv, wire, inbox>>

-----------------------------------------------------------------------------
(* recv.c                                                                   *)

\* init() sends a datagram that tells the emulator where the receiver is.
Appears ==
    /\ recv_at = "absent" /\ recv_at' = "dummy"
    /\ UNCHANGED <<sw_run, sw_send, opened, rsize, got, copy, wire, inbox, acks>>

\* Variant: the comparison of the loop is "<=".
moreToComeLate(n, all) == n <= all
moreToCome(n, all) == n < all

\* A message, taken for what is due, and the reply.  open() may fail, and then
\* write() does: neither is looked at.
ReceiveFile ==
    /\ inbox # <<>> /\ recv_at \notin {"absent", "done"}
    /\ inbox' = Tail(inbox) /\ acks' = acks + 1
    /\ LET r == Head(inbox)
       IN  \/ /\ recv_at = "dummy" /\ recv_at' = "name"
              /\ UNCHANGED <<opened, rsize, got, copy>>
           \/ /\ recv_at = "name" /\ recv_at' = "size"
              /\ opened' \in BOOLEAN
              /\ UNCHANGED <<rsize, got, copy>>
           \/ /\ recv_at = "size" /\ rsize' = r.val
              /\ recv_at' = IF moreToCome(0, r.val) THEN "data" ELSE "done"
              /\ UNCHANGED <<opened, got, copy>>
           \/ /\ recv_at = "data" /\ got' = got + r.len
              /\ copy' = IF opened THEN Append(copy, r) ELSE copy
              /\ recv_at' = IF moreToCome(got', rsize) THEN "data" ELSE "done"
              /\ UNCHANGED <<opened, rsize>>
    /\ UNCHANGED <<sw_run, sw_send, wire>>

-----------------------------------------------------------------------------
(* The emulator.  What it does between the two sockets is Link's subject;   *)
(* here it passes a message on in one step.                                 *)

sw_kept == <<sw_run, sw_send, sw_recv, acks>>

\* One byte of the payload is replaced: atoi() makes some other number of a size.
\* In another message there is nothing that is looked at.
damagedTo(m) ==
    IF "corrupt" \in trouble /\ m.kind = "size"
    THEN {[m EXCEPT !.val = v] : v \in {-1, 0, fsize - 1, fsize + 1}}
    ELSE {}

Forwards ==
    /\ wire # <<>> /\ recv_at # "absent"
    /\ wire' = Tail(wire)
    /\ \E m \in {Head(wire)} \cup damagedTo(Head(wire)) : inbox' = Append(inbox, m)
    /\ UNCHANGED sw_kept

\* It is told to lose messages, it does not know the receiver yet, or its
\* assertion has failed and it is no longer there.
Discards ==
    /\ wire # <<>> /\ (trouble \cap {"loss", "assert"} # {} \/ recv_at = "absent")
    /\ wire' = Tail(wire) /\ UNCHANGED <<inbox, sw_kept>>

StopAndWaitNext == SendFile \/ Checked \/ Appears \/ ReceiveFile \/ Forwards \/ Discards

\* Both programs run, and so does the emulator.
StopAndWaitFairness ==
    /\ WF_stopwait(SendFile \/ Checked) /\ WF_stopwait(Appears \/ ReceiveFile)
    /\ WF_stopwait(Forwards)

-----------------------------------------------------------------------------
(* Properties                                                               *)

StopAndWaitTypeOK ==
    /\ fsize \in FileSizes /\ trouble \in Troubles
    /\ send_at \in {"dummy", "name", "size", "data", "done"} /\ awaits \in BOOLEAN
    /\ recv_at \in {"absent", "dummy", "name", "size", "data", "done"}
    /\ opened \in BOOLEAN /\ sent_size \in Nat /\ rsize \in Int /\ got \in Nat
    /\ copy \in Seq(Datagram) /\ wire \in Seq(Datagram) /\ inbox \in Seq(Datagram)
    /\ acks \in Nat

\* Whatever is lost, damaged or refused: the receiver takes a message for what it
\* was sent as, as long as it takes any; what it writes is the chunks of the
\* file in their order; and a sender that ends has had every one of them taken.
CopyIsFile ==
    /\ recv_at \notin {"absent", "done"} =>
           \A k \in DOMAIN inbox : k = 1 /\ inbox[k].kind = recv_at
    /\ \A k \in DOMAIN copy : copy[k].kind = "data" /\ copy[k].val = k
    /\ send_at = "done" =>
           IF opened THEN Len(copy) = Chunk(IF fsize > 0 THEN fsize ELSE 0)
                     ELSE copy = <<>>

\* If the receiver is there in time and the emulator neither loses nor damages
\* nor stops, both programs come to their end.
StopAndWaitEnds ==
    (trouble = {} /\ recv_at = "dummy" /\ send_at = "dummy" /\ ~awaits)
        ~> (send_at = "done" /\ recv_at = "done")
=============================================================================
