------------------------------ MODULE Checksum ------------------------------
(***************************************************************************)
(* The Internet checksum as the routers and ping compute it: ip_checksum() *)
(* adds 32-bit blocks that are aligned in memory and folds the sum at the  *)
(* end, icmp_checksum() adds 16-bit words as the machine reads them.       *)
(***************************************************************************)
EXTENDS Integers, Sequences

CONSTANTS
    Octet,      \* values of a byte (2^8)
    Contents,   \* the bytes to be summed
    WordsOnly   \* those of icmp_checksum(): even, and no more than two folds can carry

Word16 == Octet * Octet
Word32 == Word16 * Word16

ASSUME ChecksumAssumption ==
    /\ Octet \in Nat /\ Octet >= 2
    /\ Contents \subseteq Seq(0..Octet - 1) /\ WordsOnly \subseteq Contents
    /\ \A c \in WordsOnly : Len(c) % 2 = 0 /\ Len(c) <= 2 * Word16

VARIABLES
    vdata, start,   \* the bytes, and their address modulo 4
    of_icmp,        \* which of the two functions
    position,       \* bytes that have been added
    acc,            \* cksum, in icmp_checksum(); neither overflows
    summing,        \* "start", "blocks", "carries", "done"
    checksum        \* the two bytes that the result is in memory

summed == <<vdata, start, of_icmp, position, acc, summing, checksum>>

ChecksumInit ==
    /\ \/ of_icmp = FALSE /\ vdata \in Contents /\ start \in 0..3
       \/ of_icmp = TRUE /\ vdata \in WordsOnly /\ start = 0
    /\ position = 0 /\ acc = IF of_icmp THEN 0 ELSE Word16 - 1
    /\ summing = "start" /\ checksum = <<0, 0>>

Remaining == Len(vdata) - position

\* The value of a block of 4 that holds the next n bytes from place first on,
\* and 0 elsewhere; ntohl() makes the first byte the highest.
Block(first, n) ==
    LET byte(k) == IF k \in first + 1..first + n THEN vdata[position + k - first] ELSE 0
    IN  Word16 * (Octet * byte(1) + byte(2)) + Octet * byte(3) + byte(4)

Adds(first, n) == acc' = acc + Block(first, n) /\ position' = position + n

\* The bytes before the first aligned address, if there are any.
PartialStart ==
    /\ summing = "start" /\ summing' = "blocks"
    /\ IF start = 0 THEN UNCHANGED <<acc, position>>
       ELSE Adds(start, IF 4 - start > Len(vdata) THEN Len(vdata) ELSE 4 - start)
    /\ UNCHANGED <<vdata, start, of_icmp, checksum>>

WholeBlock ==
    /\ summing = "blocks" /\ ~of_icmp /\ Remaining >= 4
    /\ Adds(0, 4)
    /\ UNCHANGED <<vdata, start, of_icmp, summing, checksum>>

PartialEnd ==
    /\ summing = "blocks" /\ ~of_icmp /\ Remaining < 4
    /\ summing' = "carries"
    /\ Adds(0, Remaining)
    /\ UNCHANGED <<vdata, start, of_icmp, checksum>>

\* A round of icmp_checksum(), on a machine whose words begin with the low byte.
AddWord ==
    /\ summing = "blocks" /\ of_icmp
    /\ IF Remaining = 0
       THEN summing' = "carries" /\ UNCHANGED <<acc, position>>
       ELSE /\ acc' = acc + vdata[position + 1] + Octet * vdata[position + 2]
            /\ position' = position + 2 /\ UNCHANGED summing
    /\ UNCHANGED <<vdata, start, of_icmp, checksum>>

Fold(n, w) == (n % w) + (n \div w)

\* Variant: carries are added once.
FoldedOnce(n) == Fold(Fold(n, Word32), Word16) % Word16
\* The fold to 32 bits, and then to 16 until nothing is carried.
fold[x \in Nat] == IF x < Word16 THEN x ELSE fold[Fold(x, Word16)]
Folded(n) == fold[Fold(n, Word32)]

Swapped(n) == Octet * (n % Octet) + (n \div Octet)
Bytes(n)   == <<n \div Octet, n % Octet>>
Not(n)     == Word16 - 1 - n

\* icmp_checksum() folds twice and leaves the byte order to the machine.
Carries ==
    /\ summing = "carries" /\ summing' = "done"
    /\ checksum' =
         IF of_icmp
         THEN LET once  == Fold(acc, Word16)
                  twice == (once + (once \div Word16)) % Word16
              IN  Bytes(Swapped(Not(twice)))
         ELSE Bytes(Not(IF start % 2 = 1 THEN Swapped(Folded(acc)) ELSE Folded(acc)))
    /\ UNCHANGED <<vdata, start, of_icmp, position, acc>>

ChecksumNext == PartialStart \/ WholeBlock \/ PartialEnd \/ AddWord \/ Carries

-----------------------------------------------------------------------------
(* Properties                                                               *)

ChecksumTypeOK ==
    /\ vdata \in Contents /\ start \in 0..3 /\ of_icmp \in BOOLEAN
    /\ position \in 0..Len(vdata) /\ acc \in Nat
    /\ summing \in {"start", "blocks", "carries", "done"}
    /\ checksum \in (0..Octet - 1) \X (0..Octet - 1)

\* The 16-bit words of the bytes, as the network has them, added up.
Weight(k) == IF k % 2 = 1 THEN Octet ELSE 1
NetworkSums(bytes) ==
    LET sum[k \in 0..Len(bytes)] == IF k = 0 THEN 0 ELSE sum[k - 1] + Weight(k) * bytes[k]
    IN  sum
NetworkSum(bytes) == NetworkSums(bytes)[Len(bytes)]

\* Whatever the address, the length and the carries: with the checksum among
\* them the words add up to a multiple of 2^16 - 1, so that whoever verifies them
\* gets 0, as the routers do that drop a packet for anything else; ip_checksum()
\* never gives the other zero.
ChecksumVerifies ==
    summing = "done" =>
        /\ (NetworkSum(vdata) + NetworkSum(checksum)) % (Word16 - 1) = 0
        /\ ~of_icmp => checksum # Bytes(Word16 - 1)
=============================================================================
