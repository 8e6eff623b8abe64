------------------------------- MODULE Backup -------------------------------
(***************************************************************************)
(* The backup of lab 6: a client sends the number of its files, and each   *)
(* file as its name, its contents in chunks and an end mark, all in UDP    *)
(* datagrams that nobody acknowledges; the server tells them apart by      *)
(* their order alone.                                                      *)
(***************************************************************************)
EXTENDS Integers, Sequences

CONSTANTS
    Scripts,        \* what the client may be given: sequences of files
    NameLength,     \* bound: length of a name
    Disturbances    \* what UDP may do: sets of "lose", "reorder"

\* A file: the length of its name, if a chunk begins like the end mark, and if
\* the client can open it.
File == [length : 1..NameLength, marked : Seq(BOOLEAN), there : BOOLEAN]

ASSUME BackupAssumption ==
    /\ NameLength \in Nat \ {0} /\ Scripts \subseteq Seq(File)
    /\ Disturbances \subseteq SUBSET {"lose", "reorder"}

VARIABLES
    files,      \* the client's
    disturbed,  \* which of Disturbances this run has
    sending,    \* <<file, part>>: part 0 is the name, the last is the mark
    sender_at,  \* "count", "files", "done", "died"
    datagrams,  \* on their way
    numFiles,
    taken,      \* i: files the server is through with
    nF,         \* the buffer of a name: whose character is at each place
    fd,         \* the name of the file that is open
    stored,     \* name of a file -> what has been written to it
    backup_at   \* "count", "name", "chunks", "done", "died"

backup == <<files, disturbed, sending, sender_at, datagrams, numFiles, taken, nF,
            fd, stored, backup_at>>

Nul == 0
Junk == -1
Buffer == [1..NameLength -> Nat \cup {Junk}]
\* What is written from one datagram: which part of which file it is.
Part == [of : Nat, part : Nat]

BackupInit ==
    /\ files \in Scripts /\ disturbed \in Disturbances
    /\ sending = <<1, 0>> /\ sender_at = "count" /\ datagrams = <<>>
    /\ numFiles = 0 /\ taken = 0
    /\ nF \in [1..NameLength -> {Nul, Junk}]      \* not initialized
    /\ fd = <<>> /\ stored = [n \in {} |-> <<>>] /\ backup_at = "count"

Dgram(kind, f, p) == [kind |-> kind, of |-> f, part |-> p]

SendCount ==
    /\ sender_at = "count" /\ sender_at' = "files"
    /\ datagrams' = Append(datagrams, Dgram("count", 0, Len(files)))
    /\ UNCHANGED <<files, disturbed, sending, numFiles, taken, nF, fd, stored, backup_at>>

\* Variant: the mark goes before the last chunk.
KindOfEarly(f, p) ==
    IF p = 0 THEN "name" ELSE IF p = Len(files[f].marked) THEN "end" ELSE "chunk"
KindOf(f, p) ==
    IF p = 0 THEN "name" ELSE IF p <= Len(files[f].marked) THEN "chunk" ELSE "end"

\* A file that cannot be opened ends the client; the number has been sent.
SendPart ==
    LET f == sending[1]
        p == sending[2]
    IN  /\ sender_at = "files"
        /\ \/ f > Len(files) /\ sender_at' = "done" /\ UNCHANGED <<sending, datagrams>>
           \/ /\ f <= Len(files) /\ ~files[f].there
              /\ sender_at' = "died" /\ UNCHANGED <<sending, datagrams>>
           \/ /\ f <= Len(files) /\ files[f].there
              /\ datagrams' = Append(datagrams, Dgram(KindOf(f, p), f, p))
              /\ sending' = IF p > Len(files[f].marked) THEN <<f + 1, 0>> ELSE <<f, p + 1>>
              /\ UNCHANGED sender_at
        /\ UNCHANGED <<files, disturbed, numFiles, taken, nF, fd, stored, backup_at>>

Without(k) == [j \in 1..(Len(datagrams) - 1) |->
                 IF j < k THEN datagrams[j] ELSE datagrams[j + 1]]

LoseDatagram(k) ==
    /\ "lose" \in disturbed /\ datagrams' = Without(k)
    /\ UNCHANGED <<files, disturbed, sending, sender_at, numFiles, taken, nF, fd, stored,
                   backup_at>>

\* recvfrom() of the k-th datagram.
Comes(k) ==
    /\ k = 1 \/ "reorder" \in disturbed
    /\ datagrams' = Without(k)

\* atoi() of a number without an end, of a name, of a mark, or of any bytes.
Number(d) ==
    CASE d.kind = "count" -> {d.part, 10 * d.part}
      [] d.kind = "chunk" -> 0..(Len(files) + 1)
      [] OTHER -> {0}

ReceiveCount(k) ==
    /\ backup_at = "count" /\ Comes(k)
    /\ numFiles' \in Number(datagrams[k])
    /\ backup_at' = IF numFiles' = 0 THEN "done" ELSE "name"
    /\ UNCHANGED <<files, disturbed, sending, sender_at, taken, nF, fd, stored>>

\* strncpy() copies no NUL: the places behind the name keep what they had.
Copied(d) ==
    [p \in 1..NameLength |->
       CASE d.kind = "name" -> IF p <= files[d.of].length THEN d.of ELSE nF[p]
         [] OTHER -> Junk]
\* The string in the buffer, which ends before the first NUL.
Named(buffer) ==
    LET ends == {p \in 1..NameLength : buffer[p] = Nul}
    IN  IF ends = {} THEN buffer
        ELSE SubSeq(buffer, 1, (CHOOSE p \in ends : \A j \in ends : p <= j) - 1)

\* Bytes that are no name may be one that open() refuses.
ReceiveName(k) ==
    /\ backup_at = "name" /\ Comes(k)
    /\ nF' = Copied(datagrams[k])
    /\ \/ /\ datagrams[k].kind # "name" /\ backup_at' = "died"
          /\ UNCHANGED <<fd, stored>>
       \/ /\ backup_at' = "chunks" /\ fd' = Named(nF')
          /\ stored' = [n \in DOMAIN stored \cup {fd'} |->
                          IF n = fd' THEN <<>> ELSE stored[n]]
    /\ UNCHANGED <<files, disturbed, sending, sender_at, numFiles, taken>>

\* The first seven characters decide.
EndsFile(d) ==
    \/ d.kind = "end"
    \/ /\ d.kind = "chunk" /\ d.part <= Len(files[d.of].marked)
       /\ files[d.of].marked[d.part]

ReceiveChunk(k) ==
    /\ backup_at = "chunks" /\ Comes(k)
    /\ \/ /\ EndsFile(datagrams[k]) /\ taken' = taken + 1
          /\ backup_at' = IF taken' = numFiles THEN "done" ELSE "name"
          /\ UNCHANGED stored
       \/ /\ ~EndsFile(datagrams[k])
          /\ stored' = [stored EXCEPT ![fd] = Append(@,
                          [of |-> datagrams[k].of, part |-> datagrams[k].part])]
          /\ UNCHANGED <<taken, backup_at>>
    /\ UNCHANGED <<files, disturbed, sending, sender_at, numFiles, nF, fd>>

BackupStep ==
    \/ SendCount \/ SendPart
    \/ \E k \in DOMAIN datagrams : ReceiveCount(k) \/ ReceiveName(k) \/ ReceiveChunk(k)

BackupNext == BackupStep \/ \E k \in DOMAIN datagrams : LoseDatagram(k)

BackupFairness == WF_backup(BackupStep)

-----------------------------------------------------------------------------
(* Properties                                                               *)

BackupTypeOK ==
    /\ files \in Scripts /\ disturbed \in Disturbances
    /\ sending \in Nat \X Nat /\ sender_at \in {"count", "files", "done", "died"}
    /\ datagrams \in Seq([kind : {"count", "name", "chunk", "end"}, of : Nat, part : Nat])
    /\ numFiles \in Nat /\ taken \in 0..numFiles
    /\ nF \in Buffer /\ fd \in Seq(Nat \cup {Junk})
    /\ \A n \in DOMAIN stored : n \in Seq(Nat \cup {Junk}) /\ stored[n] \in Seq(Part)
    /\ backup_at \in {"count", "name", "chunks", "done", "died"}

\* No chunk looks like a mark.
Plain == \A f \in DOMAIN files : \A p \in DOMAIN files[f].marked : ~files[f].marked[p]

\* The name the server should give file f, and what it should hold.
OwnName(f) == [p \in 1..files[f].length |-> f]
Whole(f) == [p \in 1..Len(files[f].marked) |-> [of |-> f, part |-> p]]

\* If UDP loses and reorders nothing and no chunk begins like the mark,
\* every file has been stored whole when the server stops, under its own name
\* unless that is shorter than what its buffer held (if the number of files was
\* read right).  If datagrams are only lost, a server that has stopped after the
\* right number of files has mixed no two of them.
BackupIsCopy ==
    Plain /\ backup_at = "done" /\ numFiles = Len(files) =>
        /\ disturbed = {} =>
             \A f \in DOMAIN files :
                \E n \in DOMAIN stored :
                    /\ stored[n] = Whole(f)
                    /\ SubSeq(n, 1, files[f].length) = OwnName(f)
        /\ disturbed \subseteq {"lose"} =>
             \A n \in DOMAIN stored : \A j, k \in DOMAIN stored[n] :
                /\ stored[n][j].of = stored[n][k].of
                /\ j < k => stored[n][j].part < stored[n][k].part

\* With a client that can open its files, and as long as nothing is lost and no
\* number misread, the server stops by itself.
BackupEnds ==
    disturbed = {} /\ numFiles = Len(files) /\ (\A f \in DOMAIN files : files[f].there)
        ~> backup_at \in {"done", "died"}
=============================================================================
