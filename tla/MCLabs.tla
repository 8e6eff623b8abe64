------------------------------- MODULE MCLabs -------------------------------
(* One of the programs of labs 2, 5, 6, 7, 8, 10 and 11, each on a small      *)
(* instance.  The others stay as they are when they have ended.               *)
EXTENDS StopAndWait, Probe, Backup, Echo, Chat, HttpClient, SendMail

\* Lab 2: no file, an empty one, and files of one to three messages.
MCFileSizes == {-1, 0, 1, 3, 5}
MCTroubles  == SUBSET {"loss", "corrupt", "assert"}

\* Lab 6: a file with a name as long as the buffer, then one with a shorter name;
\* chunks that look like a mark or not, files that are there or not.
AFile(n, m, t) == [length |-> n, marked |-> m, there |-> t]
MCScripts ==
    {<<AFile(2, m, TRUE), AFile(1, <<FALSE>>, t)>> :
        m \in {<<>>, <<FALSE, FALSE>>, <<TRUE>>}, t \in BOOLEAN}
    \cup {<<AFile(1, <<FALSE>>, TRUE)>>}
MCDisturbances == {{}, {"lose"}, {"reorder"}}

\* Lab 5: a target one hop away, and one three hops away.
MCWeathers == SUBSET {"lose", "stranger"}

\* Lab 10: responses that announce their length or not, and whose body mentions
\* one or not, rightly or wrongly.
AResponse(h, b, a, m, s) ==
    [header |-> h, body |-> b, announced |-> a, mention |-> m, says |-> s]
MCResponses ==
    {AResponse(2, 3, 3, 0, 0), AResponse(2, 3, 3, 3, 1), AResponse(2, 0, 0, 0, 0),
     AResponse(2, 3, NoLength, 0, 0), AResponse(2, 3, NoLength, 3, 1),
     AResponse(1, 3, NoLength, 3, 2)}

-----------------------------------------------------------------------------

CopyEnded ==
    /\ fsize = 0 /\ trouble = {}
    /\ send_at = "done" /\ awaits = FALSE /\ sent_size = 0
    /\ recv_at = "done" /\ opened = FALSE /\ rsize = 0 /\ got = 0 /\ copy = <<>>
    /\ wire = <<>> /\ inbox = <<>> /\ acks = 0

ProbeEnded ==
    /\ mode = "ping" /\ distance = 1 /\ weather = {}
    /\ probe = 1 /\ probe_at = "done"
    /\ outgoing = <<>> /\ incoming = <<>> /\ replies = <<>> /\ others = 0

BackupEnded ==
    /\ files = <<AFile(1, <<FALSE>>, TRUE)>> /\ disturbed = {}
    /\ sending = <<1, 0>> /\ sender_at = "done" /\ datagrams = <<>>
    /\ numFiles = 0 /\ taken = 0 /\ nF = [p \in 1..NameLength |-> Nul]
    /\ fd = <<>> /\ stored = [n \in {} |-> <<>>] /\ backup_at = "done"

EchoEnded ==
    /\ calls = "echo" /\ echo_at = "over" /\ has = {} /\ from = 1
    /\ speaker = [c \in Speaker |-> "left"]
    /\ says = [c \in Speaker |-> 0] /\ remaining = [c \in Speaker |-> 0]
    /\ sends = [c \in Speaker |-> 0] /\ ups = [c \in Speaker |-> 0]
    /\ downs = [c \in Speaker |-> 0] /\ shows = [c \in Speaker |-> 0]

ChatEnded ==
    /\ clients = <<>> /\ read_fds = {sockfd} /\ tmp_fds = {}
    /\ at_fd = [f \in UserFd |-> Nobody] /\ backlog = <<>>
    /\ line = [u \in User |-> "none"]
    /\ up = [u \in User |-> <<>>] /\ told = [u \in User |-> <<>>]
    /\ typed = 0 /\ chat = "died"

HttpEnded ==
    /\ exchange = 1 /\ http_at = "failed" /\ sent = 0 /\ size = 0
    /\ header_end = 0 /\ content_length = 0
    /\ response = AResponse(2, 0, 0, 0, 0) /\ arrived = 0 /\ server = "up"

MailEnded ==
    /\ at_command = 0 /\ client_at = "failed" /\ commands = <<>> /\ pieces = <<>>
    /\ server_at = "greets" /\ accepted = FALSE

labs == <<stopwait, probing, backup, echo, chat_vars, http, mail>>

LabsInit ==
    \/ /\ StopAndWaitInit
       /\ ProbeEnded /\ BackupEnded /\ EchoEnded /\ ChatEnded /\ HttpEnded /\ MailEnded
    \/ /\ ProbeInit
       /\ CopyEnded /\ BackupEnded /\ EchoEnded /\ ChatEnded /\ HttpEnded /\ MailEnded
    \/ /\ BackupInit
       /\ CopyEnded /\ ProbeEnded /\ EchoEnded /\ ChatEnded /\ HttpEnded /\ MailEnded
    \/ /\ EchoInit
       /\ CopyEnded /\ ProbeEnded /\ BackupEnded /\ ChatEnded /\ HttpEnded /\ MailEnded
    \/ /\ ChatInit
       /\ CopyEnded /\ ProbeEnded /\ BackupEnded /\ EchoEnded /\ HttpEnded /\ MailEnded
    \/ /\ HttpInit
       /\ CopyEnded /\ ProbeEnded /\ BackupEnded /\ EchoEnded /\ ChatEnded /\ MailEnded
    \/ /\ MailInit
       /\ CopyEnded /\ ProbeEnded /\ BackupEnded /\ EchoEnded /\ ChatEnded /\ HttpEnded

LabsNext ==
    \/ /\ StopAndWaitNext
       /\ UNCHANGED <<probing, backup, echo, chat_vars, http, mail>>
    \/ /\ ProbeNext
       /\ UNCHANGED <<stopwait, backup, echo, chat_vars, http, mail>>
    \/ /\ BackupNext
       /\ UNCHANGED <<stopwait, probing, echo, chat_vars, http, mail>>
    \/ /\ EchoNext
       /\ UNCHANGED <<stopwait, probing, backup, chat_vars, http, mail>>
    \/ /\ ChatNext
       /\ UNCHANGED <<stopwait, probing, backup, echo, http, mail>>
    \/ /\ HttpNext
       /\ UNCHANGED <<stopwait, probing, backup, echo, chat_vars, mail>>
    \/ /\ MailNext
       /\ UNCHANGED <<stopwait, probing, backup, echo, chat_vars, http>>

LabsSpec ==
    /\ LabsInit /\ [][LabsNext]_labs
    /\ StopAndWaitFairness /\ ProbeFairness /\ BackupFairness /\ EchoFairness
    /\ ChatFairness /\ HttpFairness /\ MailFairness

-----------------------------------------------------------------------------

LabsTypeOK ==
    /\ StopAndWaitTypeOK /\ ProbeTypeOK /\ BackupTypeOK /\ EchoTypeOK
    /\ ChatTypeOK /\ HttpTypeOK /\ MailTypeOK

\* Each program comes to its end, or serves who waits for it, under what its
\* module says of the network and of whoever is at the other end.
LabsEnd ==
    /\ StopAndWaitEnds /\ ProbeEnds /\ BackupEnds /\ EchoServes
    /\ ChatServes /\ HttpEnds /\ MailEnds
=============================================================================
