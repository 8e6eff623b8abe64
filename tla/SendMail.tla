------------------------------ MODULE SendMail ------------------------------
(***************************************************************************)
(* The SMTP client of lab 11.  It writes one command after the other and   *)
(* reads one line for each, whose beginning has to be the expected code.   *)
(* A reply may have several lines, and a line longer than the buffer is    *)
(* read in pieces, so what is read may belong to an earlier command.       *)
(***************************************************************************)
EXTENDS Integers, Sequences

CONSTANT MaxPieces  \* bound: pieces of one reply

ASSUME SendMailAssumption == MaxPieces \in Nat \ {0}

Command == {"HELO", "MAIL", "RCPT", "DATA", "text", "QUIT"}
Dialogue == <<"HELO", "MAIL", "RCPT", "DATA", "text", "QUIT">>
\* Variant: any code will do for the text.
expectedAny(c) == IF c \in {"DATA", "text"} THEN {"250", "354"} ELSE
                  IF c = "QUIT" THEN {"221"} ELSE {"250"}
\* What the line read for a command may begin with.
expected(c) == IF c = "DATA" THEN {"354"} ELSE
               IF c = "QUIT" THEN {"221"} ELSE {"250"}
\* Beginnings of what read_line() returns; "rest" is a later piece of a line.
Piece == {"220", "250", "354", "221", "error", "rest"}

VARIABLES
    at_command, \* position in the dialogue, 0 while the greeting is read
    client_at,  \* "write", "read", "done", "failed", "died", "undefined"
    commands,   \* written by the client, not yet read by the server
    pieces,     \* written by the server, not yet read by the client
    server_at,  \* "greets", "ready", "data", "closed", "reset"
    accepted    \* the server has taken the mail

mail == <<at_command, client_at, commands, pieces, server_at, accepted>>

MailInit ==
    /\ at_command = 0 /\ client_at = "read"
    /\ commands = <<>> /\ pieces = <<>>
    /\ server_at = "greets" /\ accepted = FALSE

Gone == server_at \in {"closed", "reset"}

\* The two writes of a command and its CRLF: if the server has closed, the
\* first may draw a reset and the second then raises SIGPIPE.
WriteCommand ==
    /\ client_at = "write"
    /\ \/ /\ Gone /\ client_at' = "died"
          /\ UNCHANGED <<commands, server_at>>
       \/ /\ client_at' = "read"
          /\ commands' = Append(commands, Dialogue[at_command])
          /\ \/ UNCHANGED server_at
             \/ Gone /\ server_at' = "reset"
    /\ UNCHANGED <<at_command, pieces, accepted>>

\* After a good line: the next command, if there is one.
Proceeds ==
    IF at_command = Len(Dialogue)
    THEN client_at' = "done" /\ UNCHANGED at_command
    ELSE client_at' = "write" /\ at_command' = at_command + 1

\* The greeting is not looked at, not even whether there is one.
ReadGreeting ==
    /\ client_at = "read" /\ at_command = 0
    /\ pieces # <<>> \/ Gone
    /\ pieces' = IF pieces = <<>> THEN pieces ELSE Tail(pieces)
    /\ Proceeds
    /\ UNCHANGED <<commands, server_at, accepted>>

\* A reset makes read_line() return -1, which is used as an index.
ReadReply ==
    /\ client_at = "read" /\ at_command > 0
    /\ \/ /\ pieces # <<>> /\ pieces' = Tail(pieces)
          /\ \/ Head(pieces) \in expected(Dialogue[at_command]) /\ Proceeds
             \/ /\ Head(pieces) \notin expected(Dialogue[at_command])
                /\ client_at' = "failed" /\ UNCHANGED at_command
       \/ /\ pieces = <<>> /\ Gone
          /\ client_at' = IF server_at = "reset" THEN "undefined" ELSE "failed"
          /\ UNCHANGED <<at_command, pieces>>
    /\ UNCHANGED <<commands, server_at, accepted>>

MailClient == WriteCommand \/ ReadGreeting \/ ReadReply

-----------------------------------------------------------------------------
(* The server: it greets, and answers every command with its code or with   *)
(* an error, in one piece or more; it may give up at any time.              *)

Answers(code) ==
    \E n \in 1..MaxPieces :
        \E more \in [1..(n - 1) -> {code, "rest"}] :
            pieces' = pieces \o <<code>> \o more

Greets ==
    /\ server_at = "greets" /\ server_at' = "ready"
    /\ Answers("220")
    /\ UNCHANGED <<at_command, client_at, commands, accepted>>

\* In mode "data" what comes is the mail.
Serves ==
    LET c == Head(commands)
    IN  /\ server_at \in {"ready", "data"} /\ commands # <<>>
        /\ commands' = Tail(commands)
        /\ \/ /\ server_at = "data"
              /\ accepted' \in BOOLEAN /\ server_at' = "ready"
              /\ Answers(IF accepted' THEN "250" ELSE "error")
           \/ /\ server_at = "ready" /\ UNCHANGED accepted
              /\ \/ c = "DATA" /\ Answers("354") /\ server_at' = "data"
                 \/ c = "QUIT" /\ Answers("221") /\ server_at' = "closed"
                 \/ c \in {"HELO", "MAIL", "RCPT"} /\ Answers("250") /\ UNCHANGED server_at
                 \/ Answers("error") /\ UNCHANGED server_at
        /\ UNCHANGED <<at_command, client_at>>

GivesUp ==
    /\ ~Gone
    /\ server_at' \in {"closed", "reset"}
    /\ \/ UNCHANGED pieces
       \/ pieces' = Append(pieces, "error")
    /\ UNCHANGED <<at_command, client_at, commands, accepted>>

MailOver == client_at \in {"done", "failed", "died", "undefined"}

MailNext == ~MailOver /\ (MailClient \/ Greets \/ Serves \/ GivesUp)

\* The client runs, and the server answers or gives up.
MailFairness ==
    /\ WF_mail(~MailOver /\ MailClient)
    /\ WF_mail(~MailOver /\ (Greets \/ Serves \/ GivesUp))

-----------------------------------------------------------------------------
(* Properties                                                               *)

MailTypeOK ==
    /\ at_command \in 0..Len(Dialogue)
    /\ client_at \in {"write", "read", "done", "failed", "died", "undefined"}
    /\ commands \in Seq(Command) /\ pieces \in Seq(Piece)
    /\ server_at \in {"greets", "ready", "data", "closed", "reset"}
    /\ accepted \in BOOLEAN

\* Replies of several lines make the client read answers to earlier commands,
\* but "354" holds it up until the two are in step: the text of the mail is
\* written for a server that waits for it, so never taken for commands, and when
\* the program ends well the server has accepted it.
MailIsAccepted ==
    /\ \A k \in DOMAIN commands : commands[k] = "text" => Gone \/ server_at = "data"
    /\ client_at = "done" => accepted

MailEnds == <>MailOver
=============================================================================
