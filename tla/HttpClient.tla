----------------------------- MODULE HttpClient -----------------------------
(***************************************************************************)
(* The HTTP client of lab 10: six exchanges, each over a connection of its *)
(* own, which differ in nothing that matters here.  receive_from_server()  *)
(* reads up to the end of the header, takes the length of the body from    *)
(* it, and reads on until it has that much.  Sizes are in units of the     *)
(* terminator of the header.                                               *)
(***************************************************************************)
EXTENDS Integers

CONSTANTS
    RequestLength,  \* size of a request
    BUFLEN,         \* size of the buffer given to read()
    SizeValues,     \* values of size_t (2^64)
    Exchanges,      \* connections that main() makes (6)
    Responses       \* what the server may send, see below

NoLength == -1

\* header and body are sizes.  announced is the header's Content-Length, or
\* NoLength.  The body may hold the words "Content-Length: " too, ending at
\* offset mention, with the number says in the unit after them; 0 if it does not.
ASSUME HttpAssumption ==
    /\ RequestLength \in Nat \ {0} /\ BUFLEN \in Nat \ {0} /\ Exchanges \in Nat \ {0}
    /\ SizeValues \in Nat
    /\ Responses \subseteq [header : Nat \ {0}, body : Nat, announced : Nat \cup {NoLength},
                            mention : Nat, says : Nat]
    /\ \A r \in Responses : /\ r.announced \in {NoLength, r.body}
                            /\ r.header + r.body + r.says < SizeValues - 1
                            /\ r.mention # 0 => /\ r.header < r.mention
                                                /\ r.mention < r.header + r.body

VARIABLES
    exchange,       \* how many have been started
    http_at,        \* "open", "send", "head", "rest", "puts", "done",
                    \* "failed" (error() has ended the program), "died"
    sent, size,     \* of the request that has been written, the response read
    header_end, content_length,
    response, arrived,  \* what the server sends, and how much of it has come
    server          \* of the connection: "up", "fin", "rst"

http == <<exchange, http_at, sent, size, header_end, content_length, response,
          arrived, server>>
reading == <<size, header_end, content_length>>
serving == <<response, arrived, server>>

WholeResponse == response.header + response.body

HttpInit ==
    /\ exchange = 1 /\ http_at = "open" /\ sent = 0 /\ size = 0
    /\ header_end = 0 /\ content_length = 0
    /\ response \in Responses /\ arrived = 0 /\ server = "up"

-----------------------------------------------------------------------------
(* The client                                                               *)

OpenConnection ==
    /\ http_at = "open"
    /\ http_at' \in {"send", "failed"}
    /\ UNCHANGED <<exchange, sent, reading, serving>>

\* One round of send_to_server(): write() takes some of what is left.  What is
\* written to a server that has closed draws a reset, and the next raises SIGPIPE.
SendToServer ==
    /\ http_at = "send"
    /\ \/ server = "rst" /\ http_at' = "died" /\ UNCHANGED <<sent, server>>
       \/ /\ server # "rst"
          /\ \E n \in 1..(RequestLength - sent) :
                /\ sent' = sent + n
                /\ http_at' = IF sent + n < RequestLength THEN "send" ELSE "head"
          /\ server' \in IF server = "fin" THEN {"fin", "rst"} ELSE {server}
    /\ UNCHANGED <<exchange, reading, response, arrived>>

\* What read() takes, up to the end of the stream.
Reads(n) == n \in 1..BUFLEN /\ size + n <= arrived /\ size' = size + n
AtEnd    == size = arrived /\ server = "fin"
Broken   == size = arrived /\ server = "rst" /\ http_at' = "failed"

\* The values that strtol() may give behind the first "Content-Length: ", which
\* is looked for in all that has been read; {} if it is not there.  If the
\* number has not come yet, what lies behind the buffer is read.
LengthsIn(n) ==
    IF response.announced # NoLength THEN {response.announced}
    ELSE IF response.mention = 0 \/ n < response.mention THEN {}
    ELSE IF n = response.mention THEN {0, response.says}
    ELSE {response.says}

\* Variant: the terminator is not counted.
after_terminatorNot(n) == n
\* Variant: and here its NUL is counted too.
after_terminatorNul(n) == n + 2
after_terminator(n) == n + 1

\* A round of the first loop.  header_end is -1 as long as the header is not whole.
ReadHead ==
    /\ http_at = "head"
    /\ \/ \E n \in 1..BUFLEN :
             /\ Reads(n)
             /\ \/ /\ size' < response.header
                   /\ header_end' = -1 /\ UNCHANGED <<content_length, http_at>>
                \/ /\ size' >= response.header
                   /\ header_end' = after_terminator(response.header - 1)
                   /\ \/ LengthsIn(size') = {} /\ UNCHANGED <<content_length, http_at>>
                      \/ content_length' \in LengthsIn(size') /\ http_at' = "rest"
       \/ AtEnd /\ http_at' = "rest" /\ UNCHANGED reading
       \/ Broken /\ UNCHANGED reading
    /\ UNCHANGED <<exchange, sent, serving>>

\* The sum is unsigned: with a header_end of -1 it is the largest size_t.
total == (content_length + header_end) % SizeValues

\* A round of the second loop, or its end.
ReadRest ==
    /\ http_at = "rest"
    /\ \/ size >= total /\ http_at' = "puts" /\ UNCHANGED size
       \/ /\ size < total
          /\ \/ (\E n \in 1..BUFLEN : Reads(n)) /\ UNCHANGED http_at
             \/ AtEnd /\ http_at' = "puts" /\ UNCHANGED size
             \/ Broken /\ UNCHANGED size
    /\ UNCHANGED <<exchange, sent, header_end, content_length, serving>>

\* puts(response), close() and the next connection, to a server of its own.
PutsAndClose ==
    /\ http_at = "puts"
    /\ IF exchange = Exchanges
       THEN /\ http_at' = "done" /\ UNCHANGED <<exchange, sent, reading, serving>>
       ELSE /\ http_at' = "open" /\ exchange' = exchange + 1
            /\ sent' = 0 /\ size' = 0 /\ header_end' = 0 /\ content_length' = 0
            /\ response' \in Responses /\ arrived' = 0 /\ server' = "up"

HttpWork == OpenConnection \/ SendToServer \/ ReadHead \/ ReadRest \/ PutsAndClose

-----------------------------------------------------------------------------
(* The server                                                               *)

asked == <<exchange, http_at, sent, reading, response>>
Answering == http_at # "open" /\ server = "up" /\ sent = RequestLength

\* It sends the response, in pieces; if the header does not announce the
\* length it closes the connection after that.
SendsResponse ==
    /\ Answering /\ arrived < WholeResponse
    /\ arrived' \in arrived + 1..WholeResponse
    /\ UNCHANGED <<asked, server>>
EndsResponse ==
    /\ Answering /\ arrived = WholeResponse /\ response.announced = NoLength
    /\ server' = "fin" /\ UNCHANGED <<asked, arrived>>

\* It may also close, or be lost, at any time.
BreaksOff ==
    /\ http_at # "open" /\ server = "up"
    /\ server' \in {"fin", "rst"} /\ UNCHANGED <<asked, arrived>>

HttpOver == http_at \in {"done", "failed", "died"}

HttpNext == ~HttpOver /\ (HttpWork \/ SendsResponse \/ EndsResponse \/ BreaksOff)

\* The client runs, and the server answers.
HttpFairness ==
    /\ WF_http(~HttpOver /\ HttpWork)
    /\ WF_http(~HttpOver /\ (SendsResponse \/ EndsResponse))

-----------------------------------------------------------------------------
(* Properties                                                               *)

HttpTypeOK ==
    /\ exchange \in 1..Exchanges
    /\ http_at \in {"open", "send", "head", "rest", "puts", "done", "failed", "died"}
    /\ sent \in 0..RequestLength /\ size \in 0..arrived
    /\ response \in Responses /\ arrived \in 0..WholeResponse
    /\ header_end \in -1..response.header
    /\ content_length \in Nat /\ server \in {"up", "fin", "rst"}

\* However the stream is cut into reads, receive_from_server() returns the whole
\* response of a server that sends it whole, with nothing missing at its end and
\* without waiting for more - unless the header announces no length and the body
\* mentions one, which is then believed.
ReturnsWhole ==
    http_at = "puts" =>
        \/ size = WholeResponse
        \/ server = "fin" /\ size = arrived
        \/ response.announced = NoLength /\ response.mention # 0

HttpEnds == <>HttpOver
=============================================================================
