----------------------------- MODULE WebClient -----------------------------
(***************************************************************************)
(* The web client: the loop of client.cpp over commands and, for each of   *)
(* them, its function in actions.cpp, which opens a connection, sends a    *)
(* request, reads the response to its end (utils.cpp) and looks at it.     *)
(* Cookie and token are what is remembered between commands.               *)
(*                                                                         *)
(* The library's server is not part of the repository.  It is modelled as  *)
(* far as its responses are used: users, sessions named by cookies, tokens *)
(* that stand for a session, and a number of books for each user.  Inputs  *)
(* other than names and passwords are left out, and so is all printing.    *)
(***************************************************************************)
EXTENDS Integers, Sequences

CONSTANTS
    User,
    Widths,     \* lengths of a cookie
    BUFLEN,     \* a response has to be shorter (4096)
    MaxLogins,  \* bound: sessions opened
    MaxBooks,   \* bound: books of one user
    Ways        \* what may happen: sets of "relogin" (the user logs in without
                \* having logged out), "limit" (the server answers "Too many
                \* requests"), "cut" (it closes in the middle of a response),
                \* "down" (it cannot be reached)

ASSUME WebClientAssumption ==
    /\ Widths \subseteq Nat \ {0}
    /\ BUFLEN \in Nat \ {0, 1} /\ MaxLogins \in Nat /\ MaxBooks \in Nat
    /\ Ways \subseteq SUBSET {"relogin", "limit", "cut", "down"}

VARIABLES
    cookie,     \* the buffer: characters of session s are all s, and 0 is NUL
    token,      \* the session it stands for; 0 for none
    pc, request, received, status,          \* the function that runs
    response,   \* what strstr() finds in it, in order; cookie; length
    registered, owner, width, open, books,  \* the server: users, and the user,
                                            \* length of cookie of each session
    ways

client == <<cookie, token, pc, request, received, status>>
server == <<registered, owner, width, open, books>>
vars   == <<client, server, response, ways>>

Session == 1..MaxLogins
None    == [marks |-> <<>>, s |-> 0, n |-> 0, len |-> -1]
Nothing == [cmd |-> "none", with |-> 0]

\* The string in the buffer; strcpy(cookie, "") puts the only NUL there is.
string(b) == IF b = <<>> \/ b[1] = 0 THEN <<>> ELSE b
cookie_of(s) == [k \in 1..width[s] |-> s]

Init ==
    /\ cookie = <<>> /\ token = 0
    /\ pc = "prompt" /\ request = Nothing /\ received = 0 /\ status = "run"
    /\ response = None
    /\ registered = {} /\ owner = <<>> /\ width = <<>> /\ open = {}
    /\ books = [u \in User |-> 0]
    /\ ways \in Ways

-----------------------------------------------------------------------------
(* Commands, up to the request.                                             *)

\* open_connection() and send_to_server(): where DIE ends the program.
asks(cmd, with) ==
    /\ pc = "prompt"
    /\ \/ pc' = "read" /\ request' = [cmd |-> cmd, with |-> with]
          /\ UNCHANGED status
       \/ "down" \in ways /\ status' = "died" /\ UNCHANGED <<pc, request>>
    /\ UNCHANGED <<cookie, token, received, response, server, ways>>

register_client == \E u \in User : asks("register", <<u, TRUE>>)

login_client ==
    /\ string(cookie) = <<>> \/ "relogin" \in ways
    /\ Len(owner) < MaxLogins
    /\ \E u \in User, right \in BOOLEAN : asks("login", <<u, right>>)

enter_library == string(cookie) # <<>> /\ asks("enter_library", string(cookie))
get_books     == token # 0 /\ asks("get_books", token)
get_book      == token # 0 /\ asks("get_book", token)
add_book      == token # 0 /\ books[owner[token]] < MaxBooks /\ asks("add_book", token)
delete_book   == token # 0 /\ asks("delete_book", token)

\* Variant: the token is kept; what main() does after logout_client().
forgetsCookie ==
    /\ cookie' = (IF cookie = <<>> THEN <<>> ELSE [cookie EXCEPT ![1] = 0])
    /\ UNCHANGED token
forgets ==
    /\ cookie' = (IF cookie = <<>> THEN <<>> ELSE [cookie EXCEPT ![1] = 0])
    /\ token' = 0

logout_client == string(cookie) # <<>> /\ asks("logout", string(cookie))

\* logout_client() has nothing to do, but main() goes on.
logout_again ==
    /\ pc = "prompt" /\ string(cookie) = <<>> /\ forgets
    /\ UNCHANGED <<pc, request, received, status, response, server, ways>>

exit ==
    /\ pc = "prompt" /\ status' = "exit"
    /\ UNCHANGED <<cookie, token, pc, request, received, response, server, ways>>

Commands ==
    register_client \/ login_client \/ enter_library \/ get_books \/ get_book
    \/ add_book \/ delete_book \/ logout_client \/ logout_again \/ exit

-----------------------------------------------------------------------------
(* The server.                                                              *)

with == request.with
asked(cmd) == pc = "read" /\ response = None /\ request.cmd = cmd

\* A response, of one unit and that many books, or the beginning of one.
sends(marks, s, n, listed) ==
    /\ \/ response' = [marks |-> marks, s |-> s, n |-> n, len |-> 1 + listed]
       \/ /\ "cut" \in ways
          /\ \E k \in 0..Len(marks), j \in 0..n, l \in 0..(1 + listed) :
                (k > 0 => l > 0) /\ response' =
                    [marks |-> SubSeq(marks, 1, k), s |-> s, n |-> j, len |-> l]
    /\ UNCHANGED <<client, ways>>
says(mark) == sends(<<mark>>, 0, 0, 0)
refuses == says("{") /\ UNCHANGED server

Register ==
    /\ asked("register")
    /\ \/ with[1] \in registered /\ refuses
       \/ /\ with[1] \notin registered /\ says("Created")
          /\ registered' = registered \cup {with[1]}
          /\ UNCHANGED <<owner, width, open, books>>

Login ==
    /\ asked("login")
    /\ \/ ~(with[1] \in registered /\ with[2]) /\ refuses
       \/ /\ with[1] \in registered /\ with[2]
          /\ \E n \in Widths :
                /\ sends(<<"OK", "Set-Cookie">>, Len(owner) + 1, n, 0)
                /\ width' = Append(width, n)
          /\ owner' = Append(owner, with[1])
          /\ open' = open \cup {Len(owner) + 1}
          /\ UNCHANGED <<registered, books>>

Admit ==
    /\ asked("enter_library")
    /\ \/ \E s \in open : with = cookie_of(s) /\ sends(<<"OK", "{">>, s, 0, 0)
       \/ (\A s \in open : with # cookie_of(s)) /\ says("{")
    /\ UNCHANGED server

Logout ==
    /\ asked("logout")
    /\ \/ /\ \E s \in open : with = cookie_of(s) /\ open' = open \ {s}
          /\ says("OK") /\ UNCHANGED <<registered, owner, width, books>>
       \/ (\A s \in open : with # cookie_of(s)) /\ refuses

user == owner[with]
List ==
    /\ asked("get_books") /\ sends(<<"OK", "[">>, 0, 0, books[user])
    /\ UNCHANGED server
Show ==
    /\ asked("get_book")
    /\ \/ books[user] > 0 /\ sends(<<"OK", "[">>, 0, 0, 0) /\ UNCHANGED server
       \/ refuses
Add ==
    /\ asked("add_book") /\ says("OK")
    /\ books' = [books EXCEPT ![user] = @ + 1]
    /\ UNCHANGED <<registered, owner, width, open>>
Delete ==
    /\ asked("delete_book")
    /\ \/ /\ books[user] > 0 /\ says("OK")
          /\ books' = [books EXCEPT ![user] = @ - 1]
          /\ UNCHANGED <<registered, owner, width, open>>
       \/ refuses
TooMany ==
    /\ "limit" \in ways /\ pc = "read" /\ response = None
    /\ says("Too many requests") /\ UNCHANGED server

Server ==
    Register \/ Login \/ Admit \/ Logout \/ List \/ Show \/ Add \/ Delete
    \/ TooMany

-----------------------------------------------------------------------------
(* The response.                                                            *)

room(n) == received + n <= BUFLEN

\* receive_from_server: read() returns what has arrived, as far as there is
\* room; the program ends when there is none left.
receive_from_server ==
    /\ pc = "read" /\ response # None /\ received < BUFLEN
    /\ \E n \in 1..(response.len - received) :
          /\ room(n) /\ received' = received + n
          /\ status' = IF received + n = BUFLEN THEN "died" ELSE "run"
    /\ UNCHANGED <<cookie, token, pc, request, response, server, ways>>

\* read() returns 0.
end == received = response.len

returned(cmd) ==
    /\ pc = "read" /\ response # None /\ end /\ request.cmd = cmd
    /\ response' = None /\ request' = Nothing /\ received' = 0
    /\ UNCHANGED <<server, ways>>

has(x) == \E k \in DOMAIN response.marks : response.marks[k] = x

\* Variant: the text of an error is looked for in every other response.
reportsAll == has("{")
\* What is not a success is reported, if it can be parsed.
reports == has("Too many requests") \/ has("{")

\* Back to the prompt; or strstr() has returned NULL, which is parsed.
outcome(good) ==
    IF good THEN pc' = "prompt" /\ UNCHANGED status
            ELSE status' = "crashed" /\ UNCHANGED pc

registered_client ==
    /\ returned("register") /\ outcome(has("Created") \/ reports)
    /\ UNCHANGED <<cookie, token>>

\* Variant: one character is left out.
copiedShort(s, n) ==
    [k \in 1..(IF n > Len(cookie) THEN n ELSE Len(cookie)) |->
        IF k < n THEN s ELSE IF k <= Len(cookie) THEN cookie[k] ELSE 0]
\* strncpy(*cookie, p, strlen(p) - 1) ends no string.
copied(s, n) ==
    [k \in 1..(IF n > Len(cookie) THEN n ELSE Len(cookie)) |->
        IF k <= n THEN s ELSE cookie[k]]

logged_in ==
    /\ returned("login")
    /\ \/ /\ has("OK") /\ has("Set-Cookie")
          /\ cookie' = copied(response.s, response.n) /\ outcome(TRUE)
       \/ /\ ~(has("OK") /\ has("Set-Cookie"))
          /\ UNCHANGED cookie /\ outcome(~has("OK") /\ reports)
    /\ UNCHANGED token

entered ==
    /\ returned("enter_library")
    /\ \/ has("OK") /\ has("{") /\ token' = response.s /\ outcome(TRUE)
       \/ ~(has("OK") /\ has("{")) /\ UNCHANGED token /\ outcome(~has("OK") /\ reports)
    /\ UNCHANGED cookie

listed(cmd) ==
    /\ returned(cmd)
    /\ outcome(IF has("OK") THEN has("[") ELSE reports)
    /\ UNCHANGED <<cookie, token>>
books_listed == listed("get_books")
book_shown   == listed("get_book")

changed(cmd) ==
    /\ returned(cmd) /\ outcome(has("OK") \/ reports)
    /\ UNCHANGED <<cookie, token>>
book_added   == changed("add_book")
book_deleted == changed("delete_book")

logged_out ==
    /\ returned("logout") /\ outcome(has("OK") \/ reports)
    /\ IF has("OK") \/ reports THEN forgets ELSE UNCHANGED <<cookie, token>>

Responses ==
    receive_from_server \/ registered_client \/ logged_in \/ entered
    \/ books_listed \/ book_shown \/ book_added \/ book_deleted \/ logged_out

Next == status = "run" /\ (Commands \/ Server \/ Responses)

Spec == Init /\ [][Next]_vars

-----------------------------------------------------------------------------
(* Properties                                                               *)

TypeOK ==
    /\ cookie \in Seq(0..MaxLogins) /\ token \in 0..Len(owner)
    /\ pc \in {"prompt", "read"} /\ received \in 0..BUFLEN
    /\ status \in {"run", "exit", "died", "crashed"}
    /\ registered \subseteq User /\ books \in [User -> 0..MaxBooks]
    /\ owner \in Seq(User) /\ width \in Seq(Widths) /\ Len(width) = Len(owner)
    /\ Len(owner) <= MaxLogins /\ open \subseteq 1..Len(owner)
    /\ ways \in Ways

\* strncpy() without a NUL leaves what an earlier, longer cookie had behind: the
\* buffer holds the cookie of the last session if and only if none was longer.
CookieIsLast ==
    "cut" \notin ways /\ string(cookie) # <<>> =>
        (cookie = cookie_of(cookie[1])
            <=> \A s \in 1..cookie[1] : width[s] <= width[cookie[1]])

\* Who logs out before logging in again changes the library of no other user:
\* no token outlives the cookie it was given for.
OwnLibrary ==
    [][\A u \in User : books'[u] # books[u] /\ "relogin" \notin ways =>
            string(cookie) # <<>> /\ owner[cookie[1]] = u]_vars

\* With cookies of one length and a server that answers, logging out leaves no
\* session behind.
NoSessionLeft ==
    pc = "prompt" /\ ways = {} /\ (\A j, k \in DOMAIN width : width[j] = width[k]) =>
        open \subseteq {cookie[k] : k \in DOMAIN string(cookie)}

\* The buffer and the server agree on which session there is.
SessionSafe == TypeOK /\ CookieIsLast /\ NoSessionLeft

\* The program ends by itself only when the server breaks off or is not there,
\* or somebody has more books than the buffer has room for.
EndsForAReason ==
    /\ status = "crashed" => "cut" \in ways
    /\ status = "died" => "down" \in ways \/ \E u \in User : 1 + books[u] >= BUFLEN
=============================================================================
