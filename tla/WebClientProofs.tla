-------------------------- MODULE WebClientProofs --------------------------
(* Proofs about WebClient, for any users, lengths of cookies, sessions and    *)
(* books, and for every one of the ways.                                      *)
EXTENDS WebClient, SequenceTheorems, TLAPS

USE WebClientAssumption

-----------------------------------------------------------------------------
(* The invariant.                                                            *)

cmd == request.cmd
AboutBooks == {"get_books", "get_book", "add_book", "delete_book"}

\* What has been asked, and with what.
Asking ==
    /\ cmd \in {"register", "login"} =>
         \E u \in User, right \in BOOLEAN : with = <<u, right>>
    /\ cmd \in {"enter_library", "logout"} => with = string(cookie) /\ with # <<>>
    /\ cmd \in AboutBooks => with = token /\ token # 0
    /\ cmd = "login" => string(cookie) = <<>> \/ "relogin" \in ways
    /\ cmd = "login" /\ response = None => Len(owner) < MaxLogins
    /\ cmd = "add_book" /\ response = None => books[owner[token]] < MaxBooks

\* What strstr() may find in the response to a command.
Full ==
    {<<"{">>, <<"Too many requests">>} \cup
    (CASE cmd = "register" -> {<<"Created">>}
       [] cmd = "login" -> {<<"OK", "Set-Cookie">>}
       [] cmd = "enter_library" -> {<<"OK", "{">>}
       [] cmd \in {"get_books", "get_book"} -> {<<"OK", "[">>}
       [] OTHER -> {<<"OK">>})
Words == Full \cup (IF "cut" \in ways THEN {<<>>, <<"OK">>} ELSE {})

welcome == <<"OK", "Set-Cookie">>
admits  == <<"OK", "{">>
Welcome == cmd = "login" /\ response.marks = welcome
Admits  == cmd = "enter_library" /\ response.marks = admits

\* A response: its length, its words, and the session it is about.
Answered ==
    /\ response.len \in Nat /\ received \in 0..response.len
    /\ \/ response.len <= 1
       \/ cmd = "get_books" /\ response.len <= 1 + books[owner[token]]
    /\ response.n \in Nat /\ response.s \in 0..Len(owner)
    /\ response.marks \in Words
    /\ Welcome => /\ response.s = Len(owner) /\ response.s > 0
                  /\ "cut" \notin ways => response.n = width[response.s]
    /\ Admits => response.s # 0 /\ cookie_of(response.s) = string(cookie)

Exchange ==
    /\ response = None => received = 0
    /\ pc = "prompt" => response = None
    /\ response # None => pc = "read" /\ Answered
    /\ status = "run" /\ pc = "read" =>
         cmd \in {"register", "login", "enter_library", "logout"} \cup AboutBooks
         /\ Asking
    /\ response # None => Asking

\* Sessions whose cookie has been copied: all but the one of a login whose response
\* is being read.
Copied == IF response # None /\ Welcome THEN Len(owner) - 1 ELSE Len(owner)

\* The buffer is as long as the longest cookie so far and begins with the last one.
Buffer ==
    /\ \A k \in 1..Len(cookie) : cookie[k] \in 0..Len(owner)
    /\ "cut" \notin ways =>
         /\ Copied = 0 => cookie = <<>>
         /\ cookie # <<>> => cookie[1] \in {0, Copied}
         /\ \A s \in 1..Copied : width[s] <= Len(cookie)
         /\ Copied > 0 => \E s \in 1..Copied : width[s] = Len(cookie)
         /\ \A k \in 2..Len(cookie) : k <= width[Copied] => cookie[k] = Copied

\* Without a login on top of another the token is that of the cookie.
TokenIsCookies ==
    "relogin" \notin ways /\ token # 0 => string(cookie) # <<>> /\ token = cookie[1]

Alike == \A j, k \in DOMAIN width : width[j] = width[k]

\* The sessions the server has: the cookie's at most.
Sessions ==
    ways = {} /\ Alike =>
        IF response # None /\ Welcome THEN open \subseteq {Len(owner)}
        ELSE IF response # None /\ cmd = "logout" THEN open = {}
        ELSE open \subseteq (IF string(cookie) = <<>> THEN {} ELSE {cookie[1]})

WInv ==
    /\ TypeOK /\ Exchange /\ Buffer /\ TokenIsCookies /\ Sessions
    /\ EndsForAReason

-----------------------------------------------------------------------------
(* What follows from the invariant.                                          *)

LEMMA ServerTypes ==
    ASSUME TypeOK
    PROVE  /\ Len(owner) \in Nat /\ Len(owner) <= MaxLogins /\ Len(width) = Len(owner)
           /\ DOMAIN width = 1..Len(owner) /\ DOMAIN owner = 1..Len(owner)
           /\ \A k \in 1..Len(owner) : owner[k] \in User
           /\ \A k \in 1..Len(owner) : width[k] \in Nat /\ width[k] > 0
           /\ Len(cookie) \in Nat
           /\ \A u \in User : books[u] \in Nat
  <1>1. /\ owner \in Seq(User) /\ width \in Seq(Widths) /\ cookie \in Seq(0..MaxLogins)
        /\ Len(owner) <= MaxLogins /\ Len(width) = Len(owner)
        /\ books \in [User -> 0..MaxBooks]
    BY DEF TypeOK
  <1>2. \A k \in 1..Len(owner) : width[k] \in Widths
    BY <1>1
  <1>3. \A u \in User : books[u] \in Nat
    BY <1>1
  <1>4. Len(owner) \in Nat /\ DOMAIN owner = 1..Len(owner) /\ DOMAIN width = 1..Len(width)
        /\ Len(cookie) \in Nat
    BY <1>1
  <1>5. \A k \in 1..Len(owner) : owner[k] \in User
    BY <1>1
  <1>6. \A x \in Widths : x \in Nat /\ x > 0
    OBVIOUS
  <1> QED BY <1>1, <1>2, <1>3, <1>4, <1>5, <1>6

\* The buffer as a string.
LEMMA StringFacts ==
    ASSUME TypeOK
    PROVE  /\ string(cookie) # <<>> =>
                string(cookie) = cookie /\ cookie # <<>> /\ cookie[1] # 0
                /\ Len(cookie) > 0
           /\ string(cookie) = <<>> => cookie = <<>> \/ cookie[1] = 0
           /\ cookie # <<>> => 1 \in 1..Len(cookie)
  BY DEF string, TypeOK

\* A buffer that is the cookie of a session begins with it.
LEMMA CookieOf ==
    ASSUME TypeOK, NEW s \in 1..Len(owner)
    PROVE  /\ Len(cookie_of(s)) = width[s] /\ cookie_of(s) # <<>>
           /\ cookie_of(s)[1] = s
           /\ \A k \in 1..width[s] : cookie_of(s)[k] = s
           /\ DOMAIN cookie_of(s) = 1..width[s]
  <1>1. width[s] \in Nat /\ width[s] > 0
    BY ServerTypes
  <1>2. cookie_of(s) = [k \in 1..width[s] |-> s]
    BY DEF cookie_of
  <1>3. cookie_of(s) \in Seq({s}) /\ Len(cookie_of(s)) = width[s]
    BY <1>1, <1>2
  <1> QED BY <1>1, <1>2, <1>3

-----------------------------------------------------------------------------

Untouched == <<cookie, token, received, response, registered, owner, width, open, books,
               ways>>

\* A command, as far as its request, or to the end of the program.
LEMMA AsksPreserves ==
    ASSUME WInv, status = "run", NEW c, NEW w, asks(c, w),
           c \in {"register", "login", "enter_library", "logout"} \cup AboutBooks,
           c \in {"register", "login"} =>
             \E u \in User, right \in BOOLEAN : w = <<u, right>>,
           c \in {"enter_library", "logout"} => w = string(cookie) /\ w # <<>>,
           c \in AboutBooks => w = token /\ token # 0,
           c = "login" => string(cookie) = <<>> \/ "relogin" \in ways,
           c = "login" => Len(owner) < MaxLogins,
           c = "add_book" => books[owner[token]] < MaxBooks
    PROVE  WInv'
  <1> USE DEF WInv
  <1>1. pc = "prompt" /\ response = None /\ received = 0 /\ UNCHANGED Untouched
    BY DEF asks, Exchange, server, Untouched
  <1>2. \/ pc' = "read" /\ request' = [cmd |-> c, with |-> w] /\ status' = status
        \/ "down" \in ways /\ status' = "died" /\ pc' = pc /\ request' = request
    BY DEF asks
  <1>3. TypeOK'
    BY <1>1, <1>2 DEF TypeOK, Untouched
  <1>4. string(cookie)' = string(cookie) /\ response' = None /\ Copied' = Copied
    BY <1>1 DEF string, Untouched, Copied
  <1>5. Exchange'
    <2>1. CASE pc' = "read" /\ request' = [cmd |-> c, with |-> w] /\ status' = status
      <3>1. cmd' = c /\ with' = w
        BY <2>1 DEF cmd, with
      <3>2. Asking'
        BY <1>1, <1>4, <3>1 DEF Asking, Untouched
      <3> QED BY <1>1, <1>4, <2>1, <3>1, <3>2 DEF Exchange, Untouched
    <2>2. CASE status' = "died" /\ pc' = pc
      BY <1>1, <1>4, <2>2 DEF Exchange, Untouched
    <2> QED BY <1>2, <2>1, <2>2
  <1>6. Buffer' /\ TokenIsCookies'
    BY <1>1, <1>4 DEF Buffer, TokenIsCookies, Untouched
  <1>7. Sessions'
    BY <1>1, <1>4 DEF Sessions, Alike, Untouched
  <1>8. EndsForAReason'
    BY <1>1, <1>2 DEF EndsForAReason, Untouched
  <1> QED BY <1>3, <1>5, <1>6, <1>7, <1>8

\* logout_client() without a session, and exit.
LEMMA PromptPreserves ==
    ASSUME WInv, logout_again \/ exit
    PROVE  WInv'
  <1> USE DEF WInv
  <1>1. CASE exit
    <2>1. /\ pc = "prompt" /\ status' = "exit" /\ pc' = pc /\ request' = request
          /\ UNCHANGED Untouched
      BY <1>1 DEF exit, server, Untouched
    <2>2. TypeOK'
      BY <2>1 DEF TypeOK, Untouched
    <2>3. string(cookie)' = string(cookie) /\ Copied' = Copied
      BY <2>1 DEF string, Untouched, Copied, Welcome, cmd
    <2>4. Exchange'
      BY <2>1, <2>3 DEF Exchange, Untouched
    <2>5. Buffer' /\ TokenIsCookies'
      BY <2>1, <2>3 DEF Buffer, TokenIsCookies, Untouched
    <2>6. Sessions'
      BY <2>1, <2>3 DEF Sessions, Alike, Untouched, Welcome, cmd
    <2>7. EndsForAReason'
      BY <2>1 DEF EndsForAReason
    <2> QED BY <2>2, <2>4, <2>5, <2>6, <2>7
  <1>2. CASE logout_again
    <2>1. /\ pc = "prompt" /\ string(cookie) = <<>> /\ response = None /\ token' = 0
          /\ cookie' = (IF cookie = <<>> THEN <<>> ELSE [cookie EXCEPT ![1] = 0])
          /\ UNCHANGED <<pc, request, received, status, response, registered, owner, width,
                         open, books, ways>>
      BY <1>2 DEF logout_again, forgets, server, Exchange
    <2>2. cookie' = cookie
      <3>1. CASE cookie = <<>>
        BY <2>1, <3>1
      <3>2. CASE cookie # <<>>
        <4>1. cookie[1] = 0
          BY <2>1, <3>2, StringFacts
        <4>2. cookie \in Seq(0..MaxLogins) /\ 1 \in DOMAIN cookie
          BY <3>2 DEF TypeOK
        <4> QED BY <2>1, <3>2, <4>1, <4>2
      <3> QED BY <3>1, <3>2
    <2>3. TypeOK'
      BY <2>1, <2>2 DEF TypeOK
    <2>4. string(cookie)' = string(cookie) /\ Copied' = Copied
      BY <2>1, <2>2 DEF string, Copied, Welcome, cmd
    <2>5. Exchange'
      BY <2>1, <2>4 DEF Exchange, Asking, cmd, with
    <2>6. Buffer' /\ TokenIsCookies'
      BY <2>1, <2>2, <2>4 DEF Buffer, TokenIsCookies
    <2>7. Sessions'
      BY <2>1, <2>2, <2>4 DEF Sessions, Alike, Welcome, cmd
    <2>8. EndsForAReason'
      BY <2>1 DEF EndsForAReason
    <2> QED BY <2>3, <2>5, <2>6, <2>7, <2>8
  <1> QED BY <1>1, <1>2

LEMMA CommandsPreserve ==
    ASSUME WInv, status = "run", Commands
    PROVE  WInv'
  <1> USE DEF WInv, AboutBooks
  <1>1. CASE register_client
    BY <1>1, AsksPreserves DEF register_client
  <1>2. CASE login_client
    BY <1>2, AsksPreserves DEF login_client
  <1>3. CASE enter_library
    BY <1>3, AsksPreserves DEF enter_library
  <1>4. CASE get_books
    BY <1>4, AsksPreserves DEF get_books
  <1>5. CASE get_book
    BY <1>5, AsksPreserves DEF get_book
  <1>6. CASE add_book
    BY <1>6, AsksPreserves DEF add_book
  <1>7. CASE delete_book
    BY <1>7, AsksPreserves DEF delete_book
  <1>8. CASE logout_client
    BY <1>8, AsksPreserves DEF logout_client
  <1> QED BY <1>1, <1>2, <1>3, <1>4, <1>5, <1>6, <1>7, <1>8, PromptPreserves DEF Commands

-----------------------------------------------------------------------------
(* The server.                                                               *)

\* What is left of a response with one word or two, if it is cut off.
LEMMA CutOff ==
    ASSUME NEW a, NEW b, NEW k \in Nat
    PROVE  /\ k <= 1 => SubSeq(<<a>>, 1, k) \in {<<>>, <<a>>}
           /\ k <= 2 => SubSeq(<<a, b>>, 1, k) \in {<<>>, <<a>>, <<a, b>>}
  <1> DEFINE S == {a, b}
  <1>1. ASSUME NEW s \in Seq(S), k <= Len(s)
        PROVE  /\ SubSeq(s, 1, k) \in Seq(S) /\ Len(SubSeq(s, 1, k)) = k
               /\ \A n \in 1..k : SubSeq(s, 1, k)[n] = s[n]
    <2>1. 1 \in 1..Len(s) + 1 /\ k \in (1 - 1)..Len(s)
      BY <1>1
    <2> HIDE DEF S
    <2>2. /\ SubSeq(s, 1, k) \in Seq(S) /\ Len(SubSeq(s, 1, k)) = k - 1 + 1
          /\ \A n \in 1..(k - 1 + 1) : SubSeq(s, 1, k)[n] = s[1 + n - 1]
      BY <2>1, SubSeqProperties
    <2> QED BY <2>2
  <1>2. <<a>> \in Seq(S) /\ Len(<<a>>) = 1 /\ <<a>>[1] = a
        /\ <<a, b>> \in Seq(S) /\ Len(<<a, b>>) = 2 /\ <<a, b>>[1] = a /\ <<a, b>>[2] = b
    OBVIOUS
  <1> HIDE DEF S
  <1>3. \A s \in Seq(S) : /\ Len(s) = 0 => s = <<>>
                          /\ Len(s) = 1 /\ s[1] = a => s = <<a>>
                          /\ Len(s) = 2 /\ s[1] = a /\ s[2] = b => s = <<a, b>>
    <2>1. SUFFICES ASSUME NEW s \in Seq(S)
                   PROVE  /\ Len(s) = 0 => s = <<>>
                          /\ Len(s) = 1 /\ s[1] = a => s = <<a>>
                          /\ Len(s) = 2 /\ s[1] = a /\ s[2] = b => s = <<a, b>>
      OBVIOUS
    <2>2. Len(s) = 0 => s = <<>>
      BY <2>1
    <2>3. ASSUME Len(s) = 1, s[1] = a PROVE s = <<a>>
      <3>1. \A n \in 1..Len(s) : s[n] = <<a>>[n]
        BY <1>2, <2>3
      <3> QED BY <1>2, <2>3, <3>1, SeqEqual
    <2>4. ASSUME Len(s) = 2, s[1] = a, s[2] = b PROVE s = <<a, b>>
      <3>1. \A n \in 1..Len(s) : n = 1 \/ n = 2
        BY <2>4
      <3>2. \A n \in 1..Len(s) : s[n] = <<a, b>>[n]
        BY <1>2, <2>4, <3>1
      <3> QED BY <1>2, <2>4, <3>2, SeqEqual
    <2> QED BY <2>2, <2>3, <2>4
  <1>4. k <= 1 => SubSeq(<<a>>, 1, k) \in {<<>>, <<a>>}
    <2>1. SUFFICES ASSUME k <= 1 PROVE SubSeq(<<a>>, 1, k) \in {<<>>, <<a>>}
      OBVIOUS
    <2> DEFINE t == SubSeq(<<a>>, 1, k)
    <2>2. t \in Seq(S) /\ Len(t) = k /\ \A n \in 1..k : t[n] = <<a>>[n]
      BY <1>1, <1>2, <2>1
    <2> HIDE DEF t
    <2>3. (k = 1 => t[1] = a) /\ (k = 0 \/ k = 1)
      BY <1>2, <2>1, <2>2
    <2>4. t = <<>> \/ t = <<a>>
      BY <1>3, <2>2, <2>3
    <2> QED BY <2>4 DEF t
  <1>5. ASSUME k <= 2 PROVE SubSeq(<<a, b>>, 1, k) \in {<<>>, <<a>>, <<a, b>>}
    <2> DEFINE t == SubSeq(<<a, b>>, 1, k)
    <2>1. t \in Seq(S) /\ Len(t) = k /\ \A n \in 1..k : t[n] = <<a, b>>[n]
      BY <1>1, <1>2, <1>5
    <2> HIDE DEF t
    <2>2. (k >= 1 => t[1] = a) /\ (k = 2 => t[2] = b) /\ (k = 0 \/ k = 1 \/ k = 2)
      BY <1>2, <1>5, <2>1
    <2>3. t = <<>> \/ t = <<a>> \/ t = <<a, b>>
      BY <1>3, <2>1, <2>2
    <2> QED BY <2>3 DEF t
  <1> QED BY <1>4, <1>5

LEMMA WordsDiffer ==
    /\ <<>> # welcome /\ <<"OK">> # welcome /\ <<>> # admits /\ <<"OK">> # admits
    /\ welcome # admits
    /\ \A a : <<a>> # welcome /\ <<a>> # admits
    /\ welcome \in Seq({"OK", "Set-Cookie"}) /\ admits \in Seq({"OK", "{"})
  <1>1. Len(<<>>) = 0 /\ Len(<<"OK">>) = 1 /\ Len(welcome) = 2 /\ Len(admits) = 2
        /\ \A a : Len(<<a>>) = 1
    BY DEF welcome, admits
  <1>2. welcome[2] = "Set-Cookie" /\ admits[2] = "{" /\ "Set-Cookie" # "{"
    BY DEF welcome, admits
  <1>3. 0 # 2 /\ 1 # 2
    OBVIOUS
  <1>4. welcome # admits
    BY <1>2, Zenon
  <1>5. \A a : <<a>> # welcome /\ <<a>> # admits
    BY <1>1, <1>3, Zenon
  <1>6. welcome \in Seq({"OK", "Set-Cookie"}) /\ admits \in Seq({"OK", "{"})
    BY DEF welcome, admits
  <1> QED BY <1>1, <1>3, <1>4, <1>5, <1>6, Zenon

LEMMA WordsOfOne ==
    ASSUME NEW marks \in Full, NEW k \in 0..Len(marks)
    PROVE  SubSeq(marks, 1, k) \in {<<>>, <<"OK">>, marks}
  <1>1. \/ \E a \in {"{", "Too many requests", "Created", "OK"} : marks = <<a>>
        \/ \E b \in {"Set-Cookie", "{", "["} : marks = <<"OK", b>>
    BY DEF Full
  <1>2. ASSUME NEW a, marks = <<a>> PROVE SubSeq(marks, 1, k) \in {<<>>, marks}
    <2>1. Len(<<a>>) = 1
      OBVIOUS
    <2>2. k \in Nat /\ k <= 1
      BY <1>2, <2>1
    <2> QED BY <1>2, <2>2, CutOff
  <1>3. ASSUME NEW b, marks = <<"OK", b>>
        PROVE  SubSeq(marks, 1, k) \in {<<>>, <<"OK">>, marks}
    <2>1. Len(<<"OK", b>>) = 2
      OBVIOUS
    <2>2. k \in Nat /\ k <= 2
      BY <1>3, <2>1
    <2> QED BY <1>3, <2>2, CutOff
  <1> QED BY <1>1, <1>2, <1>3

LEMMA Sends ==
    ASSUME NEW marks \in Full, NEW s, NEW n \in Nat, NEW more \in Nat,
           sends(marks, s, n, more)
    PROVE  /\ response'.len \in Nat /\ response'.len <= 1 + more
           /\ response'.n \in Nat /\ response'.s = s
           /\ \/ response'.marks = marks
              \/ "cut" \in ways /\ response'.marks \in {<<>>, <<"OK">>}
           /\ "cut" \notin ways => response'.marks = marks /\ response'.n = n
           /\ response'.marks \in Words
           /\ UNCHANGED <<cookie, token, pc, request, received, status, ways>>
  <1>1. UNCHANGED <<cookie, token, pc, request, received, status, ways>>
    BY DEF sends, client
  <1>2. CASE response' = [marks |-> marks, s |-> s, n |-> n, len |-> 1 + more]
    <2>1. response'.marks = marks /\ response'.s = s /\ response'.n = n
          /\ response'.len = 1 + more
      BY <1>2
    <2> QED BY <1>1, <2>1 DEF Words
  <1>3. ASSUME "cut" \in ways, NEW k \in 0..Len(marks), NEW j \in 0..n,
               NEW l \in 0..(1 + more),
               response' = [marks |-> SubSeq(marks, 1, k), s |-> s, n |-> j, len |-> l]
        PROVE  /\ response'.len \in Nat /\ response'.len <= 1 + more
               /\ response'.n \in Nat /\ response'.s = s
               /\ \/ response'.marks = marks
                  \/ response'.marks \in {<<>>, <<"OK">>}
               /\ response'.marks \in Words
    <2>1. response'.marks = SubSeq(marks, 1, k) /\ response'.s = s /\ response'.n = j
          /\ response'.len = l
      BY <1>3
    <2>2. response'.marks \in {<<>>, <<"OK">>, marks}
      BY <2>1, WordsOfOne
    <2>3. response'.marks \in Words
      <3>1. marks \in Words /\ <<>> \in Words /\ <<"OK">> \in Words
        BY <1>3, Zenon DEF Words
      <3> QED BY <2>2, <3>1, Zenon
    <2> QED BY <1>3, <2>1, <2>2, <2>3
  <1> QED BY <1>1, <1>2, <1>3 DEF sends

\* A response that opens no session.
LEMMA AnswerPreserves ==
    ASSUME WInv, status = "run", pc = "read", response = None, TypeOK',
           NEW marks \in Full, NEW s \in 0..Len(owner), NEW more \in Nat,
           sends(marks, s, 0, more), marks # welcome,
           more = 0 \/ (cmd = "get_books" /\ more = books[owner[token]] /\ books' = books),
           cmd = "enter_library" /\ marks = admits =>
             s # 0 /\ cookie_of(s) = string(cookie),
           UNCHANGED <<owner, width>>, open' \subseteq open,
           ways = {} /\ Alike /\ cmd = "logout" => open' = {}
    PROVE  WInv'
  <1> USE DEF WInv
  <1>1. /\ response'.len \in Nat /\ response'.len <= 1 + more
        /\ response'.n \in Nat
        /\ response'.s = s /\ response'.marks \in Words
        /\ response'.marks = marks \/ response'.marks \in {<<>>, <<"OK">>}
        /\ UNCHANGED <<cookie, token, pc, request, received, status, ways>>
    <2>1. 0 \in Nat
      OBVIOUS
    <2> QED BY <2>1, Sends, Zenon
  <1>2. response' # None /\ received = 0
    <2>1. None.len = -1
      BY DEF None
    <2>2. response'.len \in Nat
      BY <1>1, Zenon
    <2>3. response' # None
      <3>1. SUFFICES ASSUME response' = None PROVE FALSE
        OBVIOUS
      <3>2. response'.len = -1
        BY <2>1, <3>1, Zenon
      <3> DEFINE l == response'.len
      <3>3. l \in Nat /\ l = -1
        BY <2>2, <3>2
      <3> HIDE DEF l
      <3> QED BY <3>3
    <2>4. received = 0
      BY DEF Exchange
    <2> QED BY <2>3, <2>4
  <1>3. cmd' = cmd /\ with' = with /\ string(cookie)' = string(cookie)
        /\ Words' = Words /\ Full' = Full /\ \A x : cookie_of(x)' = cookie_of(x)
    BY <1>1 DEF cmd, with, string, Words, Full, cookie_of
  <1>4. <<>> # welcome /\ <<"OK">> # welcome /\ <<>> # admits /\ <<"OK">> # admits
    BY WordsDiffer, Zenon
  <1>5. ~Welcome'
    BY <1>1, <1>4 DEF Welcome
  <1>6. Copied' = Copied
    BY <1>1, <1>2, <1>5 DEF Copied
  <1>7. Asking /\ Asking'
    BY <1>1, <1>2, <1>3 DEF Exchange, Asking
  <1>8. Answered'
    <2> DEFINE l == response'.len
    <2>0. l \in Nat /\ l <= 1 + more
      BY <1>1, Zenon
    <2> HIDE DEF l
    <2>1. l \in Nat /\ received' \in 0..l
      <3>1. received' = 0
        BY <1>1, <1>2, Zenon
      <3> QED BY <2>0, <3>1
    <2>2. l <= 1 \/ (cmd = "get_books" /\ l <= 1 + books'[owner'[token']])
      <3>1. more = 0 \/ (cmd = "get_books" /\ more = books'[owner'[token']])
        BY <1>1, Zenon
      <3> QED BY <2>0, <3>1
    <2> USE DEF l
    <2>3. response'.s \in 0..Len(owner')
      BY <1>1
    <2>4. Admits' => response'.s # 0 /\ cookie_of(response'.s) = string(cookie)
      BY <1>1, <1>3, <1>4 DEF Admits
    <2> QED BY <1>1, <1>3, <1>5, <2>1, <2>2, <2>3, <2>4 DEF Answered
  <1>9. Exchange'
    BY <1>1, <1>2, <1>3, <1>7, <1>8 DEF Exchange
  <1>10. Buffer' /\ TokenIsCookies'
    BY <1>1, <1>3, <1>6 DEF Buffer, TokenIsCookies
  <1>11. Sessions'
    BY <1>1, <1>2, <1>3, <1>5 DEF Sessions, Alike
  <1>12. EndsForAReason'
    BY <1>1 DEF EndsForAReason
  <1> QED BY <1>9, <1>10, <1>11, <1>12

\* What the server may say to a command.
LEMMA WhatItSays ==
    /\ <<"{">> \in Full /\ <<"Too many requests">> \in Full
    /\ cmd = "register" => <<"Created">> \in Full
    /\ cmd = "login" => welcome \in Full
    /\ cmd = "enter_library" => admits \in Full
    /\ cmd \in {"get_books", "get_book"} => <<"OK", "[">> \in Full
    /\ cmd \in {"logout", "add_book", "delete_book"} => <<"OK">> \in Full
    /\ <<"OK", "[">> # welcome
  <1>1. <<"{">> \in Full /\ <<"Too many requests">> \in Full
    BY Zenon DEF Full
  <1>2. cmd = "register" => <<"Created">> \in Full
    BY DEF Full
  <1>3. cmd = "login" => welcome \in Full
    BY DEF Full, welcome
  <1>4. cmd = "enter_library" => admits \in Full
    BY DEF Full, admits
  <1>5. cmd \in {"get_books", "get_book"} => <<"OK", "[">> \in Full
    BY DEF Full
  <1>6. cmd \in {"logout", "add_book", "delete_book"} => <<"OK">> \in Full
    BY DEF Full
  <1>7. welcome[2] = "Set-Cookie" /\ <<"OK", "[">>[2] = "[" /\ "Set-Cookie" # "["
    BY DEF welcome
  <1> QED BY <1>1, <1>2, <1>3, <1>4, <1>5, <1>6, <1>7, Zenon

\* A response of one word, which is no session's.
LEMMA SaysPreserves ==
    ASSUME WInv, status = "run", pc = "read", response = None, TypeOK', NEW mark,
           <<mark>> \in Full, says(mark), UNCHANGED <<owner, width>>, open' \subseteq open,
           ways = {} /\ Alike /\ cmd = "logout" => open' = {}
    PROVE  WInv'
  <1>1. sends(<<mark>>, 0, 0, 0) /\ 0 \in Nat
    BY DEF says
  <1>2. 0 \in 0..Len(owner)
    <2>1. Len(owner) \in Nat
      BY ServerTypes DEF WInv
    <2> QED BY <2>1
  <1>3. <<mark>> # welcome /\ <<mark>> # admits
    BY WordsDiffer, Zenon
  <1> QED BY <1>1, <1>2, <1>3, AnswerPreserves, Zenon

\* What the server does not change.
LEMMA Quiet ==
    ASSUME WInv, NEW marks, NEW s, NEW n, NEW more, sends(marks, s, n, more)
    PROVE  /\ UNCHANGED <<cookie, token, pc, request, received, status, ways>>
           /\ UNCHANGED server => TypeOK'
  <1>1. UNCHANGED <<cookie, token, pc, request, received, status, ways>>
    BY DEF sends, client
  <1>2. ASSUME UNCHANGED server PROVE TypeOK'
    BY <1>1, <1>2 DEF server, WInv, TypeOK
  <1> QED BY <1>1, <1>2

\* A refusal changes nothing: only that of a logout needs a reason.
LEMMA RefusesPreserves ==
    ASSUME WInv, status = "run", pc = "read", response = None, refuses,
           ways = {} /\ Alike /\ cmd = "logout" => open = {}
    PROVE  WInv'
  <1>1. says("{") /\ UNCHANGED server /\ <<"{">> \in Full
    BY WhatItSays DEF refuses
  <1>2. TypeOK'
    BY <1>1, Quiet DEF says
  <1>3. UNCHANGED <<owner, width, open>>
    BY <1>1 DEF server
  <1> QED BY <1>1, <1>2, <1>3, SaysPreserves

\* A buffer that may be sent begins with the last session whose cookie was copied;
\* it is that session's cookie if it is as long.
LEMMA Whose ==
    ASSUME TypeOK, Buffer, "cut" \notin ways, string(cookie) # <<>>, Copied <= Len(owner),
           Copied \in Nat
    PROVE  /\ cookie[1] = Copied /\ Copied \in 1..Len(owner)
           /\ Len(cookie) = width[Copied] => cookie = cookie_of(Copied)
           /\ cookie = cookie_of(Copied) => Len(cookie) = width[Copied]
  <1>1. cookie # <<>> /\ cookie[1] # 0 /\ Len(cookie) \in Nat /\ Len(cookie) > 0
    BY StringFacts, ServerTypes
  <1>2. cookie[1] = Copied
    BY <1>1 DEF Buffer
  <1>3. Copied \in 1..Len(owner)
    BY <1>1, <1>2, ServerTypes
  <1>4. \A k \in 2..Len(cookie) : k <= width[Copied] => cookie[k] = Copied
    BY DEF Buffer
  <1>5. ASSUME Len(cookie) = width[Copied] PROVE cookie = cookie_of(Copied)
    <2>1. \A k \in 1..Len(cookie) : cookie[k] = Copied
      <3>1. SUFFICES ASSUME NEW k \in 1..Len(cookie) PROVE cookie[k] = Copied
        OBVIOUS
      <3>2. CASE k = 1
        BY <1>2, <3>2
      <3>3. CASE k # 1
        <4>1. k \in 2..Len(cookie) /\ k <= width[Copied]
          BY <1>1, <1>5, <3>3
        <4> QED BY <1>4, <4>1
      <3> QED BY <3>2, <3>3
    <2>2. cookie = [k \in 1..Len(cookie) |-> cookie[k]]
      BY DEF TypeOK
    <2>3. cookie_of(Copied) = [k \in 1..Len(cookie) |-> Copied]
      BY <1>5, Zenon DEF cookie_of
    <2> QED BY <2>1, <2>2, <2>3
  <1>6. Len(cookie_of(Copied)) = width[Copied]
    BY <1>3, CookieOf
  <1> QED BY <1>2, <1>3, <1>5, <1>6, Zenon

\* With cookies of one length the buffer is that of the session it begins with.
LEMMA AlikeWhose ==
    ASSUME TypeOK, Buffer, "cut" \notin ways, string(cookie) # <<>>, Alike,
           response = None
    PROVE  cookie = cookie_of(cookie[1]) /\ cookie[1] \in 1..Len(owner)
  <1>1. Copied = Len(owner) /\ Len(owner) \in Nat
    BY ServerTypes DEF Copied
  <1>2. cookie[1] = Copied /\ Copied \in 1..Len(owner)
    BY <1>1, Whose
  <1>3. PICK s \in 1..Copied : width[s] = Len(cookie)
    BY <1>1, <1>2 DEF Buffer
  <1>4. s \in DOMAIN width /\ Copied \in DOMAIN width
    BY <1>1, <1>2, ServerTypes
  <1>5. width[Copied] = Len(cookie)
    BY <1>3, <1>4 DEF Alike
  <1> QED BY <1>1, <1>2, <1>5, Whose

LEMMA LogoutPreserves ==
    ASSUME WInv, status = "run", Logout
    PROVE  WInv'
  <1>1. pc = "read" /\ response = None /\ cmd = "logout"
    BY DEF Logout, asked, cmd
  <1>2. with = string(cookie) /\ with # <<>>
    BY <1>1 DEF WInv, Exchange, Asking
  <1>3. ways = {} /\ Alike => open \subseteq {cookie[1]}
    BY <1>1, <1>2 DEF WInv, Sessions
  <1>4. open \subseteq 1..Len(owner)
    BY DEF WInv, TypeOK
  <1>5. ASSUME NEW s \in open, open' = open \ {s}, says("OK"),
               UNCHANGED <<registered, owner, width, books>>
        PROVE  WInv'
    <2>1. UNCHANGED <<cookie, token, pc, request, received, status, ways>>
      BY <1>5, Quiet DEF says
    <2>2. TypeOK'
      BY <1>5, <2>1 DEF WInv, TypeOK
    <2>3. open' \subseteq open /\ (ways = {} /\ Alike => open' = {})
      BY <1>3, <1>5
    <2>4. <<"OK">> \in Full
      BY <1>1, WhatItSays
    <2> QED BY <1>1, <1>5, <2>2, <2>3, <2>4, SaysPreserves
  <1>6. ASSUME \A s \in open : with # cookie_of(s), refuses
        PROVE  WInv'
    <2>1. ASSUME ways = {}, Alike PROVE open = {}
      <3>1. cookie = cookie_of(cookie[1])
        BY <1>1, <1>2, <2>1, AlikeWhose DEF WInv
      <3>2. string(cookie) = cookie
        BY <1>2, StringFacts DEF WInv
      <3>3. cookie[1] \notin open
        BY <1>2, <1>6, <3>1, <3>2, Zenon
      <3> QED BY <1>3, <2>1, <3>3
    <2> QED BY <1>1, <1>6, <2>1, RefusesPreserves
  <1> QED BY <1>5, <1>6 DEF Logout

\* A response of two words that opens no session.
LEMMA AboutPreserves ==
    ASSUME WInv, status = "run", pc = "read", response = None,
           NEW marks \in Full, NEW s \in 0..Len(owner), NEW more \in Nat,
           sends(marks, s, 0, more), marks # welcome,
           more = 0 \/ (cmd = "get_books" /\ more = books[owner[token]]),
           cmd = "enter_library" => s # 0 /\ cookie_of(s) = string(cookie),
           cmd # "logout", UNCHANGED server
    PROVE  WInv'
  <1>1. TypeOK'
    BY Quiet
  <1>2. UNCHANGED <<owner, width, open, books>>
    BY DEF server
  <1> QED BY <1>1, <1>2, AnswerPreserves

LEMMA ReadingPreserves ==
    ASSUME WInv, status = "run", Admit \/ List \/ Show \/ TooMany
    PROVE  WInv'
  <1>1. pc = "read" /\ response = None
    BY DEF Admit, List, Show, TooMany, asked
  <1>2. Asking /\ TypeOK
    BY <1>1 DEF WInv, Exchange
  <1>3. Len(owner) \in Nat /\ 0 \in 0..Len(owner) /\ 0 \in Nat
    BY <1>2, ServerTypes
  <1>4. CASE Admit
    <2>1. cmd = "enter_library"
      BY <1>4 DEF Admit, asked, cmd
    <2>2. with = string(cookie) /\ admits \in Full /\ admits # welcome /\ cmd # "logout"
          /\ cmd # "get_books"
      BY <1>2, <2>1, WhatItSays, WordsDiffer DEF Asking
    <2>3. ASSUME NEW s \in open, with = cookie_of(s), sends(admits, s, 0, 0),
                 UNCHANGED server
          PROVE  WInv'
      <3>1. s \in 1..Len(owner)
        BY <1>2 DEF TypeOK
      <3>2. s \in 0..Len(owner) /\ s # 0
        BY <1>3, <3>1
      <3>3. cookie_of(s) = string(cookie)
        BY <2>2, <2>3
      <3> QED BY <1>1, <1>3, <2>2, <2>3, <3>2, <3>3, AboutPreserves
    <2>4. ASSUME says("{"), UNCHANGED server PROVE WInv'
      BY <1>1, <2>2, <2>4, RefusesPreserves DEF refuses
    <2> QED BY <1>4, <2>3, <2>4 DEF Admit, admits
  <1>5. CASE List
    <2>1. cmd = "get_books" /\ cmd # "logout" /\ cmd # "enter_library"
      BY <1>5 DEF List, asked, cmd
    <2>2. <<"OK", "[">> \in Full /\ <<"OK", "[">> # welcome
      BY <2>1, WhatItSays
    <2>3. with = token /\ token # 0 /\ token \in 0..Len(owner)
      BY <1>2, <2>1 DEF Asking, AboutBooks, TypeOK
    <2>4. books[owner[token]] \in Nat
      <3>1. token \in 1..Len(owner)
        BY <1>3, <2>3
      <3> QED BY <1>2, <3>1, ServerTypes
    <2>5. sends(<<"OK", "[">>, 0, 0, books[owner[token]]) /\ UNCHANGED server
      BY <1>5, <2>3 DEF List, user
    <2> QED BY <1>1, <1>3, <2>1, <2>2, <2>4, <2>5, AboutPreserves, Zenon
  <1>6. CASE Show
    <2>1. cmd = "get_book" /\ cmd # "logout" /\ cmd # "enter_library"
      BY <1>6 DEF Show, asked, cmd
    <2>2. <<"OK", "[">> \in Full /\ <<"OK", "[">> # welcome
      BY <2>1, WhatItSays
    <2>3. CASE refuses
      BY <1>1, <2>1, <2>3, RefusesPreserves
    <2>4. CASE sends(<<"OK", "[">>, 0, 0, 0) /\ UNCHANGED server
      BY <1>1, <1>3, <2>1, <2>2, <2>4, AboutPreserves, Zenon
    <2> QED BY <1>6, <2>3, <2>4, Zenon DEF Show
  <1>7. CASE TooMany
    <2>1. "limit" \in ways /\ says("Too many requests") /\ UNCHANGED server
      BY <1>7 DEF TooMany
    <2>2. TypeOK' /\ UNCHANGED <<owner, width, open>>
      BY <2>1, Quiet DEF says, server
    <2>3. <<"Too many requests">> \in Full /\ ways # {}
      BY <2>1, WhatItSays
    <2> QED BY <1>1, <2>1, <2>2, <2>3, SaysPreserves
  <1> QED BY <1>4, <1>5, <1>6, <1>7

LEMMA WritingPreserves ==
    ASSUME WInv, status = "run", Register \/ Add \/ Delete
    PROVE  WInv'
  <1>1. pc = "read" /\ response = None
    BY DEF Register, Add, Delete, asked
  <1>2. Asking /\ TypeOK
    BY <1>1 DEF WInv, Exchange
  <1>3. CASE Register
    <2>1. cmd = "register" /\ cmd # "logout"
      BY <1>3 DEF Register, asked, cmd
    <2>2. CASE refuses
      BY <1>1, <2>1, <2>2, RefusesPreserves
    <2>3. CASE /\ says("Created") /\ registered' = registered \cup {with[1]}
               /\ UNCHANGED <<owner, width, open, books>>
      <3>1. with[1] \in User
        BY <1>2, <2>1 DEF Asking
      <3>2. UNCHANGED <<cookie, token, pc, request, received, status, ways>>
        BY <2>3, Quiet DEF says
      <3>3. TypeOK'
        BY <1>2, <2>3, <3>1, <3>2 DEF TypeOK
      <3>4. <<"Created">> \in Full
        BY <2>1, WhatItSays
      <3> QED BY <1>1, <2>1, <2>3, <3>3, <3>4, SaysPreserves
    <2> QED BY <1>3, <2>2, <2>3 DEF Register
  <1>4. ASSUME cmd \in {"add_book", "delete_book"}, NEW n, n \in 0..MaxBooks, says("OK"),
               books' = [books EXCEPT ![user] = n], UNCHANGED <<registered, owner, width, open>>
        PROVE  WInv'
    <2>1. UNCHANGED <<cookie, token, pc, request, received, status, ways>>
      BY <1>4, Quiet DEF says
    <2>2. TypeOK'
      BY <1>2, <1>4, <2>1 DEF TypeOK
    <2>3. <<"OK">> \in Full /\ cmd # "logout"
      BY <1>4, WhatItSays
    <2> QED BY <1>1, <1>4, <2>2, <2>3, SaysPreserves
  <1>5. ASSUME cmd \in {"add_book", "delete_book"}
        PROVE  /\ user = owner[token] /\ user \in User /\ books[user] \in 0..MaxBooks
               /\ cmd = "add_book" => books[user] < MaxBooks
    <2>1. with = token /\ token # 0 /\ token \in 0..Len(owner)
      BY <1>2, <1>5 DEF Asking, AboutBooks, TypeOK
    <2>2. token \in 1..Len(owner)
      BY <1>2, <2>1, ServerTypes
    <2>3. user = owner[token] /\ user \in User
      BY <1>2, <2>1, <2>2, ServerTypes DEF user
    <2>4. books[user] \in 0..MaxBooks
      BY <1>2, <2>3 DEF TypeOK
    <2>5. cmd = "add_book" => books[user] < MaxBooks
      BY <1>1, <1>2, <2>3 DEF Asking
    <2> QED BY <2>3, <2>4, <2>5
  <1>6. CASE Add
    <2>1. cmd = "add_book"
      BY <1>6 DEF Add, asked, cmd
    <2>2. books[user] + 1 \in 0..MaxBooks
      BY <1>5, <2>1
    <2>3. says("OK") /\ books' = [books EXCEPT ![user] = books[user] + 1]
          /\ UNCHANGED <<registered, owner, width, open>>
      BY <1>6 DEF Add
    <2> QED BY <1>4, <2>1, <2>2, <2>3
  <1>7. CASE Delete
    <2>1. cmd = "delete_book" /\ cmd # "logout"
      BY <1>7 DEF Delete, asked, cmd
    <2>2. CASE refuses
      BY <1>1, <2>1, <2>2, RefusesPreserves
    <2>3. CASE /\ books[user] > 0 /\ says("OK")
               /\ books' = [books EXCEPT ![user] = @ - 1]
               /\ UNCHANGED <<registered, owner, width, open>>
      <3>1. books[user] - 1 \in 0..MaxBooks
        BY <1>5, <2>1, <2>3
      <3>2. books' = [books EXCEPT ![user] = books[user] - 1]
        BY <2>3
      <3> QED BY <1>4, <2>1, <2>3, <3>1, <3>2
    <2> QED BY <1>7, <2>2, <2>3 DEF Delete
  <1> QED BY <1>3, <1>6, <1>7

\* The server opens a session: its cookie is longer or shorter than others.
LEMMA WelcomePreserves ==
    ASSUME WInv, status = "run", asked("login"), with[1] \in registered,
           NEW n \in Widths, sends(welcome, Len(owner) + 1, n, 0),
           width' = Append(width, n), owner' = Append(owner, with[1]),
           open' = open \cup {Len(owner) + 1}, UNCHANGED <<registered, books>>
    PROVE  WInv'
  <1>1. pc = "read" /\ response = None /\ cmd = "login" /\ received = 0
    BY DEF asked, cmd, WInv, Exchange
  <1>2. Asking /\ TypeOK /\ n \in Nat
    BY <1>1 DEF WInv, Exchange
  <1> DEFINE m == Len(owner)
  <1>3. m \in Nat /\ m < MaxLogins /\ Len(width) = m /\ DOMAIN width = 1..m
    BY <1>1, <1>2, ServerTypes DEF Asking
  <1>4. /\ with[1] \in User /\ owner \in Seq(User) /\ width \in Seq(Widths)
        /\ open \subseteq 1..m
    BY <1>2 DEF TypeOK
  <1>5. /\ owner' \in Seq(User) /\ Len(owner') = m + 1
        /\ width' \in Seq(Widths) /\ Len(width') = m + 1 /\ width'[m + 1] = n
        /\ \A k \in 1..m : width'[k] = width[k]
        /\ DOMAIN width' = 1..(m + 1)
    BY <1>3, <1>4
  <1>6. /\ response'.len \in Nat /\ response'.len <= 1 /\ response'.n \in Nat
        /\ response'.s = m + 1 /\ response'.marks \in Words
        /\ "cut" \notin ways => response'.marks = welcome /\ response'.n = n
        /\ response'.marks = welcome \/ "cut" \in ways
        /\ UNCHANGED <<cookie, token, pc, request, received, status, ways>>
    <2>1. welcome \in Full /\ 0 \in Nat
      BY <1>1, WhatItSays
    <2>2. /\ response'.len \in Nat /\ response'.len <= 1 + 0 /\ response'.n \in Nat
          /\ response'.s = m + 1 /\ response'.marks \in Words
          /\ response'.marks = welcome \/ "cut" \in ways
          /\ "cut" \notin ways => response'.marks = welcome /\ response'.n = n
          /\ UNCHANGED <<cookie, token, pc, request, received, status, ways>>
      BY <1>2, <2>1, Sends, Zenon
    <2> QED BY <2>2
  <1> HIDE DEF m
  <1>7. TypeOK'
    <2>1. /\ cookie \in Seq(0..MaxLogins) /\ token \in 0..m /\ pc \in {"prompt", "read"}
          /\ received \in 0..BUFLEN /\ registered \subseteq User
          /\ books \in [User -> 0..MaxBooks] /\ ways \in Ways
      BY <1>2 DEF TypeOK, m
    <2>2. open' \subseteq 1..(m + 1) /\ token' \in 0..(m + 1) /\ m + 1 <= MaxLogins
      <3>1. open' = open \cup {m + 1}
        BY DEF m
      <3>2. \A x \in 1..m : x \in 1..(m + 1)
        BY <1>3
      <3>3. m + 1 \in 1..(m + 1)
        BY <1>3
      <3>4. open' \subseteq 1..(m + 1)
        BY <1>4, <3>1, <3>2, <3>3, Zenon
      <3>5. token' \in 0..(m + 1)
        BY <1>3, <1>6, <2>1
      <3>6. m + 1 <= MaxLogins
        BY <1>3
      <3> QED BY <3>4, <3>5, <3>6
    <2> QED BY <1>5, <1>6, <2>1, <2>2 DEF TypeOK
  <1>8. response' # None
    <2>1. None.len = -1
      BY DEF None
    <2> QED BY <1>6, <2>1
  <1>9. /\ cmd' = cmd /\ with' = with /\ string(cookie)' = string(cookie) /\ Words' = Words
        /\ "cut" \notin ways => Welcome'
    BY <1>1, <1>6 DEF cmd, with, string, Words, Full, Welcome
  <1>10. Asking'
    BY <1>1, <1>2, <1>6, <1>8, <1>9 DEF Asking, AboutBooks
  <1>11. Answered'
    <2>1. /\ response'.s = Len(owner') /\ response'.s > 0 /\ response'.s \in 0..Len(owner')
          /\ "cut" \notin ways => response'.n = width'[response'.s]
      BY <1>3, <1>5, <1>6
    <2>2. received' \in 0..response'.len
      BY <1>1, <1>6
    <2>3. ~Admits'
      BY <1>1, <1>9 DEF Admits
    <2>4. /\ response'.len \in Nat /\ response'.len <= 1 /\ response'.n \in Nat
          /\ response'.marks \in Words' /\ ways' = ways
      BY <1>6, <1>9, Zenon
    <2> QED BY <2>1, <2>2, <2>3, <2>4 DEF Answered
  <1>12. Exchange'
    BY <1>1, <1>6, <1>8, <1>9, <1>10, <1>11 DEF Exchange
  <1>13. Copied = m /\ ("cut" \notin ways => Copied' = m)
    <2>1. Copied = m
      BY <1>1 DEF Copied, m
    <2>2. Welcome' => Copied' = Len(owner') - 1
      BY <1>8 DEF Copied
    <2> QED BY <1>3, <1>5, <1>9, <2>1, <2>2
  <1>14. Buffer'
    <2>1. \A k \in 1..Len(cookie) : cookie[k] \in 0..(m + 1)
      <3>1. \A k \in 1..Len(cookie) : cookie[k] \in 0..m
        BY DEF WInv, Buffer, m
      <3> QED BY <1>3, <3>1
    <2>2. ASSUME "cut" \notin ways
          PROVE  /\ m = 0 => cookie = <<>>
                 /\ cookie # <<>> => cookie[1] \in {0, m}
                 /\ \A s \in 1..m : width'[s] <= Len(cookie)
                 /\ m > 0 => \E s \in 1..m : width'[s] = Len(cookie)
                 /\ \A k \in 2..Len(cookie) : k <= width'[m] => cookie[k] = m
      <3>1. /\ m = 0 => cookie = <<>>
            /\ cookie # <<>> => cookie[1] \in {0, m}
            /\ \A s \in 1..m : width[s] <= Len(cookie)
            /\ m > 0 => \E s \in 1..m : width[s] = Len(cookie)
            /\ \A k \in 2..Len(cookie) : k <= width[m] => cookie[k] = m
        BY <1>13, <2>2 DEF WInv, Buffer
      <3>2. CASE m = 0
        <4>1. Len(cookie) = 0
          BY <3>1, <3>2
        <4> QED BY <3>1, <3>2, <4>1
      <3>3. CASE m # 0
        <4>1. m \in 1..m
          BY <1>3, <3>3
        <4> QED BY <1>5, <3>1, <4>1
      <3> QED BY <3>2, <3>3
    <2> QED BY <1>5, <1>6, <1>13, <2>1, <2>2 DEF Buffer
  <1>15. TokenIsCookies'
    BY <1>6, <1>9 DEF WInv, TokenIsCookies
  <1>16. Sessions'
    <2>1. ASSUME ways = {}, Alike' PROVE open' \subseteq {m + 1} /\ Welcome'
      <3>1. Alike
        BY <1>3, <1>5, <2>1 DEF Alike
      <3>2. string(cookie) = <<>>
        BY <1>1, <1>2, <2>1 DEF Asking
      <3>3. open = {}
        BY <1>1, <2>1, <3>1, <3>2 DEF WInv, Sessions
      <3> QED BY <1>9, <2>1, <3>3 DEF m
    <2> QED BY <1>5, <1>6, <1>8, <2>1 DEF Sessions
  <1>17. EndsForAReason'
    BY <1>6 DEF EndsForAReason
  <1> QED BY <1>7, <1>12, <1>14, <1>15, <1>16, <1>17 DEF WInv

LEMMA ServerPreserves ==
    ASSUME WInv, status = "run", Server
    PROVE  WInv'
  <1>1. CASE Login
    <2>1. asked("login") /\ pc = "read" /\ response = None /\ cmd = "login"
      BY <1>1 DEF Login, asked, cmd
    <2>2. CASE refuses
      BY <2>1, <2>2, RefusesPreserves
    <2>3. CASE ~refuses
      BY <1>1, <2>1, <2>3, WelcomePreserves DEF Login, welcome
    <2> QED BY <2>2, <2>3
  <1> QED BY <1>1, LogoutPreserves, ReadingPreserves, WritingPreserves DEF Server

-----------------------------------------------------------------------------
(* The response.                                                             *)

\* The buffer is full only of a list of books.
LEMMA ReceivePreserves ==
    ASSUME WInv, status = "run", receive_from_server
    PROVE  WInv'
  <1>1. /\ pc = "read" /\ response # None
        /\ UNCHANGED <<cookie, token, pc, request, response, registered, owner, width, open,
                       books, ways>>
    BY DEF receive_from_server, server
  <1>2. Answered /\ Asking /\ TypeOK
    BY <1>1 DEF WInv, Exchange
  <1> DEFINE l == response.len
  <1>3. l \in Nat /\ received \in 0..l /\ received < BUFLEN
        /\ (l <= 1 \/ (cmd = "get_books" /\ l <= 1 + books[owner[token]]))
    BY <1>2 DEF Answered, receive_from_server
  <1>4. PICK n \in 1..(l - received) :
            /\ received + n <= BUFLEN /\ received' = received + n
            /\ status' = IF received + n = BUFLEN THEN "died" ELSE "run"
    BY DEF receive_from_server, room
  <1> HIDE DEF l
  <1>5. received' \in 0..l /\ received' \in 0..BUFLEN
    BY <1>3, <1>4
  <1>6. TypeOK'
    <2>1. status' \in {"run", "exit", "died", "crashed"}
      BY <1>4
    <2> QED BY <1>1, <1>2, <1>5, <2>1 DEF TypeOK
  <1>7. /\ cmd' = cmd /\ with' = with /\ string(cookie)' = string(cookie)
        /\ Words' = Words /\ Welcome' = Welcome /\ Admits' = Admits /\ Copied' = Copied
        /\ Alike' = Alike /\ \A x : cookie_of(x)' = cookie_of(x)
    BY <1>1 DEF cmd, with, string, Words, Full, Welcome, Admits, Copied, Alike, cookie_of
  <1>8. Asking' /\ Answered'
    <2>1. Asking'
      BY <1>1, <1>2, <1>7 DEF Asking
    <2>2. Answered'
      BY <1>1, <1>2, <1>5, <1>7 DEF Answered, l
    <2> QED BY <2>1, <2>2
  <1>9. Exchange'
    BY <1>1, <1>7, <1>8 DEF WInv, Exchange
  <1>10. Buffer' /\ TokenIsCookies' /\ Sessions'
    BY <1>1, <1>7 DEF WInv, Buffer, TokenIsCookies, Sessions
  <1>11. EndsForAReason'
    <2>1. ASSUME received + n = BUFLEN PROVE \E u \in User : 1 + books[u] >= BUFLEN
      <3>1. cmd = "get_books" /\ l <= 1 + books[owner[token]] /\ BUFLEN <= l
        BY <1>3, <1>4, <2>1
      <3>2. token # 0 /\ token \in 0..Len(owner) /\ Len(owner) \in Nat
        BY <1>2, <3>1, ServerTypes DEF Asking, AboutBooks, TypeOK
      <3>3. token \in 1..Len(owner)
        BY <3>2
      <3>4. owner[token] \in User /\ books[owner[token]] \in Nat
        BY <1>2, <3>3, ServerTypes
      <3>5. 1 + books[owner[token]] >= BUFLEN
        BY <1>3, <3>1, <3>4
      <3> QED BY <3>4, <3>5
    <2> QED BY <1>1, <1>4, <2>1 DEF EndsForAReason
  <1> QED BY <1>6, <1>9, <1>10, <1>11 DEF WInv

\* What strstr() finds.
LEMMA Finds ==
    ASSUME WInv, response # None
    PROVE  /\ cmd = "login" => (Welcome <=> has("OK") /\ has("Set-Cookie"))
           /\ cmd = "enter_library" => (Admits <=> has("OK") /\ has("{"))
           /\ "cut" \notin ways =>
                /\ cmd = "register" => has("Created") \/ reports
                /\ cmd \in {"login", "enter_library"} => Welcome \/ Admits \/ (~has("OK") /\ reports)
                /\ cmd \in {"get_books", "get_book"} => IF has("OK") THEN has("[") ELSE reports
                /\ cmd \in {"logout", "add_book", "delete_book"} => has("OK") \/ reports
  <1>1. response.marks \in Words
    BY DEF WInv, Exchange, Answered
  <1>2. ASSUME NEW a, response.marks = <<a>> PROVE \A x : has(x) <=> x = a
    BY <1>2 DEF has
  <1>3. ASSUME NEW a, NEW b, response.marks = <<a, b>>
        PROVE  \A x : has(x) <=> x = a \/ x = b
    BY <1>3 DEF has
  <1>4. response.marks = <<>> => \A x : ~has(x)
    BY DEF has
  <1>5. \/ response.marks = <<"{">>
        \/ response.marks = <<"Too many requests">>
        \/ "cut" \in ways /\ (response.marks = <<>> \/ response.marks = <<"OK">>)
        \/ cmd = "register" /\ response.marks = <<"Created">>
        \/ cmd = "login" /\ response.marks = <<"OK", "Set-Cookie">>
        \/ cmd = "enter_library" /\ response.marks = <<"OK", "{">>
        \/ cmd \in {"get_books", "get_book"} /\ response.marks = <<"OK", "[">>
        \/ /\ cmd \notin {"register", "login", "enter_library", "get_books", "get_book"}
           /\ response.marks = <<"OK">>
    BY <1>1 DEF Words, Full
  <1>6. CASE response.marks = <<"{">>
    <2>1. \A x : has(x) <=> x = "{"
      BY <1>2, <1>6
    <2>2. ~Welcome /\ ~Admits
      BY <1>6, WordsDiffer, Zenon DEF Welcome, Admits
    <2> QED BY <2>1, <2>2 DEF reports
  <1>7. CASE response.marks = <<"Too many requests">>
    <2>1. \A x : has(x) <=> x = "Too many requests"
      BY <1>2, <1>7
    <2>2. ~Welcome /\ ~Admits
      BY <1>7, WordsDiffer, Zenon DEF Welcome, Admits
    <2> QED BY <2>1, <2>2 DEF reports
  <1>8. CASE "cut" \in ways /\ response.marks = <<>>
    <2>1. \A x : ~has(x)
      BY <1>4, <1>8
    <2>2. ~Welcome /\ ~Admits
      BY <1>8, WordsDiffer, Zenon DEF Welcome, Admits
    <2> QED BY <1>8, <2>1, <2>2
  <1>9. CASE "cut" \in ways /\ response.marks = <<"OK">>
    <2>1. \A x : has(x) <=> x = "OK"
      BY <1>2, <1>9
    <2>2. ~Welcome /\ ~Admits
      BY <1>9, WordsDiffer, Zenon DEF Welcome, Admits
    <2> QED BY <1>9, <2>1, <2>2
  <1>10. CASE cmd = "register" /\ response.marks = <<"Created">>
    <2>1. \A x : has(x) <=> x = "Created"
      BY <1>2, <1>10
    <2> QED BY <1>10, <2>1
  <1>11. CASE cmd = "login" /\ response.marks = <<"OK", "Set-Cookie">>
    <2>1. \A x : has(x) <=> x = "OK" \/ x = "Set-Cookie"
      BY <1>3, <1>11
    <2>2. Welcome
      BY <1>11, Zenon DEF Welcome, welcome
    <2> QED BY <1>11, <2>1, <2>2
  <1>12. CASE cmd = "enter_library" /\ response.marks = <<"OK", "{">>
    <2>1. \A x : has(x) <=> x = "OK" \/ x = "{"
      BY <1>3, <1>12
    <2>2. Admits
      BY <1>12, Zenon DEF Admits, admits
    <2> QED BY <1>12, <2>1, <2>2
  <1>13. CASE cmd \in {"get_books", "get_book"} /\ response.marks = <<"OK", "[">>
    <2>1. \A x : has(x) <=> x = "OK" \/ x = "["
      BY <1>3, <1>13
    <2> QED BY <1>13, <2>1
  <1>14. CASE /\ cmd \notin {"register", "login", "enter_library", "get_books", "get_book"}
              /\ response.marks = <<"OK">>
    <2>1. \A x : has(x) <=> x = "OK"
      BY <1>2, <1>14
    <2> QED BY <1>14, <2>1
  <1> QED BY <1>5, <1>6, <1>7, <1>8, <1>9, <1>10, <1>11, <1>12, <1>13, <1>14

\* What the end of every command has in common.
LEMMA Returned ==
    ASSUME WInv, status = "run", NEW c, returned(c), NEW good, outcome(good),
           ~good => "cut" \in ways
    PROVE  /\ pc = "read" /\ response # None /\ cmd = c /\ Answered /\ Asking /\ TypeOK
           /\ response' = None /\ received' = 0
           /\ UNCHANGED <<registered, owner, width, open, books, ways>>
           /\ pc' \in {"prompt", "read"} /\ status' \in {"run", "exit", "died", "crashed"}
           /\ Len(owner) \in Nat /\ Copied' = Len(owner) /\ Exchange' /\ EndsForAReason'
           /\ ~Welcome => Copied' = Copied
  <1>1. /\ pc = "read" /\ response # None /\ cmd = c /\ response' = None /\ received' = 0
        /\ UNCHANGED <<registered, owner, width, open, books, ways>>
    BY DEF returned, cmd, server
  <1>2. \/ pc' = "prompt" /\ status' = status
        \/ "cut" \in ways /\ status' = "crashed" /\ pc' = pc
    BY DEF outcome
  <1>3. Answered /\ Asking /\ TypeOK
    BY <1>1 DEF WInv, Exchange
  <1>4. pc' \in {"prompt", "read"} /\ status' \in {"run", "exit", "died", "crashed"}
    BY <1>1, <1>2
  <1>5. Len(owner) \in Nat
    BY <1>3, ServerTypes
  <1>6. Copied' = Len(owner) /\ (~Welcome => Copied' = Copied)
    BY <1>1 DEF Copied
  <1>7. Exchange'
    BY <1>1, <1>2 DEF Exchange
  <1>8. EndsForAReason'
    BY <1>1, <1>2 DEF WInv, EndsForAReason
  <1> QED BY <1>1, <1>3, <1>4, <1>5, <1>6, <1>7, <1>8

\* A command that leaves cookie and token alone.
LEMMA ReturnPreserves ==
    ASSUME WInv, status = "run", NEW c, returned(c), NEW good, outcome(good),
           ~good => "cut" \in ways, ~Welcome, UNCHANGED <<cookie, token>>
    PROVE  WInv'
  <1>1. /\ pc = "read" /\ response # None /\ cmd = c /\ Answered /\ Asking /\ TypeOK
        /\ response' = None /\ received' = 0
        /\ UNCHANGED <<registered, owner, width, open, books, ways>>
        /\ pc' \in {"prompt", "read"} /\ status' \in {"run", "exit", "died", "crashed"}
        /\ Exchange' /\ EndsForAReason' /\ Copied' = Copied
    BY Returned
  <1>2. TypeOK'
    <2>1. 0 \in 0..BUFLEN
      OBVIOUS
    <2> QED BY <1>1, <2>1 DEF TypeOK
  <1>3. string(cookie)' = string(cookie)
    BY DEF string
  <1>4. Buffer' /\ TokenIsCookies'
    BY <1>1, <1>3 DEF WInv, Buffer, TokenIsCookies
  <1>5. Sessions'
    BY <1>1, <1>3 DEF WInv, Sessions, Alike
  <1> QED BY <1>1, <1>2, <1>4, <1>5 DEF WInv

\* The first character of the buffer becomes NUL, if there is one.
LEMMA Forgotten ==
    ASSUME TypeOK, forgets
    PROVE  /\ cookie' \in Seq(0..MaxLogins) /\ Len(cookie') = Len(cookie) /\ token' = 0
           /\ cookie' = <<>> <=> cookie = <<>>
           /\ cookie # <<>> => cookie'[1] = 0
           /\ \A k \in 1..Len(cookie) : cookie'[k] = cookie[k] \/ cookie'[k] = 0
           /\ \A k \in 2..Len(cookie) : cookie'[k] = cookie[k]
  <1>1. cookie \in Seq(0..MaxLogins) /\ Len(cookie) \in Nat /\ token' = 0
    BY DEF TypeOK, forgets
  <1>2. CASE cookie = <<>>
    BY <1>1, <1>2 DEF forgets
  <1>3. CASE cookie # <<>>
    <2>1. cookie' = [cookie EXCEPT ![1] = 0]
      BY <1>3 DEF forgets
    <2>2. 0 \in 0..MaxLogins /\ Len(cookie) > 0
      BY <1>1, <1>3
    <2>3. cookie' \in Seq(0..MaxLogins) /\ Len(cookie') = Len(cookie)
      BY <1>1, <2>1, <2>2
    <2>4. \A k \in 1..Len(cookie) : cookie'[k] = IF k = 1 THEN 0 ELSE cookie[k]
      BY <1>1, <2>1
    <2>5. \A k \in 2..Len(cookie) : k \in 1..Len(cookie) /\ k # 1
      BY <1>1
    <2>6. 1 \in 1..Len(cookie) /\ cookie' # <<>>
      BY <1>1, <2>2, <2>3
    <2> QED BY <1>1, <1>3, <2>3, <2>4, <2>5, <2>6
  <1> QED BY <1>2, <1>3

LEMMA LoggedOutPreserves ==
    ASSUME WInv, status = "run", logged_out
    PROVE  WInv'
  <1> DEFINE good == has("OK") \/ reports
  <1>1. returned("logout") /\ outcome(good)
        /\ IF good THEN forgets ELSE UNCHANGED <<cookie, token>>
    BY DEF logged_out
  <1>2. response # None /\ cmd = "logout"
    BY <1>1 DEF returned, cmd
  <1>3. ~good => "cut" \in ways
    BY <1>2, Finds
  <1>4. ~Welcome
    BY <1>2 DEF Welcome
  <1> HIDE DEF good
  <1>5. /\ pc = "read" /\ TypeOK /\ response' = None /\ received' = 0
        /\ UNCHANGED <<registered, owner, width, open, books, ways>>
        /\ pc' \in {"prompt", "read"} /\ status' \in {"run", "exit", "died", "crashed"}
        /\ Len(owner) \in Nat /\ Exchange' /\ EndsForAReason' /\ Copied' = Copied
    BY <1>1, <1>3, <1>4, Returned
  <1>6. CASE ~good
    BY <1>1, <1>3, <1>4, <1>6, ReturnPreserves
  <1>7. CASE good
    <2>1. forgets
      BY <1>1, <1>7
    <2>2. /\ cookie' \in Seq(0..MaxLogins) /\ Len(cookie') = Len(cookie) /\ token' = 0
          /\ cookie' = <<>> <=> cookie = <<>>
          /\ cookie # <<>> => cookie'[1] = 0
          /\ \A k \in 1..Len(cookie) : cookie'[k] = cookie[k] \/ cookie'[k] = 0
          /\ \A k \in 2..Len(cookie) : cookie'[k] = cookie[k]
      BY <1>5, <2>1, Forgotten
    <2>3. TypeOK'
      <3>1. 0 \in 0..BUFLEN /\ 0 \in 0..Len(owner)
        BY <1>5
      <3> QED BY <1>5, <2>2, <3>1 DEF TypeOK
    <2>4. Buffer'
      <3>1. \A k \in 1..Len(cookie') : cookie'[k] \in 0..Len(owner)
        BY <1>5, <2>2 DEF WInv, Buffer
      <3>2. ASSUME "cut" \notin ways
            PROVE  /\ Copied = 0 => cookie' = <<>>
                   /\ cookie' # <<>> => cookie'[1] \in {0, Copied}
                   /\ \A s \in 1..Copied : width[s] <= Len(cookie')
                   /\ Copied > 0 => \E s \in 1..Copied : width[s] = Len(cookie')
                   /\ \A k \in 2..Len(cookie') : k <= width[Copied] => cookie'[k] = Copied
        BY <2>2, <3>2 DEF WInv, Buffer
      <3> QED BY <1>5, <3>1, <3>2 DEF Buffer
    <2>5. TokenIsCookies'
      BY <2>2 DEF TokenIsCookies
    <2>6. Sessions'
      <3>1. ways = {} /\ Alike => open = {}
        BY <1>2, <1>4 DEF WInv, Sessions
      <3> QED BY <1>5, <3>1 DEF Sessions, Alike
    <2> QED BY <1>5, <2>3, <2>4, <2>5, <2>6 DEF WInv
  <1> QED BY <1>6, <1>7

LEMMA EnteredPreserves ==
    ASSUME WInv, status = "run", entered
    PROVE  WInv'
  <1>1. returned("enter_library") /\ UNCHANGED cookie
        /\ \/ has("OK") /\ has("{") /\ token' = response.s /\ outcome(TRUE)
           \/ ~(has("OK") /\ has("{")) /\ UNCHANGED token /\ outcome(~has("OK") /\ reports)
    BY DEF entered
  <1>2. response # None /\ cmd = "enter_library"
    BY <1>1 DEF returned, cmd
  <1>3. ~Welcome /\ (Admits <=> has("OK") /\ has("{"))
    BY <1>2, Finds DEF Welcome
  <1>4. CASE ~(has("OK") /\ has("{")) /\ UNCHANGED token /\ outcome(~has("OK") /\ reports)
    <2>1. ~(~has("OK") /\ reports) => "cut" \in ways
      BY <1>2, <1>3, <1>4, Finds
    <2> QED BY <1>1, <1>3, <1>4, <2>1, ReturnPreserves
  <1>5. CASE has("OK") /\ has("{") /\ token' = response.s /\ outcome(TRUE)
    <2>1. /\ Answered /\ Asking /\ TypeOK /\ response' = None /\ received' = 0
          /\ UNCHANGED <<registered, owner, width, open, books, ways>>
          /\ pc' \in {"prompt", "read"} /\ status' \in {"run", "exit", "died", "crashed"}
          /\ Exchange' /\ EndsForAReason' /\ Copied' = Copied
      BY <1>1, <1>3, <1>5, Returned
    <2>2. response.s # 0 /\ cookie_of(response.s) = string(cookie)
          /\ response.s \in 1..Len(owner)
      <3>1. response.s # 0 /\ cookie_of(response.s) = string(cookie)
            /\ response.s \in 0..Len(owner)
        BY <1>3, <1>5, <2>1 DEF Answered
      <3> QED BY <2>1, <3>1, ServerTypes
    <2>3. TypeOK'
      <3>1. 0 \in 0..BUFLEN /\ response.s \in 0..Len(owner)
        BY <2>1, <2>2, ServerTypes
      <3> QED BY <1>1, <1>5, <2>1, <3>1 DEF TypeOK
    <2>4. string(cookie)' = string(cookie)
      BY <1>1 DEF string
    <2>5. Buffer'
      BY <1>1, <2>1, <2>4 DEF WInv, Buffer
    <2>6. string(cookie) # <<>> /\ cookie[1] = response.s
      <3>1. cookie_of(response.s) # <<>> /\ cookie_of(response.s)[1] = response.s
        BY <2>1, <2>2, CookieOf
      <3>2. string(cookie) # <<>> => string(cookie) = cookie
        BY <2>1, StringFacts
      <3> QED BY <2>2, <3>1, <3>2
    <2>7. TokenIsCookies'
      BY <1>1, <1>5, <2>4, <2>6 DEF TokenIsCookies
    <2>8. Sessions'
      BY <1>1, <1>2, <1>3, <2>1, <2>4 DEF WInv, Sessions, Alike
    <2> QED BY <2>1, <2>3, <2>5, <2>7, <2>8 DEF WInv
  <1> QED BY <1>1, <1>4, <1>5

\* The buffer after strncpy().
LEMMA CopiedIs ==
    ASSUME TypeOK, NEW m \in 0..MaxLogins, NEW n \in Nat, cookie' = copied(m, n)
    PROVE  /\ cookie' \in Seq(0..MaxLogins) /\ Len(cookie') \in Nat
           /\ Len(cookie') = n \/ (Len(cookie') = Len(cookie) /\ n <= Len(cookie))
           /\ Len(cookie') >= n /\ Len(cookie') >= Len(cookie)
           /\ \A k \in 1..Len(cookie') : k <= n => cookie'[k] = m
           /\ \A k \in 1..Len(cookie') : k > n => k \in 1..Len(cookie) /\ cookie'[k] = cookie[k]
  <1> DEFINE M == IF n > Len(cookie) THEN n ELSE Len(cookie)
             f == [k \in 1..M |-> IF k <= n THEN m ELSE cookie[k]]
  <1>1. cookie \in Seq(0..MaxLogins) /\ Len(cookie) \in Nat
    BY DEF TypeOK
  <1>2. M \in Nat /\ M >= n /\ M >= Len(cookie) /\ (M = n \/ (M = Len(cookie) /\ n <= Len(cookie)))
    BY <1>1
  <1>3. cookie' = f
    BY DEF copied
  <1> HIDE DEF M
  <1>4. \A k \in 1..M : /\ k <= n => f[k] = m
                        /\ k > n => k \in 1..Len(cookie) /\ f[k] = cookie[k]
    BY <1>1, <1>2
  <1>5. \A k \in 1..M : f[k] \in 0..MaxLogins
    BY <1>1, <1>2
  <1>6. f \in Seq(0..MaxLogins) /\ Len(f) = M
    BY <1>2, <1>5
  <1> HIDE DEF f
  <1> QED BY <1>2, <1>3, <1>4, <1>6

LEMMA LoggedInPreserves ==
    ASSUME WInv, status = "run", logged_in
    PROVE  WInv'
  <1>1. returned("login") /\ UNCHANGED token
        /\ \/ /\ has("OK") /\ has("Set-Cookie")
              /\ cookie' = copied(response.s, response.n) /\ outcome(TRUE)
           \/ /\ ~(has("OK") /\ has("Set-Cookie"))
              /\ UNCHANGED cookie /\ outcome(~has("OK") /\ reports)
    BY DEF logged_in
  <1>2. response # None /\ cmd = "login"
    BY <1>1 DEF returned, cmd
  <1>3. ~Admits /\ (Welcome <=> has("OK") /\ has("Set-Cookie"))
    BY <1>2, Finds DEF Admits
  <1>4. CASE ~(has("OK") /\ has("Set-Cookie")) /\ UNCHANGED cookie
             /\ outcome(~has("OK") /\ reports)
    <2>1. ~(~has("OK") /\ reports) => "cut" \in ways
      BY <1>2, <1>3, <1>4, Finds
    <2> QED BY <1>1, <1>3, <1>4, <2>1, ReturnPreserves
  <1>5. CASE has("OK") /\ has("Set-Cookie") /\ cookie' = copied(response.s, response.n)
             /\ outcome(TRUE)
    <2> DEFINE m == Len(owner)
               n == response.n
    <2>1. /\ Answered /\ Asking /\ TypeOK /\ response' = None /\ received' = 0
          /\ UNCHANGED <<registered, owner, width, open, books, ways>>
          /\ pc' \in {"prompt", "read"} /\ status' \in {"run", "exit", "died", "crashed"}
          /\ m \in Nat /\ Exchange' /\ EndsForAReason' /\ Copied' = m
      BY <1>1, <1>5, Returned
    <2>2. /\ response.s = m /\ m > 0 /\ n \in Nat
          /\ "cut" \notin ways => n = width[m]
      BY <1>3, <1>5, <2>1 DEF Answered
    <2>3. Copied = m - 1
      BY <1>2, <1>3, <1>5 DEF Copied
    <2>4. m \in 0..MaxLogins /\ m \in 1..m
      BY <2>1, <2>2, ServerTypes
    <2>5. cookie' = copied(m, n)
      BY <1>5, <2>2, Zenon
    <2> HIDE DEF m, n
    <2>6. /\ cookie' \in Seq(0..MaxLogins) /\ Len(cookie') \in Nat
          /\ Len(cookie') = n \/ (Len(cookie') = Len(cookie) /\ n <= Len(cookie))
          /\ Len(cookie') >= n /\ Len(cookie') >= Len(cookie)
          /\ \A k \in 1..Len(cookie') : k <= n => cookie'[k] = m
          /\ \A k \in 1..Len(cookie') :
                k > n => k \in 1..Len(cookie) /\ cookie'[k] = cookie[k]
      BY <2>1, <2>2, <2>4, <2>5, CopiedIs
    <2>7. TypeOK'
      <3>1. 0 \in 0..BUFLEN
        OBVIOUS
      <3> QED BY <1>1, <2>1, <2>6, <3>1 DEF TypeOK
    <2>8. \A k \in 1..Len(cookie') : cookie'[k] \in 0..m
      <3>1. \A k \in 1..Len(cookie) : cookie[k] \in 0..m
        BY DEF WInv, Buffer, m
      <3>2. SUFFICES ASSUME NEW k \in 1..Len(cookie') PROVE cookie'[k] \in 0..m
        OBVIOUS
      <3>3. CASE k <= n
        BY <2>1, <2>6, <3>3
      <3>4. CASE k > n
        BY <2>6, <3>1, <3>4
      <3> QED BY <2>2, <2>6, <3>3, <3>4
    <2>9. ASSUME "cut" \notin ways
          PROVE  /\ cookie' # <<>> /\ cookie'[1] = m
                 /\ \A s \in 1..m : width[s] <= Len(cookie')
                 /\ \E s \in 1..m : width[s] = Len(cookie')
                 /\ \A k \in 2..Len(cookie') : k <= width[m] => cookie'[k] = m
      <3>1. n = width[m] /\ n > 0 /\ Len(cookie) \in Nat
            /\ \A s \in 1..m : width[s] \in Nat
        BY <2>1, <2>2, <2>4, <2>9, ServerTypes DEF m
      <3>2. /\ m - 1 = 0 => cookie = <<>>
            /\ \A s \in 1..(m - 1) : width[s] <= Len(cookie)
            /\ m - 1 > 0 => \E s \in 1..(m - 1) : width[s] = Len(cookie)
        BY <2>3, <2>9 DEF WInv, Buffer
      <3>3. 1 \in 1..Len(cookie') /\ cookie' # <<>>
        <4>1. Len(cookie') > 0
          BY <2>2, <2>6, <3>1
        <4> QED BY <2>6, <4>1
      <3>4. cookie'[1] = m
        BY <2>2, <2>6, <3>1, <3>3
      <3>5. \A s \in 1..m : width[s] <= Len(cookie')
        <4>1. SUFFICES ASSUME NEW s \in 1..m PROVE width[s] <= Len(cookie')
          OBVIOUS
        <4>2. CASE s = m
          BY <2>6, <3>1, <4>2
        <4>3. CASE s # m
          <5>1. s \in 1..(m - 1)
            BY <2>1, <4>3
          <5>2. width[s] <= Len(cookie) /\ width[s] \in Nat
            BY <3>1, <3>2, <5>1
          <5> QED BY <2>6, <3>1, <5>2
        <4> QED BY <4>2, <4>3
      <3>6. \E s \in 1..m : width[s] = Len(cookie')
        <4>1. CASE Len(cookie') = n
          BY <2>4, <3>1, <4>1
        <4>2. CASE Len(cookie') = Len(cookie) /\ n <= Len(cookie)
          <5>1. Len(cookie) > 0
            BY <2>2, <3>1, <4>2
          <5>2. m - 1 # 0
            <6>1. Len(<<>>) = 0
              OBVIOUS
            <6> QED BY <3>2, <5>1, <6>1
          <5>3. m - 1 > 0 /\ m - 1 \in Nat
            BY <2>1, <2>2, <5>2
          <5>4. PICK s \in 1..(m - 1) : width[s] = Len(cookie)
            BY <3>2, <5>3
          <5>5. s \in 1..m
            BY <2>1, <5>4
          <5> QED BY <4>2, <5>4, <5>5
        <4> QED BY <2>6, <4>1, <4>2
      <3>7. \A k \in 2..Len(cookie') : k <= width[m] => cookie'[k] = m
        <4>1. \A k \in 2..Len(cookie') : k \in 1..Len(cookie')
          BY <2>6
        <4> QED BY <2>6, <3>1, <4>1
      <3> QED BY <3>3, <3>4, <3>5, <3>6, <3>7
    <2>10. Buffer'
      <3>1. m # 0
        BY <2>2
      <3> QED BY <2>1, <2>8, <2>9, <3>1 DEF Buffer, m
    <2>11. TokenIsCookies'
      <3>1. "relogin" \notin ways => string(cookie) = <<>>
        BY <1>2, <2>1 DEF Asking
      <3>2. "relogin" \notin ways => token = 0
        BY <3>1 DEF WInv, TokenIsCookies
      <3> QED BY <1>1, <2>1, <3>2 DEF TokenIsCookies
    <2>12. Sessions'
      <3>1. ASSUME ways = {}, Alike
            PROVE  open \subseteq {m} /\ string(cookie)' # <<>> /\ cookie'[1] = m
        <4>1. open \subseteq {m}
          BY <1>2, <1>3, <1>5, <3>1 DEF WInv, Sessions, m
        <4>2. cookie' # <<>> /\ cookie'[1] = m /\ m # 0
          BY <2>2, <2>9, <3>1
        <4> QED BY <4>1, <4>2 DEF string
      <3> QED BY <2>1, <3>1 DEF Sessions, Alike
    <2> QED BY <2>1, <2>7, <2>10, <2>11, <2>12 DEF WInv
  <1> QED BY <1>1, <1>4, <1>5

LEMMA ResponsesPreserve ==
    ASSUME WInv, status = "run", Responses
    PROVE  WInv'
  <1>1. CASE registered_client
    <2>1. /\ returned("register") /\ outcome(has("Created") \/ reports)
          /\ UNCHANGED <<cookie, token>> /\ response # None /\ cmd = "register"
      BY <1>1 DEF registered_client, returned, cmd
    <2>2. ~Welcome /\ (~(has("Created") \/ reports) => "cut" \in ways)
      BY <2>1, Finds DEF Welcome
    <2> QED BY <2>1, <2>2, ReturnPreserves
  <1>2. ASSUME NEW c \in {"get_books", "get_book"}, listed(c) PROVE WInv'
    <2>1. /\ returned(c) /\ outcome(IF has("OK") THEN has("[") ELSE reports)
          /\ UNCHANGED <<cookie, token>> /\ response # None /\ cmd = c
      BY <1>2 DEF listed, returned, cmd
    <2>2. ~Welcome /\ (~(IF has("OK") THEN has("[") ELSE reports) => "cut" \in ways)
      BY <2>1, Finds DEF Welcome
    <2> QED BY <2>1, <2>2, ReturnPreserves
  <1>3. ASSUME NEW c \in {"add_book", "delete_book"}, changed(c) PROVE WInv'
    <2>1. /\ returned(c) /\ outcome(has("OK") \/ reports)
          /\ UNCHANGED <<cookie, token>> /\ response # None /\ cmd = c
      BY <1>3 DEF changed, returned, cmd
    <2>2. ~Welcome /\ (~(has("OK") \/ reports) => "cut" \in ways)
      BY <2>1, Finds DEF Welcome
    <2> QED BY <2>1, <2>2, ReturnPreserves
  <1> QED BY <1>1, <1>2, <1>3, ReceivePreserves, LoggedInPreserves, EnteredPreserves,
             LoggedOutPreserves
          DEF Responses, books_listed, book_shown, book_added, book_deleted

-----------------------------------------------------------------------------
(* The theorems.                                                             *)

LEMMA WInvInit == Init => WInv
  <1> SUFFICES ASSUME Init PROVE WInv
    OBVIOUS
  <1>1. /\ cookie = <<>> /\ token = 0 /\ pc = "prompt" /\ received = 0 /\ status = "run"
        /\ response = None /\ registered = {} /\ owner = <<>> /\ width = <<>> /\ open = {}
        /\ books = [u \in User |-> 0] /\ ways \in Ways
    BY DEF Init
  <1>2. Len(owner) = 0 /\ Len(cookie) = 0 /\ Len(width) = 0
    BY <1>1
  <1>3. TypeOK
    <2>1. 0 \in 0..MaxBooks /\ 0 \in 0..BUFLEN /\ 0 \in 0..0 /\ 0 <= MaxLogins
      OBVIOUS
    <2>2. <<>> \in Seq(0..MaxLogins) /\ <<>> \in Seq(User) /\ <<>> \in Seq(Widths)
      OBVIOUS
    <2> QED BY <1>1, <1>2, <2>1, <2>2 DEF TypeOK
  <1>4. Exchange
    BY <1>1 DEF Exchange
  <1>5. Copied = 0
    BY <1>1, <1>2 DEF Copied
  <1>6. Buffer
    <2>1. 1..0 = {} /\ 2..0 = {} /\ ~(0 > 0)
      OBVIOUS
    <2> QED BY <1>1, <1>2, <1>5, <2>1, Zenon DEF Buffer
  <1>7. TokenIsCookies /\ Sessions /\ EndsForAReason
    BY <1>1 DEF TokenIsCookies, Sessions, EndsForAReason
  <1> QED BY <1>3, <1>4, <1>6, <1>7 DEF WInv

LEMMA WInvStep == WInv /\ [Next]_vars => WInv'
  <1> SUFFICES ASSUME WInv, [Next]_vars PROVE WInv'
    OBVIOUS
  <1>1. CASE Next
    BY <1>1, CommandsPreserve, ServerPreserves, ResponsesPreserve DEF Next
  <1>2. CASE UNCHANGED vars
    <2>1. UNCHANGED <<cookie, token, pc, request, received, status, response, registered,
                      owner, width, open, books, ways>>
      BY <1>2 DEF vars, client, server
    <2>2. /\ cmd' = cmd /\ with' = with /\ string(cookie)' = string(cookie)
          /\ Words' = Words /\ Alike' = Alike /\ \A x : cookie_of(x)' = cookie_of(x)
      BY <2>1 DEF cmd, with, string, Words, Full, Alike, cookie_of
    <2>3. Welcome' = Welcome /\ Admits' = Admits /\ Copied' = Copied
      BY <2>1 DEF Welcome, Admits, cmd, Copied
    <2>4. Asking' = Asking /\ Answered' = Answered
      BY <2>1, <2>2, <2>3 DEF Asking, Answered
    <2>5. TypeOK' /\ Exchange'
      BY <2>1, <2>2, <2>4 DEF WInv, TypeOK, Exchange
    <2>6. Buffer' /\ TokenIsCookies' /\ Sessions' /\ EndsForAReason'
      BY <2>1, <2>2, <2>3 DEF WInv, Buffer, TokenIsCookies, Sessions, EndsForAReason
    <2> QED BY <2>5, <2>6 DEF WInv
  <1> QED BY <1>1, <1>2

\* The client's state and the server's stay of their types, and what is asked, answered
\* and remembered stays as WInv says.
THEOREM WInvHolds == Spec => []WInv
  <1>1. Init => WInv
    BY WInvInit
  <1>2. WInv /\ [Next]_vars => WInv'
    BY WInvStep
  <1> QED BY <1>1, <1>2, PTL DEF Spec

\* The program ends by itself only when the server breaks off or is not there, or somebody
\* has more books than the buffer of receive_from_server() has room for.
THEOREM EndsHolds == Spec => []EndsForAReason
  <1>1. WInv => EndsForAReason
    BY DEF WInv
  <1> QED BY <1>1, WInvHolds, PTL

LEMMA LastCookie == WInv => CookieIsLast
  <1> SUFFICES ASSUME WInv, "cut" \notin ways, string(cookie) # <<>>
               PROVE  cookie = cookie_of(cookie[1])
                        <=> \A s \in 1..cookie[1] : width[s] <= width[cookie[1]]
    BY DEF CookieIsLast
  <1>1. TypeOK /\ Buffer /\ Len(owner) \in Nat
    BY ServerTypes DEF WInv
  <1>2. Copied \in Nat /\ Copied <= Len(owner)
    <2>1. CASE response # None /\ Welcome
      <3>1. Len(owner) > 0
        BY <2>1 DEF WInv, Exchange, Answered
      <3> QED BY <1>1, <2>1, <3>1 DEF Copied
    <2>2. CASE ~(response # None /\ Welcome)
      BY <1>1, <2>2 DEF Copied
    <2> QED BY <2>1, <2>2
  <1>3. cookie[1] = Copied /\ Copied \in 1..Len(owner)
        /\ (cookie = cookie_of(Copied) <=> Len(cookie) = width[Copied])
    BY <1>1, <1>2, Whose
  <1> DEFINE c == Copied
  <1>4. c \in 1..c /\ Len(cookie) \in Nat /\ \A s \in 1..c : width[s] \in Nat
    BY <1>1, <1>2, <1>3, ServerTypes
  <1>5. /\ \A s \in 1..c : width[s] <= Len(cookie)
        /\ \E s \in 1..c : width[s] = Len(cookie)
    BY <1>1, <1>3 DEF Buffer
  <1> HIDE DEF c
  <1>6. Len(cookie) = width[c] <=> \A s \in 1..c : width[s] <= width[c]
    BY <1>4, <1>5
  <1> QED BY <1>3, <1>6 DEF c

LEMMA LogoutLeavesNone == WInv => NoSessionLeft
  <1> SUFFICES ASSUME WInv, pc = "prompt", ways = {}, Alike
               PROVE  open \subseteq {cookie[k] : k \in DOMAIN string(cookie)}
    BY DEF NoSessionLeft, Alike
  <1>1. response = None
    BY DEF WInv, Exchange
  <1>2. open \subseteq (IF string(cookie) = <<>> THEN {} ELSE {cookie[1]})
    BY <1>1 DEF WInv, Sessions
  <1>3. string(cookie) # <<>> => 1 \in DOMAIN string(cookie)
    <2>1. ASSUME string(cookie) # <<>> PROVE 1 \in DOMAIN cookie /\ string(cookie) = cookie
      BY SMTT(20), <2>1, StringFacts, ServerTypes DEF WInv, TypeOK
    <2> QED BY <2>1
  <1> QED BY <1>2, <1>3

\* strncpy() without a NUL leaves the longer cookie's end behind, and only that; with cookies
\* of one length logging out leaves no session.
THEOREM SessionIsSafe == Spec => []SessionSafe
  <1>1. WInv => SessionSafe
    BY LastCookie, LogoutLeavesNone DEF WInv, SessionSafe
  <1> QED BY <1>1, WInvHolds, PTL

LEMMA OwnLibraryStep ==
    ASSUME WInv, [Next]_vars, NEW u \in User, books'[u] # books[u], "relogin" \notin ways
    PROVE  string(cookie) # <<>> /\ owner[cookie[1]] = u
  <1>1. books' # books
    OBVIOUS
  <1>2. ~(UNCHANGED vars) /\ Next
    BY <1>1 DEF vars, server
  <1>3. ~Commands
    BY <1>1 DEF Commands, register_client, login_client, enter_library, get_books, get_book,
                add_book, delete_book, logout_client, logout_again, exit, asks, server
  <1>4. ~Responses
    BY <1>1 DEF Responses, receive_from_server, registered_client, logged_in, entered,
                books_listed, book_shown, book_added, book_deleted, logged_out, listed, changed,
                returned, server
  <1>5. Add \/ Delete
    BY <1>1, <1>2, <1>3, <1>4 DEF Next, Server, Register, Login, Admit, Logout, List, Show,
                                  TooMany, refuses, server
  <1>6. pc = "read" /\ response = None /\ cmd \in {"add_book", "delete_book"}
    BY <1>5 DEF Add, Delete, asked, cmd
  <1>7. with = token /\ token # 0 /\ status = "run"
    BY <1>2, <1>6 DEF WInv, Exchange, Asking, AboutBooks, Next
  <1>8. user = u
    <2>1. \E n : books' = [books EXCEPT ![user] = n]
      BY <1>1, <1>5 DEF Add, Delete, refuses, server
    <2>2. PICK n : books' = [books EXCEPT ![user] = n]
      BY <2>1
    <2> QED BY <2>2 DEF WInv, TypeOK
  <1>9. string(cookie) # <<>> /\ token = cookie[1]
    BY <1>7 DEF WInv, TokenIsCookies
  <1> QED BY <1>7, <1>8, <1>9 DEF user

\* Who logs out before logging in again changes the library of no other user.
THEOREM OwnLibraryHolds == Spec => OwnLibrary
  <1>1. WInv /\ [Next]_vars =>
          [\A u \in User : books'[u] # books[u] /\ "relogin" \notin ways =>
             string(cookie) # <<>> /\ owner[cookie[1]] = u]_vars
    BY OwnLibraryStep
  <1> QED BY <1>1, WInvHolds, PTL DEF Spec, OwnLibrary

=============================================================================
