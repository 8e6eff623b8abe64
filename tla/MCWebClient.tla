---------------------------- MODULE MCWebClient ----------------------------
(* A small instance of WebClient: two users, up to three sessions, cookies of *)
(* two lengths, libraries that do not fit into the buffer any more, and any   *)
(* combination of ways.                                                       *)
EXTENDS WebClient

AllWays == SUBSET {"relogin", "limit", "cut", "down"}
=============================================================================
