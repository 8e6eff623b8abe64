----------------------------- MODULE MCTransfer -----------------------------
(* A small instance of Transfer: files of no, two and three messages, one     *)
(* that cannot be opened; windows from 0 to more than there are messages.     *)
EXTENDS Transfer

MCSizes  == {-1, 0, 3, 5}
AnyEmulator == SUBSET {"loss", "corrupt"}
=============================================================================
