------------------------------ MODULE Channel ------------------------------
(***************************************************************************)
(* What the link emulators of labs 2 and 3 promise about messages from the *)
(* sender's socket to the receiver's: they arrive in order and once, some  *)
(* may be lost before or after they are accepted, some may be damaged.     *)
(* Link implements this, Transfer is built on it.                          *)
(***************************************************************************)
EXTENDS Sequences

CONSTANTS
    Message,    \* what is sent
    Damage      \* Damage[m]: what the emulator may make of m

VARIABLES
    entry,      \* sent, not yet accepted or dropped
    transit,    \* accepted, not yet delivered
    exit        \* delivered

chan == <<entry, transit, exit>>

Init == entry = <<>> /\ transit = <<>> /\ exit = <<>>

Put(m) == entry' = Append(entry, m) /\ UNCHANGED <<transit, exit>>

Drop == entry # <<>> /\ entry' = Tail(entry) /\ UNCHANGED <<transit, exit>>

\* The next message is accepted, as m.
Accept(m) ==
    /\ entry # <<>> /\ m \in {Head(entry)} \cup Damage[Head(entry)]
    /\ transit' = Append(transit, m)
    /\ entry' = Tail(entry)
    /\ UNCHANGED exit

Deliver ==
    /\ transit # <<>>
    /\ exit' = Append(exit, Head(transit))
    /\ transit' = Tail(transit)
    /\ UNCHANGED entry

Lose == transit # <<>> /\ transit' = Tail(transit) /\ UNCHANGED <<entry, exit>>

Next ==
    \/ \E m \in Message : Put(m) \/ Accept(m) \/ \E d \in Damage[m] : Accept(d)
    \/ Drop \/ Deliver \/ Lose

Spec == Init /\ [][Next]_chan
=============================================================================
