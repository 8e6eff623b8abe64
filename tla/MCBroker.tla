------------------------------ MODULE MCBroker ------------------------------
(* Small instances of Broker: two IDs, a connection or two for each.        *)
EXTENDS Broker, TLC

CONSTANTS ana, bob, a1, a2, b1, b2, t

MCId      == {ana, bob}
\* ana connects twice, bob once
Session3  == {a1, a2, b1}
SessId3   == (a1 :> ana) @@ (a2 :> ana) @@ (b1 :> bob)
\* each connects twice
Session4  == {a1, a2, b1, b2}
SessId4   == (a1 :> ana) @@ (a2 :> ana) @@ (b1 :> bob) @@ (b2 :> bob)
Session2  == {a1, b1}
SessId2   == (a1 :> ana) @@ (b1 :> bob)
OneTopic  == {t}
AllActions == Action
SfActions  == [type : {"subscribe"}, topic : {t}, sf : {TRUE}]
\* Renamings of IDs and connections that keep whose connection is whose.
Renamings == {p \in Permutations(Id \cup Session) :
                /\ \A c \in Id : p[c] \in Id
                /\ \A s \in Session : p[SessId[s]] = SessId[p[s]]}
=============================================================================
