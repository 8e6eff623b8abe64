---------------------------- MODULE MCSubscriber ----------------------------
(* A small instance of Subscriber: one topic, three lines of a user and one of *)
(* the habits at most, two packets of different sizes.                        *)
EXTENDS Subscriber

OneHabit == {{}} \cup {{h} : h \in {"again", "unknown", "newline", "eof", "split", "close"}}
=============================================================================
