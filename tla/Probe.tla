------------------------------- MODULE Probe -------------------------------
(***************************************************************************)
(* ping and traceroute of lab 5.  A probe is sent, and the first ICMP      *)
(* packet that comes for this machine is taken for its answer: identifier  *)
(* and sequence number are not looked at, and there is no timeout.  The    *)
(* socket sees all packets.                                                *)
(***************************************************************************)
EXTENDS Integers, Sequences, FiniteSets

CONSTANTS
    MaxProbes,  \* count for ping, 32 for traceroute
    Hops,       \* distances of the target
    Weathers,   \* what the network may do: sets of "lose", "stranger"
    MaxOthers   \* bound: packets that answer no probe

ASSUME ProbeAssumption ==
    /\ MaxProbes \in Nat \ {0} /\ Hops \subseteq Nat \ {0}
    /\ Weathers \subseteq SUBSET {"lose", "stranger"} /\ MaxOthers \in Nat

VARIABLES
    mode,       \* "ping", "traceroute"
    distance,   \* hops to the target
    weather,
    probe,      \* i or ttl1
    probe_at,   \* "send", "recv", "done"
    outgoing,   \* probes on their way
    incoming,   \* packets in the socket
    replies,    \* what has been taken for the answer to each probe
    others      \* packets so far that answer no probe

probing == <<mode, distance, weather, probe, probe_at, outgoing, incoming, replies, others>>

\* to: 0 if no probe is answered; from: the hop that has sent it, 0 for others.
Reply == [to : 0..MaxProbes, from : Nat, icmp : BOOLEAN, echo : BOOLEAN]

ProbeInit ==
    /\ mode \in {"ping", "traceroute"} /\ distance \in Hops /\ weather \in Weathers
    /\ probe = 1 /\ probe_at = "send"
    /\ outgoing = <<>> /\ incoming = <<>> /\ replies = <<>> /\ others = 0

\* traceroute computes the checksum of its first probe before it sets the type.
Intact(n) == mode = "ping" \/ n > 1

SendProbe ==
    /\ probe_at = "send" /\ probe_at' = "recv"
    /\ outgoing' = Append(outgoing,
          [n |-> probe, ttl |-> IF mode = "ping" THEN 64 ELSE probe, ok |-> Intact(probe)])
    /\ UNCHANGED <<mode, distance, weather, probe, incoming, replies, others>>

\* Variant: whatever comes.
relevant_any(p) == p \in Reply
\* relevant_packet: any ICMP packet for this machine.
relevant_packet(p) == p.icmp

Last(p) == IF mode = "ping" THEN probe = MaxProbes ELSE p.echo \/ probe = MaxProbes

RecvReply ==
    LET p == Head(incoming)
    IN  /\ probe_at = "recv" /\ incoming # <<>> /\ incoming' = Tail(incoming)
        /\ \/ ~relevant_packet(p) /\ UNCHANGED <<probe, probe_at, replies>>
           \/ /\ relevant_packet(p)
              /\ replies' = Append(replies, p)
              /\ \/ Last(p) /\ probe_at' = "done" /\ UNCHANGED probe
                 \/ ~Last(p) /\ probe_at' = "send" /\ probe' = probe + 1
        /\ UNCHANGED <<mode, distance, weather, outgoing, others>>

\* A hop where the ttl ends reports that; the target answers, if the checksum is
\* right.
Answer ==
    LET o == Head(outgoing)
    IN  /\ outgoing # <<>> /\ outgoing' = Tail(outgoing)
        /\ \/ /\ o.ttl < distance
              /\ incoming' = Append(incoming,
                    [to |-> o.n, from |-> o.ttl, icmp |-> TRUE, echo |-> FALSE])
           \/ /\ o.ttl >= distance /\ o.ok
              /\ incoming' = Append(incoming,
                    [to |-> o.n, from |-> distance, icmp |-> TRUE, echo |-> TRUE])
           \/ "lose" \in weather /\ UNCHANGED incoming
           \/ o.ttl >= distance /\ ~o.ok /\ UNCHANGED incoming
        /\ UNCHANGED <<mode, distance, weather, probe, probe_at, replies, others>>

\* Traffic of the machine that has nothing to do with this program.
Other ==
    /\ others < MaxOthers /\ others' = others + 1
    /\ \E p \in [to : {0}, from : {0}, icmp : BOOLEAN, echo : BOOLEAN] :
          /\ p.echo => p.icmp
          /\ p.icmp => "stranger" \in weather
          /\ incoming' = Append(incoming, p)
    /\ UNCHANGED <<mode, distance, weather, probe, probe_at, outgoing, replies>>

ProbeStep == SendProbe \/ RecvReply \/ Answer
ProbeNext == probe_at # "done" /\ (ProbeStep \/ Other)
ProbeFairness == WF_probing(probe_at # "done" /\ ProbeStep)

-----------------------------------------------------------------------------
(* Properties                                                               *)

ProbeTypeOK ==
    /\ mode \in {"ping", "traceroute"} /\ distance \in Hops /\ weather \in Weathers
    /\ probe \in 1..MaxProbes /\ probe_at \in {"send", "recv", "done"}
    /\ outgoing \in Seq([n : 1..MaxProbes, ttl : Nat, ok : BOOLEAN])
    /\ incoming \in Seq(Reply) /\ replies \in Seq(Reply) /\ others \in 0..MaxOthers

\* What is shown for a probe is the answer to it, or to an earlier one and then
\* at most as many probes late as ICMP packets of strangers have been taken for
\* answers so far; no answer is shown twice.  So without other ICMP traffic every
\* line is right, and traceroute names the hops in order, even if some do not answer.
AnswersAreOwn ==
    \A k \in DOMAIN replies : replies[k].to # 0 =>
        LET strangers == {j \in 1..k : replies[j].to = 0 /\ replies[j].icmp}
        IN  /\ k - replies[k].to \in 0..Cardinality(strangers)
            /\ mode = "traceroute" /\ strangers = {} =>
                 replies[k].from = IF k < distance THEN k ELSE distance
            /\ \A j \in 1..(k - 1) : replies[j].to # replies[k].to

\* Nothing lost and no strangers: the program ends, unless it is traceroute and
\* the target is the first hop, which drops the first probe.
ProbeEnds ==
    weather = {} /\ (mode = "ping" \/ distance > 1) ~> probe_at = "done"
=============================================================================
