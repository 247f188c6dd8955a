-------------------------- MODULE MCPacketCapture --------------------------
(* Traffic for PacketCapture.                                              *)
EXTENDS PacketCapture
CONSTANTS t1, t2

\* A packet from one end to the other
From(a, ap, b, bp, proto, flags, vlan) ==
  [src |-> a, sport |-> ap, dst |-> b, dport |-> bp, proto |-> proto,
   flags |-> flags, vlan |-> vlan, beyond |-> 0, reject |-> "",
   filtered |-> FALSE]

Query == From(1, 9, 2, 5, "udp", "", 0)
Answer == From(2, 5, 1, 9, "udp", "", 0)
Syn == From(2, 9, 1, 5, "tcp", "syn", 0)
SynAck == From(1, 5, 2, 9, "tcp", "synack", 0)
\* Between equal addresses; 256 comes off the wire as 1, 9 as 2304, 5 as 1280
Loop == From(3, 9, 3, 5, "tcp", "syn", 0)
LoopBack == From(3, 5, 3, 9, "tcp", "synack", 0)
Loop256 == From(3, 256, 3, 5, "tcp", "syn", 0)
LoopBack256 == From(3, 5, 3, 256, "tcp", "synack", 0)
Echo == From(1, 0, 2, 0, "icmp", "", 0)
Tag(p) == [p EXCEPT !.vlan = 7]
Filtered == [Query EXCEPT !.filtered = TRUE]
Short == [Query EXCEPT !.beyond = 1]
BadLink == [Query EXCEPT !.reject = "link"]
Unknown == [Query EXCEPT !.reject = "silent"]
BadNet == [Query EXCEPT !.reject = "net", !.beyond = 1, !.vlan = 7]

Sequences(S, n) == [1..n -> S]

\* Dissection is explored with the simplest back end, the others with little
\* traffic.
SomeTraces ==
  [c \in CaptureTypes |->
     CASE c = "offline" -> Sequences({Query, Answer, Syn, SynAck, Loop,
                             LoopBack, Loop256, LoopBack256, Echo,
                             Tag(Query), Tag(Answer), Short, BadLink,
                             Unknown, BadNet, Filtered}, 2)
       [] c = "pcap" -> Sequences({Query, BadLink}, 3)
       [] c = "nfq" -> {<<Query, Syn, SynAck>>}
       [] c = "tpv3" -> {<<Query, Answer, Query>>,
                         <<Filtered, Query, Filtered>>}]
=============================================================================
