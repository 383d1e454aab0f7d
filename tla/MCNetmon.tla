------------------------------ MODULE MCNetmon ------------------------------
(***************************************************************************)
(* Netmon for TLC.  Packet sizes are scaled down to a DNS header of 1 and  *)
(* a capture limit of 2 bytes.                                             *)
(***************************************************************************)
EXTENDS Netmon, TLC

CONSTANTS a, A, b, k1, k2, c1, c2, c3, u1, u2

MCName == {a, A, b}
MCFold == [n \in Hostname |-> IF n = A THEN a ELSE n]

OneCpu == [c \in Ctx |-> u1]
(* On one CPU the contexts are interchangeable.                            *)
MCSymmetry == Permutations(Ctx)

(* Two contexts share a CPU, the third has its own.                        *)
TwoCpus == [c \in Ctx |-> IF c = c3 THEN u2 ELSE u1]

Addr(n, k, t) == [type |-> "address", owner |-> n, key |-> k, ttl |-> t]
Alias(n, m, t) == [type |-> "cname", owner |-> n, target |-> m, ttl |-> t]
Answer(s) == [wellFormed |-> TRUE, response |-> TRUE, answer |-> s]
Query == [wellFormed |-> TRUE, response |-> FALSE, answer |-> << >>]

(* An IPv4 UDP packet to port 53 with size bytes of DNS, of which present  *)
(* are in the packet.                                                      *)
Dns(size, present) ==
  [len |-> 28 + present, version |-> 4, ihl |-> 5, fragment |-> FALSE,
   protocol |-> "udp", port53 |-> TRUE, ulen |-> 8 + size]

MCPacket == {Dns(0, 0), Dns(2, 1), Dns(2, 2), Dns(3, 3)}

Connect(k) ==
  [kind |-> "connect", hook |-> "connect", protocol |-> "tcp", key |-> k]
Whole(m) == [kind |-> "packet", packet |-> Dns(2, 2), payload |-> m]

(* Answers with lifetimes 1, 2 and the grace period, two spellings, an     *)
(* alias, and one about a second address that needs the slot of the first. *)
NameMessage == {Answer(<<Addr(a, k1, 1)>>),
                Answer(<<Addr(b, k2, 2), Addr(A, k1, 0)>>),
                Answer(<<Addr(a, k1, 2), Alias(b, a, 1)>>)}
NameJob == {Connect(k1)} \cup {Whole(m) : m \in NameMessage}

(* Every way through the programs.                                         *)
RingMessage == {Query}
RingJob == {Connect(k1),
            [Connect(k1) EXCEPT !.protocol = "other"],
            [Connect(k1) EXCEPT !.hook = "sendmsg", !.protocol = "udp"]}
           \cup {[kind |-> "packet", packet |-> p, payload |-> Query] : p \in Packet}

=============================================================================
