------------------------------ MODULE DnsPacket ------------------------------
(***************************************************************************)
(* One packet through the DNS filter of netmon (dns_packet), the ring      *)
(* having room for its event.                                              *)
(***************************************************************************)
EXTENDS PacketFilter

VARIABLES
  packet,       \* the packet
  bumped,       \* the counters it has bumped
  fate          \* "arrived", "reserved", "submitted", "discarded", "passed"

filterVars == <<packet, bumped, fate>>

FilterInit == packet \in Packet /\ bumped = {} /\ fate = "arrived"

(* Up to the reservation of an event.                                      *)
Inspect ==
  /\ fate = "arrived"
  /\ IF Check(packet) = "capture"
     THEN /\ fate' = "reserved"
          /\ bumped' = {x \in {"DNS_TRUNCATED"} : MessageLen(packet) > CaptureMax}
     ELSE /\ fate' = "passed"
          /\ bumped' = {Check(packet)} \ {"ignored"}
  /\ UNCHANGED packet

(* The copy of the payload decides what becomes of it.                     *)
Fill ==
  /\ fate = "reserved"
  /\ IF PayloadLoads(packet)
     THEN fate' = "submitted" /\ UNCHANGED bumped
     ELSE fate' = "discarded" /\ bumped' = bumped \cup {"BAD_UDP"}
  /\ UNCHANGED packet

FilterNext == Inspect \/ Fill

FilterSpec == FilterInit /\ [][FilterNext]_filterVars

-----------------------------------------------------------------------------

FilterTypeOK ==
  /\ packet \in Packet
  /\ bumped \subseteq Counter
  /\ fate \in {"arrived", "reserved", "submitted", "discarded", "passed"}

(* A whole, unfragmented UDP datagram to or from port 53, of a size an     *)
(* event can carry, all of it inside the packet.                           *)
WholeDns(p) ==
  LET header == IF p.version = 4 THEN 4 * p.ihl ELSE 40
      size   == p.ulen - 8
  IN  /\ p.version \in {4, 6}
      /\ p.version = 4 => p.ihl >= 5 /\ ~ p.fragment
      /\ p.protocol = "udp" /\ p.port53
      /\ p.ulen >= 8 + DnsMin /\ size <= CaptureMax
      /\ header + 8 + size <= p.len

(* The reader parses exactly the whole DNS messages: a submitted event it  *)
(* accepts carries one, and none of them is lost on the way through the    *)
(* two length checks of kernel and reader (netmon.bpf.c:183, main.go:239). *)
WholeMessagesParsed ==
  fate \in {"submitted", "discarded", "passed"} =>
    ((fate = "submitted" /\ ReaderAccepts(packet)) <=> WholeDns(packet))

(* Bytes that look like DNS on a known port are parsed or counted, never   *)
(* silently dropped; and a message that is parsed is not counted as lost.  *)
NoSilentLoss ==
  LET dns == /\ packet.version \in {4, 6}
             /\ packet.protocol \in {"udp", "tcp"}
             /\ packet.port53
             /\ packet.len >= 60 + 8
  IN  fate \in {"submitted", "discarded", "passed"} =>
        /\ dns /\ ~ WholeDns(packet) => bumped # {}
        /\ WholeDns(packet) => bumped = {}

(* The copy into the event's payload never exceeds the array, and is never *)
(* shorter than a DNS header: the check the verifier needs at line 186     *)
(* rejects nothing.                                                        *)
CaptureFits ==
  fate \in {"reserved", "submitted", "discarded"} =>
    CapturedLen(packet) \in DnsMin..CaptureMax

=============================================================================
