----------------------------- MODULE PacketFilter -----------------------------
(***************************************************************************)
(* The DNS packet filter of netmon (dns_packet and detect_dns_tcp in       *)
(* bpf/netmon.bpf.c): which packets of the container become DNS events and *)
(* which counter each of the early returns bumps.  A packet starts at its  *)
(* IP header; a load fails when it reaches past the packet's end.  These   *)
(* are the checks; DnsPacket runs a packet through them, and Netmon a      *)
(* stream of packets on concurrent CPUs.                                   *)
(***************************************************************************)
EXTENDS Naturals

CONSTANTS
  DnsMin,       \* DNS_MIN_LEN, the size of a DNS header (12)
  CaptureMax,   \* DNS_CAPTURE_MAX, the bytes an event can carry (1232)
  Packet        \* the packets under consideration

ASSUME FilterAssumption ==
  /\ DnsMin \in Nat
  /\ CaptureMax \in Nat
  /\ DnsMin <= CaptureMax
  /\ Packet \subseteq
       [len : Nat, version : 0..15, ihl : 0..15, fragment : BOOLEAN,
        protocol : {"tcp", "udp", "other"}, port53 : BOOLEAN, ulen : Nat]

Counter == {"RINGBUF_FAIL", "BAD_L3", "BAD_IPV4", "IPV4_FRAGMENT", "IPV6_EXT",
            "BAD_UDP", "DNS_SHORT", "DNS_TRUNCATED", "DNS_TCP_SEEN"}

(* bpf_skb_load_bytes of size bytes at off succeeds.                       *)
Loads(p, off, size) == off + size <= p.len

(* Where the transport header starts.                                      *)
L4(p) == IF p.version = 4 THEN 4 * p.ihl ELSE 40

(* TCP is only looked at for its ports.                                    *)
DetectDnsTcp(p) ==
  IF Loads(p, L4(p), 4) /\ p.port53 THEN "DNS_TCP_SEEN" ELSE "ignored"

(* Mutant of CheckL3: fragments are dropped without being counted.         *)
CheckL3Quietly(p) ==
  CASE ~ Loads(p, 0, 1) -> "BAD_L3"
    [] Loads(p, 0, 1) /\ p.version = 4 ->
         IF ~ Loads(p, 0, 20) \/ p.ihl < 5 THEN "BAD_IPV4"
         ELSE IF p.fragment THEN "ignored"
         ELSE IF p.protocol = "tcp" THEN DetectDnsTcp(p)
         ELSE IF p.protocol = "udp" THEN "udp" ELSE "ignored"
    [] Loads(p, 0, 1) /\ p.version = 6 ->
         IF ~ Loads(p, 0, 40) THEN "IPV6_EXT"
         ELSE IF p.protocol = "tcp" THEN DetectDnsTcp(p)
         ELSE IF p.protocol = "udp" THEN "udp" ELSE "IPV6_EXT"
    [] OTHER -> "BAD_L3"

(* The checks of the IP header: a counter, "ignored", or "udp".            *)
CheckL3(p) ==
  CASE ~ Loads(p, 0, 1) -> "BAD_L3"
    [] Loads(p, 0, 1) /\ p.version = 4 ->
         IF ~ Loads(p, 0, 20) \/ p.ihl < 5 THEN "BAD_IPV4"
         ELSE IF p.fragment THEN "IPV4_FRAGMENT"
         ELSE IF p.protocol = "tcp" THEN DetectDnsTcp(p)
         ELSE IF p.protocol = "udp" THEN "udp" ELSE "ignored"
    [] Loads(p, 0, 1) /\ p.version = 6 ->
         IF ~ Loads(p, 0, 40) THEN "IPV6_EXT"
         ELSE IF p.protocol = "tcp" THEN DetectDnsTcp(p)
         ELSE IF p.protocol = "udp" THEN "udp" ELSE "IPV6_EXT"
    [] OTHER -> "BAD_L3"

(* Mutant of CheckUdp: a message that is only a header is taken for short. *)
CheckUdpStrictly(p) ==
  IF ~ Loads(p, L4(p), 8) THEN "BAD_UDP"
  ELSE IF ~ p.port53 THEN "ignored"
  ELSE IF p.ulen < 8 THEN "BAD_UDP"
  ELSE IF p.ulen - 8 <= DnsMin THEN "DNS_SHORT"
  ELSE "capture"

(* The checks of the UDP header: a counter, "ignored", or "capture".       *)
CheckUdp(p) ==
  IF ~ Loads(p, L4(p), 8) THEN "BAD_UDP"
  ELSE IF ~ p.port53 THEN "ignored"
  ELSE IF p.ulen < 8 THEN "BAD_UDP"
  ELSE IF p.ulen - 8 < DnsMin THEN "DNS_SHORT"
  ELSE "capture"

Check(p) == IF CheckL3(p) = "udp" THEN CheckUdp(p) ELSE CheckL3(p)

(* message_len and captured_len of the event.                              *)
MessageLen(p) == p.ulen - 8

CapturedLen(p) == IF MessageLen(p) > CaptureMax THEN CaptureMax ELSE MessageLen(p)

(* The payload is copied only after the event is reserved.                 *)
PayloadLoads(p) == Loads(p, L4(p) + 8, CapturedLen(p))

(* handleEvent ignores an event whose payload was cut (main.go).           *)
ReaderAccepts(p) ==
  CapturedLen(p) <= CaptureMax /\ CapturedLen(p) = MessageLen(p)

===============================================================================
