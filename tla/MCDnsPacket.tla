---------------------------- MODULE MCDnsPacket ----------------------------
(***************************************************************************)
(* DnsPacket for TLC: every header field around the sizes where a check    *)
(* of dns_packet changes its answer.                                       *)
(***************************************************************************)
EXTENDS DnsPacket

MCLen == {0, 1, 19, 20, 23, 24, 27, 28, 39, 40, 47, 48, 59, 60, 68, 80,
          1259, 1260, 1261, 1279, 1280, 1299, 1300, 1500}

MCPacket ==
  [len : MCLen, version : {4, 6, 7}, ihl : {0, 4, 5, 15}, fragment : BOOLEAN,
   protocol : {"tcp", "udp", "other"}, port53 : BOOLEAN,
   ulen : {0, 7, 8, 19, 20, 21, 1239, 1240, 1241}]

=============================================================================
