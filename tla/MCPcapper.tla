----------------------------- MODULE MCPcapper -----------------------------
(* Instances of Pcapper for TLC.                                           *)
EXTENDS Pcapper

Pkt(ip, first, version, proto) ==
    [ip |-> ip, first |-> first, version |-> version, proto |-> proto]

\* One packet that is counted, and one for each of the reasons not to count.
MCPackets == {Pkt(TRUE, TRUE, 4, "udp"), Pkt(FALSE, TRUE, 4, "udp"),
              Pkt(TRUE, FALSE, 4, "udp"), Pkt(TRUE, TRUE, 6, "tcp"),
              Pkt(TRUE, TRUE, 4, "icmp")}
=============================================================================
