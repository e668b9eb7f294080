--------------------------- MODULE MCSvcreqollect ---------------------------
(* A small network for Svcreqollect: two hosts and two addresses, which    *)
(* may be listed more than once, and an address and a port that are not    *)
(* configured.                                                             *)
EXTENDS Svcreqollect, TLC

MCAddresses == {[ip |-> 1, mask |-> TRUE], [ip |-> 2, mask |-> FALSE]}

\* A line for port 80, the same beyond 16 bits, and one that is no port.
MCValues == {80, UINT16 + 80, UINT16}

\* Requests of senders, accepted and rejected, from and to hosts that may be
\* known or not; the other ways of being rejected; and another role.
Usual == {e \in Element : e.sender /\ e.src_ip \in {1, 3} /\ e.dst_ip \in {2, 3}
                          /\ e.path \in {"some", "none"}}
Unusual ==
    {[src_ip |-> 1, dst_ip |-> 2, port |-> 80, sender |-> s, path |-> p] :
        s \in BOOLEAN, p \in {"no array", "empty"}}
MCRequests == Usual \union Unusual

Symmetry == Permutations(Hosts)
=============================================================================
