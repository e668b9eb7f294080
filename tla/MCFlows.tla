------------------------------ MODULE MCFlows ------------------------------
(* Flows for TLC.  The configuration gives an int 2 bits and the table 4   *)
(* entries, which keeps the code's ratio of 32 to 64.                      *)
EXTENDS Flows

Line(id, mgen, start, hyphen, end) ==
    [id |-> id, mgen |-> mgen, start |-> start, hyphen |-> hyphen, end |-> end]

One(id, mgen, n) == Line(id, mgen, n, FALSE, 0)
From(id, mgen, start, end) == Line(id, mgen, start, TRUE, end)

\* Single numbers, ranges that overlap, a range beyond the ports, a range with
\* a minus sign before its start and one before its end, and three lines that
\* do not parse.
MCLines ==
    { One(1, FALSE, 1), From(1, FALSE, 2, 3), From(2, FALSE, 1, 2),
      One(2, TRUE, 1), From(3, TRUE, 1, 2), From(3, FALSE, 3, 5),
      From(-1, TRUE, -2, 2), From(2, FALSE, 1, -2),
      From(0, FALSE, 1, 2), One(1, TRUE, 0), From(1, FALSE, 2, 0) }

MCReports ==
    [kind : {"pkt"}, dport : 0 .. 3, flowid : 0 .. 2, encapped : {0, 1}]
      \union [kind : {"cpu", "mem"}, dport : {1}, flowid : {2}, encapped : {0}]
=============================================================================
