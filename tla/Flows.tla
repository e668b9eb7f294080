------------------------------- MODULE Flows -------------------------------
(***************************************************************************)
(* The flow table of the collector (recollect.c): addconn() fills it from  *)
(* the lines N=[M]start[-end] of the configuration, findflow() returns the *)
(* flows that a packet belongs to as a mask of 64 bits, and consume()      *)
(* writes one line for each flow whose bit is in the mask.                 *)
(*                                                                         *)
(* A line of the file is a record of the numbers atoi() and atol() find in *)
(* it, 0 where they find none, and of whether it has a hyphen.  A minus    *)
(* sign before the start is the first hyphen of its line, so that the end  *)
(* is then the start without the sign.  The widths are parameters: a port and the  *)
(* number of a flow have PORTMOD values (2^16), an MGEN identifier MGENMOD *)
(* (2^32), an int INTBITS bits (32), and the mask is a set of bit numbers  *)
(* below 2 * INTBITS.                                                      *)
(***************************************************************************)
EXTENDS Integers

CONSTANTS
    PORTMOD,    \* values of a uint16_t
    MGENMOD,    \* values of a uint32_t
    INTBITS,    \* bits of an int
    MAXFLOWS,   \* flows the table takes, 64 in the code
    CfgLines,   \* flow lines the configuration may contain
    Reports     \* records an agent may send

ASSUME FlowsAssumption ==
    /\ PORTMOD \in Nat \ {0}
    /\ MGENMOD \in Nat /\ PORTMOD <= MGENMOD
    /\ INTBITS \in Nat \ {0}
    /\ MAXFLOWS \in 1 .. 2 * INTBITS
    /\ CfgLines \subseteq [id : Int, mgen : BOOLEAN, start : Int,
                           hyphen : BOOLEAN, end : Int]
    /\ \A l \in CfgLines : l.start < 0 => l.hyphen /\ l.end = - l.start
    /\ Reports \subseteq [kind : {"cpu", "mem", "pkt"}, dport : 0 .. PORTMOD - 1,
                          flowid : 0 .. MGENMOD - 1, encapped : {0, 1}]

VARIABLES
    flows,      \* the table
    nflows,     \* its length
    cfg,        \* the line each entry was made from (for the properties)
    loaded,     \* the configuration has been read
    rec,        \* the record consumed last
    out         \* the lines written for it

flowVars == <<flows, nflows, cfg, loaded, rec, out>>

Index == 0 .. nflows - 1

FlowInit ==
    /\ flows = [k \in {} |-> 0]
    /\ nflows = 0
    /\ cfg = [k \in {} |-> 0]
    /\ loaded = FALSE
    /\ rec = [kind |-> "none"]
    /\ out = {}

-----------------------------------------------------------------------------
(* addconn() on a flow line.                                               *)

\* The ends of the range, as stored.
Start(l) == l.start % MGENMOD

\* Mutant: a line always names a single port or identifier.
EndIgnored(l) == Start(l)

End(l) == IF l.hyphen THEN l.end % MGENMOD ELSE Start(l)

\* Mutant: one flow too many fits.
AcceptedOneMore(l) ==
    nflows <= MAXFLOWS /\ l.id % PORTMOD # 0 /\ Start(l) # 0 /\ End(l) # 0

\* The table has room, and the number, the start and the end all parse.
Accepted(l) ==
    nflows < MAXFLOWS /\ l.id % PORTMOD # 0 /\ Start(l) # 0 /\ End(l) # 0

\* The table's entry: a range of ports, truncated to 16 bits, or of MGEN flow
\* identifiers; the other range is 0 to 0.
Entry(l) ==
    IF l.mgen
    THEN [id |-> l.id % PORTMOD, plo |-> 0, phi |-> 0,
          mlo |-> Start(l), mhi |-> End(l)]
    ELSE [id |-> l.id % PORTMOD, plo |-> Start(l) % PORTMOD,
          phi |-> End(l) % PORTMOD, mlo |-> 0, mhi |-> 0]

Extend(f, e) == [k \in 0 .. nflows |-> IF k = nflows THEN e ELSE f[k]]

AddFlow(l) ==
    /\ ~ loaded
    /\ Accepted(l)
    /\ flows' = Extend(flows, Entry(l))
    /\ cfg' = Extend(cfg, l)
    /\ nflows' = nflows + 1
    /\ UNCHANGED <<loaded, rec, out>>

\* A line that does not parse, one too many, and any line at all for which
\* realloc() finds no memory, is reported and lost: the table stays as it is.
RefuseFlow(l) ==
    /\ ~ loaded
    /\ UNCHANGED flowVars

Loaded ==
    /\ ~ loaded
    /\ loaded' = TRUE
    /\ UNCHANGED <<flows, nflows, cfg, rec, out>>

-----------------------------------------------------------------------------
(* findflow() and consume().                                               *)

Matches(f, p, m) ==
    \/ p # 0 /\ f.plo <= p /\ p <= f.phi
    \/ m # 0 /\ f.mlo <= m /\ m <= f.mhi

\* 1 << k, an int, converted to 64 bits.  The sign bit of the int is extended
\* to the upper half.  A count of INTBITS or more is undefined in C; the
\* shift instruction of the processor takes the count modulo INTBITS.
Bit(k) ==
    LET b == k % INTBITS IN
    IF b = INTBITS - 1 THEN b .. 2 * INTBITS - 1 ELSE {b}

findflow(p, m) ==
    UNION {Bit(i) : i \in {j \in Index : Matches(flows[j], p, m)}}

\* The flows consume() finds in the mask.
Hit(p, m) == {k \in Index : Bit(k) \intersect findflow(p, m) # {}}

\* Mutant: every matching flow is written as a primary.
LinesAllPrimary(p, m, e) ==
    {[flow |-> k, id |-> flows[k].id, level |-> e] : k \in Hit(p, m)}

\* The lines of the flows in the mask, in ascending order.  otw.encapped is incremented after
\* each, so all but the first are written with level 1.
FlowLines(p, m, e) ==
    {[flow |-> k, id |-> flows[k].id,
      level |-> IF e = 0 /\ \A j \in Hit(p, m) : k <= j THEN 0 ELSE 1] :
        k \in Hit(p, m)}

NoFlow == -1
Other(tag, e) == {[flow |-> NoFlow, id |-> tag, level |-> e]}

consume(r) ==
    /\ loaded
    /\ rec' = r
    /\ out' = CASE r.kind = "cpu" -> Other("C", 0)
                [] r.kind = "mem" -> Other("M", 0)
                [] r.kind = "pkt" ->
                     IF findflow(r.dport, r.flowid) = {}
                     THEN Other("X", r.encapped)
                     ELSE FlowLines(r.dport, r.flowid, r.encapped)
    /\ UNCHANGED <<flows, nflows, cfg, loaded>>

FlowNext ==
    \/ \E l \in CfgLines : AddFlow(l) \/ RefuseFlow(l)
    \/ Loaded
    \/ \E r \in Reports : consume(r)

FlowSpec == FlowInit /\ [][FlowNext]_flowVars

-----------------------------------------------------------------------------
(* Properties.                                                             *)

Flow == [id : Nat, plo : Nat, phi : Nat, mlo : Nat, mhi : Nat]

\* The table has one entry, and the properties one line, per index.
FlowTypeOK ==
    /\ nflows \in 0 .. MAXFLOWS
    /\ flows \in [Index -> Flow]
    /\ cfg \in [Index -> CfgLines]
    /\ loaded \in BOOLEAN
    /\ rec \in Reports \union {[kind |-> "none"]}

\* What the line asks for: packets to its ports, or with its flow
\* identifiers.
Last(l) == IF l.hyphen THEN l.end ELSE l.start
Asks(l, r) ==
    LET n == IF l.mgen THEN r.flowid ELSE r.dport
    IN  n # 0 /\ l.start <= n /\ n <= Last(l)

\* The lines name ports and identifiers that exist.
Sound == \A k \in Index :
            LET mod == IF cfg[k].mgen THEN MGENMOD ELSE PORTMOD
            IN  {cfg[k].start, Last(cfg[k])} \subseteq 0 .. mod - 1

AskedFor(r) == {k \in Index : Asks(cfg[k], r)}

Classified ==
    rec.kind = "pkt" =>
        {ln.flow : ln \in out} =
            IF AskedFor(rec) = {} THEN {NoFlow} ELSE AskedFor(rec)

\* Up to INTBITS flows, a packet is written under exactly the lines of the
\* configuration that ask for it, and as unknown if there is none.
ClassifiedUpToInt == Sound /\ nflows <= INTBITS => Classified

\* A packet that is no relay is counted once as a primary, however many flows
\* it belongs to: the sum over level 0 is the traffic.
PrimaryOnce ==
    rec.kind = "pkt" /\ rec.encapped = 0 =>
        \E ln \in out : /\ ln.level = 0
                        /\ \A other \in out : other.level = 0 => other = ln
=============================================================================
