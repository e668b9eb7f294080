------------------------------ MODULE Measure ------------------------------
(***************************************************************************)
(* What the agent measures: watchstat() of pcapper.c with readstat() and   *)
(* readmem(), and what consume() of recollect.c prints of it.  Module      *)
(* Pcapper has how the reports are sent; a round of the loop is one step   *)
(* here.                                                                   *)
(*                                                                         *)
(* The kernel's counters of /proc/stat grow between rounds, and reading    *)
(* them fails now and then.  /proc/meminfo is a sequence of lines.  The    *)
(* memory is computed modulo 2^24, since no higher bit is reported.        *)
(***************************************************************************)
EXTENDS Integers, Sequences, SequencesExt, Functions

CONSTANTS
    S_TOT,      \* counters in a line of /proc/stat, 7 in the code
    S_IDLE,     \* the one that is not counted, 3 in the code
    NCPU,       \* processors
    Growth,     \* by how much a counter may grow between two rounds
    Garbage,    \* what is in data[] before it is first filled
    Meminfos,   \* contents of /proc/meminfo, <<>> when it cannot be read
    MaxRounds   \* bound on the rounds

Counters == 0 .. S_TOT - 1

\* Those that are added up.
Busy == Counters \ {S_IDLE}

ASSUME MeasureAssumption ==
    /\ S_TOT \in Nat /\ S_IDLE \in Counters /\ NCPU \in Nat \ {0}
    /\ Growth \subseteq Nat /\ Garbage \subseteq Nat /\ MaxRounds \in Nat
    /\ \A m \in Meminfos : m \in Seq([tag : {"MemTotal", "MemFree", "Buffers",
                                             "Cached", "SwapCached", "other"},
                                      kb : Nat])

VARIABLES
    spc,        \* where watchstat() is
    stat,       \* the kernel's counters
    data,       \* the counters read last
    orig,       \* orig[S_TOT]: the total of the round before
    cpu, mem,   \* len in the last reports
    \* for the properties
    rounds,     \* rounds made
    reads,      \* reads of /proc/stat since the last one that failed
    delta,      \* by how much the counters grew, S_IDLE apart, in the last round
    meminfo     \* what was read of the memory

statVars == <<spc, stat, data, orig, cpu, mem, rounds, reads, delta, meminfo>>

Zero == [i \in Counters |-> 0]

StatInit ==
    /\ spc = "start"
    /\ stat = Zero
    /\ data \in {[i \in Counters |-> g] : g \in Garbage}
    /\ orig = 0 /\ cpu = 0 /\ mem = 0
    /\ rounds = 0 /\ reads = 0
    /\ delta = 0 /\ meminfo = <<>>

-----------------------------------------------------------------------------
(* readstat() and readmem().                                               *)

\* The number of processors, or a failure after some of the kernel's counters k
\* have been copied to d.
readstat(k, d) ==
    {[rv |-> NCPU, d |-> k]} \union
    {[rv |-> -1, d |-> [i \in Counters |-> IF i < n THEN k[i] ELSE d[i]]] :
        n \in Counters}

\* The busy time of an average processor; each counter is rounded down.
Total(d, ncpu) == SumFunction([i \in Busy |-> d[i] \div ncpu])

\* 16 and 24 bits.
W16 == 65536
W24 == 16777216

\* One line: the total is taken, what is free is subtracted, any other line, or
\* a total of 0, ends it.
MemLine(acc, line) ==
    IF acc.done THEN acc
    ELSE CASE line.tag = "MemTotal" -> [rv |-> line.kb % W24, done |-> line.kb = 0]
           [] line.tag = "other" -> [acc EXCEPT !.done = TRUE]
           [] OTHER -> [acc EXCEPT !.rv = (@ - line.kb) % W24]

readmem(lines) == FoldLeft(MemLine, [rv |-> 0, done |-> FALSE], lines).rv

-----------------------------------------------------------------------------
(* watchstat().                                                            *)

\* The first readstat() fills orig, and ends the thread when it fails.
FirstRead ==
    /\ spc = "start"
    /\ \E r \in readstat(stat, Zero) :
          IF r.rv < 1 THEN spc' = "ended" /\ UNCHANGED <<orig, reads>>
          ELSE /\ spc' = "loop"
               /\ orig' = Total(r.d, r.rv)
               /\ reads' = 1
    /\ UNCHANGED <<stat, data, cpu, mem, rounds, delta, meminfo>>

\* Mutant: orig stays what it was at the start.
NextOrigKept(tot) == orig

\* memcpy() at the end of a round.
NextOrig(tot) == tot

\* The kernel counts, all processors together, and watchstat() reports.  A failed
\* read is used anyway, as if there were one processor.
Round ==
    /\ spc = "loop" /\ rounds < MaxRounds
    /\ \E g \in [Counters -> Growth] : stat' = [i \in Counters |-> stat[i] + g[i]]
    /\ \E r \in readstat(stat', data) :
          LET tot == Total(r.d, IF r.rv < 1 THEN 1 ELSE r.rv)
          IN  /\ data' = r.d
              /\ cpu' = (tot - orig) % W16
              /\ orig' = NextOrig(tot)
              /\ reads' = IF r.rv < 1 THEN 0 ELSE reads + 1
    /\ meminfo' \in Meminfos
    /\ mem' = (readmem(meminfo') \div 256) % W16
    /\ delta' = SumFunction([i \in Busy |-> stat'[i] - stat[i]])
    /\ rounds' = rounds + 1
    /\ UNCHANGED spc

StatStep == FirstRead \/ Round

-----------------------------------------------------------------------------
(* consume() of recollect.c.                                               *)

\* (len << 8) * 1024 in 32 bits, in units of 2^18.
PrintedMem(len) == len % 16384

-----------------------------------------------------------------------------
(* Properties.                                                             *)

\* In KiB.
FourGiB == 4194304

Abs(x) == IF x < 0 THEN - x ELSE x

\* The memory in use according to /proc/meminfo: the total without what is free,
\* in the lines up to the first of another kind.
InUse(m) ==
    LET others == {i \in DOMAIN m : m[i].tag = "other"}
        head == {i \in 2 .. Len(m) : \A j \in others : i < j}
    IN  m[1].kb - SumFunction([i \in head |-> m[i].kb])

Proper(m) == m # <<>> /\ m[1].tag = "MemTotal" /\ \A i \in 2 .. Len(m) : m[i].tag # "MemTotal"

\* When the last two reads of /proc/stat went well, the report on the processors
\* is by how much the kernel's counters grew, divided by the processors and
\* rounded by less than one for each counter, although the counters are rounded
\* one by one and before the difference is taken; unless that is more than 16
\* bits hold.  The line recollect prints has the memory in use, in units of 256
\* KiB, as long as it is less than the 4 GiB that 32 bits hold.
ReportsTrue ==
    rounds > 0 =>
        /\ reads >= 2 /\ delta \div NCPU < W16 - S_TOT =>
             Abs(cpu * NCPU - delta) <= (S_TOT - 1) * (NCPU - 1)
        /\ Proper(meminfo) /\ InUse(meminfo) \in 0 .. FourGiB - 1 =>
             PrintedMem(mem) = InUse(meminfo) \div 256
=============================================================================
