-------------------------------- MODULE Mwmg --------------------------------
(***************************************************************************)
(* The front end (mwmg.c): main() reads the windows from the               *)
(* configuration, then one thread runs the GTK main loop, which calls      *)
(* readin() while standard input is readable and update() when a timer is  *)
(* due.  readin() adds one line of the collector to the sample buffer of   *)
(* its window, and update() draws the bucket of curtime - 1 and counts     *)
(* curtime up.                                                             *)
(*                                                                         *)
(* The sample buffers are modelled as they are laid out in memory, since   *)
(* the question is whether a line's octets arrive in the cell of its       *)
(* second, its host and its level; drawing is left out.  Time is in whole  *)
(* seconds, and the main loop may be late.                                 *)
(***************************************************************************)
EXTENDS Integers, Sequences

CONSTANTS
    DEFTLEN,    \* seconds of samples, 31 * 60 in the code
    nsys,       \* hosts (-n)
    interval,   \* seconds between updates (-i)
    Tags,       \* what the lines are about: X, C, M or the number of a flow
    NSections,  \* sections of the configuration, one for each flow
    Skew,       \* a line's time is this far from the clock, at most
    MaxNow,     \* bound on the clock
    MaxLines    \* bound on the lines the collector writes

\* The letters of a line's third field, and the names of the other windows, as
\* numbers, so that a flow has its own.
X == 0
C == -1
M == -2
Time == -3
Net == -4
NoName == -5
Names == Time .. NSections \union {Net}

ASSUME MwmgAssumption ==
    /\ DEFTLEN \in Nat \ {0} /\ nsys \in Nat \ {0} /\ interval \in Nat \ {0}
    /\ NSections \in Nat
    /\ Tags \subseteq M .. NSections
    /\ Skew \in Nat /\ MaxNow \in Nat /\ MaxLines \in Nat

W_MEM == 0
W_CPU == 1
W_TIME == 2
W_NET == 3
W_OTHER == 4
W_USER == 5

VARIABLES
    nwins,      \* windows, 0 until the configuration is read
    name,       \* the name of each window
    exited,     \* main() has returned because of a malformed section
    now,        \* the clock
    start,      \* the time of bucket 0
    done,       \* readin() has been called
    timers,     \* when the timers are due
    curtime,    \* buckets drawn
    pipe,       \* lines written by the collector and not read
    eof,        \* the collector has ended
    buf,        \* lines in the buffer of stdin
    samps,      \* the sample buffers, by window and index
    \* for the properties
    written,    \* all lines written
    nread,      \* how many of them fgets() has returned
    ledger,     \* what was read for each name, second, host and level
    wild        \* a sample was written outside of the half of its level

confVars == <<nwins, name, exited>>
pipeVars == <<pipe, eof, written>>
dataVars == <<samps, ledger, wild>>
vars == <<confVars, now, start, done, timers, curtime, pipeVars, buf, nread, dataVars>>

BuiltIn == <<M, C, Time, Net, X>>
Wins == 0 .. W_USER + NSections - 1
Half == DEFTLEN * nsys
Cells == 0 .. 2 * Half - 1
Seconds == 0 .. DEFTLEN - 1
Init ==
    /\ nwins = 0 /\ exited = FALSE
    /\ name = [w \in Wins |-> NoName]
    /\ now = 0 /\ start = 0 /\ curtime = 0
    /\ done = FALSE /\ timers = {}
    /\ pipe = <<>> /\ buf = <<>> /\ eof = FALSE
    /\ samps = [w \in Wins |-> [k \in Cells |-> 0]]
    /\ written = <<>> /\ nread = 0
    /\ ledger = [n \in Names |-> [c \in Seconds \X (1 .. nsys) \X {0, 1} |-> 0]]
    /\ wild = FALSE

-----------------------------------------------------------------------------
(* main(): the windows.  The built-in ones come first, then one for each   *)
(* section, in the order of the file.                                      *)

BuiltInWindows ==
    /\ nwins = 0 /\ ~ exited
    /\ nwins' = W_USER
    /\ name' = [w \in Wins |-> IF w < W_USER THEN BuiltIn[w + 1] ELSE NoName]
    /\ UNCHANGED <<exited, now, start, done, timers, curtime, pipeVars, buf, nread,
                   dataVars>>

Section ==
    /\ nwins \in W_USER .. W_USER + NSections - 1 /\ ~ exited
    /\ \/ /\ name' = [name EXCEPT ![nwins] = nwins - W_USER + 1]
          /\ nwins' = nwins + 1
          /\ exited' = exited
       \/ /\ exited' = TRUE         \* no closing bracket
          /\ UNCHANGED <<nwins, name>>
    /\ UNCHANGED <<now, start, done, timers, curtime, pipeVars, buf, nread, dataVars>>

\* The main loop runs once the file has been read.
Running == nwins = W_USER + NSections /\ ~ exited

-----------------------------------------------------------------------------
(* readin().                                                               *)

\* The descriptor is readable, at the end of the input too.
Readable == pipe # <<>> \/ eof

\* The first call starts the timer and the clock of the buckets.
First ==
    IF done
    THEN UNCHANGED <<start, timers>>
    ELSE /\ start' = now
         /\ timers' = timers \union {now + interval}

\* Mutant: the buffer is dropped after the first line of a read.
StdinOneLine ==
    IF buf = <<>> /\ pipe # <<>> THEN <<Head(pipe)>> ELSE buf

\* What fgets() takes its line from: its buffer, filled with all the pipe
\* holds when it is empty.
Stdin == IF buf = <<>> THEN pipe ELSE buf

Window(tag) ==
    CASE tag = X -> W_OTHER
      [] tag = C -> W_CPU
      [] tag = M -> W_MEM
      [] OTHER   -> tag + W_USER - 1

\* Mutant: the levels are a bucket apart.
IndexLevels(i, who, enc) == i * nsys + who - 1 + enc * DEFTLEN

Index(i, who, enc) == i * nsys + who - 1 + enc * DEFTLEN * nsys

\* One line is added, or dropped when its time is before start or its host
\* no number.  An index outside of the buffer is undefined.
Charge(l, t0) ==
    LET i == l.t - t0
        k == Index(i, l.who, l.enc)
    IN  IF l.t < t0 \/ l.who <= 0
        THEN UNCHANGED dataVars
        ELSE /\ samps' = IF k \in Cells
                         THEN [samps EXCEPT ![Window(l.tag)][k] = @ + 1]
                         ELSE samps
             /\ wild' = (wild \/ i >= DEFTLEN)
             /\ ledger' = IF i < DEFTLEN
                          THEN [ledger EXCEPT ![l.tag][<<i, l.who, l.enc>>] = @ + 1]
                          ELSE ledger

\* Once the last bucket has been drawn nothing is read, nor at the end of the
\* input.
ReadNothing ==
    /\ Running /\ Readable
    /\ curtime >= DEFTLEN \/ Stdin = <<>>
    /\ First
    /\ done' = TRUE
    /\ UNCHANGED <<confVars, now, curtime, pipeVars, buf, nread, dataVars>>

\* Mutant: the first call is not remembered.
CalledNot == done

Called == TRUE

readin ==
    /\ Running /\ Readable
    /\ curtime < DEFTLEN /\ Stdin # <<>>
    /\ First
    /\ done' = Called
    /\ buf' = Tail(Stdin)
    /\ pipe' = IF buf = <<>> THEN <<>> ELSE pipe
    /\ nread' = nread + 1
    /\ Charge(Head(Stdin), start')
    /\ UNCHANGED <<confVars, now, curtime, eof, written>>

-----------------------------------------------------------------------------
(* update().                                                               *)

\* A timer runs until update() returns false.
Again(n) == n < DEFTLEN

update(d) ==
    /\ Running
    /\ d \in timers /\ d <= now
    /\ curtime' = curtime + 1
    /\ timers' = (timers \ {d}) \union (IF Again(curtime + 1) THEN {now + interval} ELSE {})
    /\ UNCHANGED <<confVars, now, start, done, pipeVars, buf, nread, dataVars>>

-----------------------------------------------------------------------------
(* The clock, and the collector at the other end of the pipe.              *)

Second ==
    /\ Running /\ now < MaxNow
    /\ now' = now + 1
    /\ UNCHANGED <<confVars, start, done, timers, curtime, pipeVars, buf, nread,
                   dataVars>>

Write(l) ==
    /\ Running /\ ~ eof
    /\ Len(written) < MaxLines
    /\ pipe' = Append(pipe, l)
    /\ written' = Append(written, l)
    /\ UNCHANGED <<confVars, now, start, done, timers, curtime, eof, buf, nread,
                   dataVars>>

Close ==
    /\ Running /\ ~ eof
    /\ eof' = TRUE
    /\ UNCHANGED <<confVars, now, start, done, timers, curtime, pipe, written, buf,
                   nread, dataVars>>

\* A collector numbers its hosts from 1 to nsys, as -n asks for; a host line
\* of its configuration without a number gives 0.
CollectorLines ==
    [t : now - Skew .. now + Skew, who : 0 .. nsys, tag : Tags, enc : {0, 1}]

Next ==
    \/ BuiltInWindows \/ Section
    \/ readin \/ ReadNothing
    \/ \E d \in timers : update(d)
    \/ Second \/ Close
    \/ \E l \in CollectorLines : Write(l)

Spec == Init /\ [][Next]_vars

-----------------------------------------------------------------------------
(* Properties.                                                             *)

\* The graph of a name shows what was read for it: as long as no line came
\* after the last bucket, each cell of a window's buffer is the sum of the
\* lines for the window's name with the cell's second, host and level, and of
\* no others.
BucketsTrue ==
    Running /\ ~ wild =>
        \A w \in Wins, i \in Seconds, h \in 1 .. nsys, e \in {0, 1} :
            samps[w][i * nsys + h - 1 + e * Half] = ledger[name[w]][<<i, h, e>>]

\* Lines are taken in the order they were written, and none is lost between
\* the pipe and the buffer of stdin.
InOrder == SubSeq(written, nread + 1, Len(written)) = buf \o pipe

\* A bucket is drawn only when its second is over: update() never gets ahead of
\* the lines it draws, there is one timer, and it stops at the samples' end.
NeverAhead ==
    /\ start + curtime * interval <= now
    /\ curtime <= DEFTLEN
=============================================================================
