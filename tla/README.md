# A formal model of the Fortian Utilization Monitor

The monitor is a pipeline of small C programs.  `pcapper` runs on every observed
host, captures packets and sends a fixed-size record for each of them to all
collectors connected to it.  `recollect` connects to the agents, classifies the
records into flows and writes one line per flow to standard output.
`svcreqollect` is a collector of another kind, which polls a REST service.
`mwmg` reads the lines and draws them.

This directory holds TLA+ modules for these programs, the TLC configurations
that check them on small instances, and proofs for TLAPS.  `PROJECT.json` maps
every definition to the lines it models.

    tlc -workers 2 -config MCRecollect.cfg MCRecollect     # a run
    tlapm RecollectProofs.tla                              # the proofs of a module

## Inventory

| Component | State | Operations | What is hard |
|---|---|---|---|
| `recollect`, connections (`recollect.c`) | table `sys`, sets `needconn` and `bigfs`, `lastsock`, condition variable `waitconn`, descriptors | `addconn`, `conner`, `consume`, `clobber`, `main`'s select loop | two threads over shared sets, copies that age, descriptor numbers that are reused, a signal without memory, records cut by TCP |
| `recollect`, flow table | `flows`, `nflows` | `addconn` (flow lines), `findflow`, `consume` (lines written) | widths of shifts and ports, overlapping flows |
| `pcapper`, serving (`pcapper.c`) | `bigfs`, `biglock`, descriptors, the log | `acceptor`, `blastpacket`, `watchstat`, `logpkt`, end of `main` | three threads, `close` racing `accept` and `fopen`, a blocking `send` under the mutex, exhaustion of descriptors |
| `pcapper`, start-up (`pcapper.c`, `linuxif.c`) | options, filter, capture, listening socket, threads | `main` from its options to its exit codes, `manhandle`, `pcprintf` | interfaces that come and go during the wait, a filter that is cut, ten error paths that each close something else |
| `pcapper`, measurements | counters of the last round, `/proc` | `readstat`, `readmem`, the loop of `watchstat` | reads that fail and are used anyway, rounding by counter, 16-bit values |
| `mwmg`, samples (`mwmg.c`) | `wins`, `samps`, `curtime`, `start`, stdin's buffer | the configuration, `readin`, `update` | a packed index, two clocks, a buffered stream behind a readiness callback |
| `mwmg`, windows | `showwins`, buttons, graphics contexts, positions, the file `WINPOS` | `toggle_event`, `subwin_delete`, `win_config`, `configure_event`, `expose_color`, `create_selector`, `create_win`, end of `main` | late events, a bit for each of any number of windows, a toggle without a look at the button, a context shared by four pictures, a frame that is not ours |
| `mwmg`, drawing | samples, `sperpx`, margins | `blank`, `update_top`, `update_multi_top`, `update_bottom`, `update_multi_bottom`, `roundup` | rounding that adds up, buckets merged into columns, bars painted over each other, a table of times |
| `svcreqollect` | `priorities`, `map`, `jsontext` | `addprio`, `add_ip_to_host`, `curldata`, the poll loop | answers in pieces, broken elements, the wait |
| `replay-pcapper.pl`, `delay`, CORE services | none | scripts | nothing |

The programs interact only through streams.  `pcapper` to `recollect` is TCP
(struct `wire`, `ftfm.h`); a collector to `mwmg` is a pipe of text lines.  Each
module therefore has the other end of its streams as its environment: in
Recollect the agents, in Pcapper the collectors, in Mwmg the collector.

What makes each part correct:

* connections: every configured system is, at any time, either wanted by
  `conner` or watched by `main`, never both and never neither; `main` never
  blocks in `recv`, never acts on another system's descriptor, and never
  reports one system's traffic as another's; a lost connection is noticed;
* flow table: a packet is written under exactly the flows that ask for it, and
  counted as primary traffic once;
* serving: all collectors get one sequence of records without gaps; descriptors
  are neither leaked nor mistaken for each other; the log agrees with what was
  sent; a collector that reads gets everything;
* samples: a cell of a graph is the sum of the lines for its name, second, host
  and level; no line is lost or overtaken; drawing does not get ahead;
* start-up: the agent serves or ends, with nothing left open, and captures what
  it was asked to capture;
* measurements: a report is the growth of the kernel's counters;
* windows: buttons, bits and windows agree; only windows that have pixmaps are
  drawn; a window reopens where it was left; colours say what was relayed;
* drawing: bars stay in their area, but for a known rounding, and the history
  hides nothing; every bucket has one column, and a time of day near its own;
* service requests: what is written is the count of this poll's answer.

## Modules

| Module | Models | Checked by | Proved in |
|---|---|---|---|
| `Recollect` | `recollect.c`: `addconn` (host lines), `conner`, `clobber`, `consume` (reading), `main` | `MCRecollect*` | `RecollectProofs` |
| `Links` | abstract: the life cycle of one system's link | as `ImplementsLinks` | `RecollectProofs` |
| `Flows` | `recollect.c`: `addconn` (flow lines), `findflow`, `consume` (lines) | `MCFlows` | `RecollectProofs` |
| `Pcapper` | `pcapper.c`: `acceptor`, `blastpacket`, `watchstat`, `logpkt`, end of `main` | `MCPcapper*` | `PcapperProofs` |
| `Feed` | abstract: one feed of records for all collectors of an agent | as `ImplementsFeed` | `PcapperProofs` |
| `Startup` | `pcapper.c`: `main`, `pcprintf`; `linuxif.c`: `manhandle` | in `Agent` | `AgentProofs` |
| `Measure` | `pcapper.c`: `readstat`, `readmem`, the numbers of `watchstat`; `recollect.c`: their lines | in `Agent` | `AgentProofs` |
| `Agent` | composes Startup and Measure: `main` and the thread it creates | `MCAgent` | `AgentProofs` |
| `Mwmg` | `mwmg.c`: windows of the configuration, `readin`, `update` | `MCMwmg` | `MwmgProofs` |
| `Windows` | `mwmg.c`: the control window, the handlers of the windows, their places over several sessions, the colours | `MCWindows` | `WindowsProofs` |
| `Graph` | `mwmg.c`: `blank` and what it calls, `configure_event`'s scale | `MCGraph` | `GraphProofs` |
| `Svcreqollect` | `svcreqollect.c`: everything but the options | `MCSvcreqollect*` | `SvcreqollectProofs` |
| `Sums` | no code: laws of sums over finite sets, and of products and quotients | - | itself |

**Recollect.**  `main` and `conner` each have a control point (`mpc`, `cpc`).
Every access to `needconn` and `bigfs` is under `connlock` and no critical
section blocks, so that a critical section is one step and the mutex has no
variable.  What happens outside a critical section is a step of its own:
`clobber` is `ClobberClose`, `ClobberClear`, `ClobberSocket` (or
`ClobberDrop`) and `ClobberNeed`, with `conner` and the network running in
between.  The descriptor table is the kernel's: the lowest free number is given
out, so that numbers are reused as they are in the program.  A record is `WIRE`
units, and one arrives at a time; `phase` tells where in a record the stream
is.  `recv()` returning -1 is not smaller than `sizeof (struct wire)`, which is
what line 310 computes; `ConsumeError` then reports what the stack held
(`data = "stale"`).  `pthread_create` may fail (`ThreadMayFail`): its error is
positive, the code tests for a negative one, and `main` goes on without `conner`
or dies of the undefined identifier.

**Flows.**  The table is a sequence of the entries that `addconn` accepts, with
the truncations of `port`, `end` and `id`, of negative numbers too: a minus sign
before the start is taken for the hyphen of a range.  Any line may be lost for
want of memory.  `findflow`'s mask is a set of bits;
a shift by `i` in an `int` of `INTBITS` bits wraps, and the highest bit is
extended into the upper half (`Bit`, `Hit`).  The reference is the
configuration itself: which of its lines ask for a packet (`AskedFor`).

**Pcapper.**  `biglock` is a variable here, since `send()` may block while it is
held.  A descriptor is free, a file or a connection; a connection holds
`SNDBUF` unread records.  `readstat`, `readmem` and `logpkt` open and close a
file in two steps (`OpenFile`, `CloseFile`), between which another thread may
take or close descriptors.  The contents of a record are its thread, kind and
number.  At the end of `main` the descriptors are closed without the mutex,
while cancelled threads may still hold it; the properties about descriptors are
stated up to that point.

**Feed** says what a collector may rely on: from the record published next after
it subscribed it gets every record, in the order of all others, until it is
lost; and nothing is published before everyone has been given the record before.
Pcapper maps the records begun under `biglock` to `feed`, the length of it when
`acceptor` entered a collector to `from`, and what `send()` took to `stream`.

**Startup, Measure, Agent.**  `main` is a sequence of steps in which the kernel
and libpcap choose their answers.  An argument is a word, of which only the
number it begins with, its length as a filter and what `-i` keeps of it (`Cut`)
are known; a filter is "asked"
(the one that was asked for), "other" (a different one that compiles) or
"invalid", and `Intact` says when the cut at `filterstr[IFNAMSIZ - 1]` leaves it
whole.  While `main` waits for an interface, interfaces get and lose their
addresses.  `Measure` has the counters of `/proc/stat` for all processors
together, reads that fail after some of them were copied, `/proc/meminfo` as a
sequence of lines (of older and newer kernels, malformed or missing), and the
widths of what is sent (16 bits) and printed (32 bits).  `Agent` runs the second
from the moment the first has created its thread; with the threads' use of the
collectors that is module Pcapper, whose state is not repeated here.

**Mwmg.**  The sample buffers are kept by index, as they lie in memory, and
`ledger` (for the properties only) by name, second, host and level.  Standard
input is a pipe and the buffer of stdio: `fgets` takes one line, but reads all
the pipe has when its buffer is empty.  A timer may be late.  The modelled
build is that of the Makefile, with `RUN_FOREVER`, in which `readin` goes on
being called after the last bucket.

**Windows.**  GTK calls handlers one at a time, so that a handler is one step,
with everything it calls: a window shown for the first time is realized, which
calls `configure_event` within `toggle_event`.  The user's wish to close a window
(`CloseRequest`) and the event of a window that was moved, resized or mapped
reach mwmg later, in the order they were sent (`closing`, `events`).  The
foreground of a graphics context is `Primary` or `Secondary`; `Blank` says in
which colour each picture leaves it.  That depends on which buckets the picture
merges into its last column, which differs between windows and changes with
their size: `Merges` leaves it open.  Sessions follow each
other through the file `WINPOS`, which a session that is killed does not write.
`opened` and `left` are for the properties only.

**Graph.**  A picture is a function from columns to the bars painted in them,
with their rows and the order of painting.  The doubles of the code are ratios
of integers.  The quotient of two whole numbers is exact where `ceil()` is taken
of it; what takes several operations, a value times a scale, is off by up to one
part in `UNIT`, up or down as `Rounded` says for each ratio, and `ceil()` is of
what was computed (`Computed`, `CeilComputed`): 30 * (249 / 30.0) is more than
249.  Nothing is assumed of `Rounded`, so that the proofs hold for any rounding
within `UNIT`, of which only `UNIT > 2 * Height` is assumed.  A sample may be added to any bucket at
any time, as `readin` does; how it gets there is in Mwmg.  `BarsFit` supposes
`InScale`: a maximum above the last step `roundup` tries, 10^13, gets that step
anyway ("well, return it anyway"), and its bars leave the area.

**Svcreqollect.**  One thread, whose state is the counts, the text of the
answer and the time since the poll began.  The table `count` is indexed as in
the code, with 0 for unknown ports.  `seen` (for the properties only) keeps
the elements looked at, from which `Reference` counts anew.  Where the
behaviour is undefined (pointers freed before they are set, `gmtime` of a value
not set) the process goes on or crashes; where the sign of a pointer's lower
half is tested, it goes on or exits.  When the start fails after
`node_info.json` was read, `abend` releases its object a second time, and the
process exits or crashes.

## Runs

States and times are those of two workers on a small machine.

| Run | Checks | Shows |
|---|---|---|
| `recollect` | `TypeOK`, `Accounted`, `SelectsOnConnections`, `NoSocketRace`, `RecvNeverWaits`, `RecordsAttributed`, `IInv`, `ImplementsLinks` | 2 systems, 2-unit records, a failing `socket()`, a failing clock, a failing `pthread_create`, urgent data; 1.8 million states |
| `recollect_live` | `LossNoticed`, `Retried` | a lost connection is noticed; once a connect has failed, every system is retried |
| `recollect_signal` | `AgentsConnected` is violated | the signal is lost when `conner` is not waiting, and `conner` then waits without a limit |
| `flows` | `FlowTypeOK`, `ClassifiedUpToInt`, `PrimaryOnce` | every table of up to 4 flows from 11 lines, two of them with negative numbers, an `int` of 2 bits |
| `pcapper` | `TypeOK`, `SetIsOpen`, `NoLeak`, `OneOrder`, `LogAgrees`, `ImplementsFeed` | 2 collectors, 3 descriptors (so that they run out), a packet, a round of reports; 3.3 million states |
| `pcapper_live` | `Joined`, `Delivered` | collectors that read are entered and served |
| `agent` | `Outcome`, `ReportsTrue`, `Settles` | 49 command lines, 2 interfaces, every call failing, 2 rounds of reports; 0.5 million states |
| `mwmg` | `BucketsTrue`, `InOrder`, `NeverAhead` | 2 hosts, 2 buckets, lines early or late by a second, a clock that passes the last bucket; 0.3 million states |
| `windows` | `ButtonsTrue`, `Drawable`, `Reopened`, `ColoursTrue` | 2 sessions, 5 windows and an `int` of 4 bits, a frame, events up to 3 behind; 0.9 million states |
| `graph` | `BarsFit`, `HistoryShowsAll`, `ColumnsTrue`, `LabelsNear` | every 3 samples in the first 2 of 10 buckets, 2 widths (2 buckets to a column, and more pixels than buckets), intervals of 1 and 2 seconds, doubles too large, too small and exact; 0.2 million states |
| `svcreqollect` | `TypeOK`, `CountsTrue`, `TotalsAgree`, `UnknownTrue`, `WholeAnswer` | 2 hosts, 2 configured lines, 2 polls of up to 2 requests in up to 2 pieces; 1.3 million states |
| `svcreqollect_wait` | `PollsAgain` is violated | the wait for the next poll never ends |

**Bounds.**  Two systems are enough for every race between `main` and `conner`
(one in the hand of each) and for one descriptor to be reused under another;
the proofs then cover any number.  `WIRE = 2` is the shortest record that can
be cut.  An `int` of 2 bits and 4 flows keep the ratio of 32 to 64.  Three
descriptors for two collectors and two files make every kind of open fail for
want of one.  With two buckets there is one that is not the last, and `MaxNow`
lets the clock pass both.  Two polls show what one leaves to the next; two
requests, that counts add up.  The 60 seconds `main` waits are 2 in `agent`: the
count only has to pass its limit and to start anew for the second wait.  Growth
of 70000 exceeds 16 bits and 5 GiB in use exceed 32.  In `windows`, windows 0 and
4 share a bit, as 0 and 32 do in the program; a second session is needed to
reopen, and three events are what mapping a window makes.  In `graph`, 10 fills
the first step of the scale, so that a double that is too large shows on the
frame, two of them exceed it, and 1 is lost unless rounded up; two buckets share
a column or do not, by the width, and the ten there are make room for two times
of day, one of which is past the table of times.  In Svcreqollect the clock stops being counted a
tick after the interval, where no comparison changes any more.

**Deadlock** is checked in the Recollect and Flows runs.  In the others the
system may stop: the process ends, or the bounds on packets, lines, polls,
samples and sessions are used up.

**Fairness.**  Recollect: weak fairness of each thread; `select` and `connect`
return and a timed wait ends, but nothing is assumed of agents or of spurious
wakeups; both live runs suppose that `conner` was created.  Pcapper: weak fairness of each thread and of collectors that read;
strong fairness for taking `biglock`, because a pthread mutex is not fair but
every holder does input and output between two acquisitions, so that a waiting
thread gets it sooner or later.  Nothing is assumed of packets, of collectors
that arrive or leave, or of the capture's end.  Svcreqollect: weak fairness of
the one thread.  Agent: weak fairness of `main`, whose every call returns; nothing
is assumed of the interfaces, which may never get an address.

**Mutants.**  For every property of a passing run, `PROJECT.json` names a change
of the code (a dropped guard, a missing reset, a swapped index) under which TLC
finds the property violated.

## Proofs

The proofs hold for all values of the constants under the named assumption of
each module (`RecollectAssumption`, `FlowsAssumption`, `PcapperAssumption` and so
on), which give the constants their types and say what a configuration always
has: at least one unit to a record, one bit to an `int`, one host, a second
between two updates, ports of 16 bits that are not 0.  Three say more: the flow
table has no more than twice as many entries as an `int` has bits
(`FlowsAssumption`); the masks given by `-w` have no bits an `int` lacks
(`WindowsAssumption`); and the hosts of `node_info.json` are finitely many
(`SvcAssumption`), from which follows that the table of counts, which has a
column for each, is never left.  Each inductive invariant was checked with TLC
on the instance of its run, or one like it, before it was proved.

**RecollectProofs.**  The properties are not inductive: that `recv` does not
wait in this pass depends on what `select` reported, on who may have touched
the descriptor since, and on which set every system is in.  `IInv` says all of
it in ten parts: `TypeOK`; `Owners` (a descriptor belongs to one system and is
covered by `lastsock`); `Sockets` (a system's descriptor is a socket, and a
connected one leads to its agent); `Streams` (only the connection about to be
closed is in the middle of a record); `Wanted` (what `conner` has or will have
in hand is unconnected and not being clobbered); `Watched` (what `main` watches
is connected); `Passes` (what `select` reported about systems still ahead in the
pass is still true); `Control`; `Accounted`; `RecordsAttributed`.  One lemma per
part shows that a step keeps it, with one case per action.  From `[]IInv` follow
`TypeCorrect`, `AccountedAlways`, `AttributionAlways`, `NoSocketRaceAlways`,
`RecvNeverWaitsAlways` and `SelectAlways`.  `Refinement` shows that the two
threads implement `Links`, with the state of a link read off the two sets and
`main`'s position: each step moves one link along the cycle or none.

The second half of the module is about Flows.  Its invariant says that the table is what its accepted lines
parse to, and the output that of the last record.  `Exact` (packets are
classified as configured while there are no more flows than bits in an `int`)
rests on three lemmas about shifts: a small shift is its bit, the bits of two
flows are disjoint, and a hit is a match.  `Primary` (each packet that is no
relay is primary once) needs no bound on the flows.

**PcapperProofs.**  Whether a collector has been given all records depends on
where the sender is in its loop, on which descriptors are still ahead of it, and
on whose they are; that they are not somebody else's by now, on what the other
two threads hold.  `IInv` has six parts.  `Types` adds to `TypeOK` where each
thread may be and how records are numbered.  `Owned`: a descriptor in `bigfs` is
a connection, on one descriptor only, and what a thread holds is nobody else's.
`Fresh`: a connection that waits in the backlog is on no descriptor yet.
`Streams`: what a collector was sent is a section of the broadcasts.  `Lagging`:
while a sender is in its loop, a live collector lacks exactly the last record,
or nothing, by whether its descriptor is still before the loop index; without a
sender it lacks nothing.  `Logbook`: where each thread is tells whether its last
record is in the log, reported as unlogged, or broadcast.  From them follow
`SetIsOpenAlways`, `NoLeakAlways`, `OneOrderAlways` and `LogAgreesAlways`, and
`FeedImplemented`, that every step of the three threads is one of `Feed` or
leaves the feed alone.

**AgentProofs.**  What `main` has open is a function of where it is (`Holds`),
the filter is one that the options allow and has been compiled before `main` goes
on (`Filtered`), and the mode points to a word of the command line (`Options`).
`OutcomeAlways` follows for any command lines, filters and number of interfaces.

`ReportsAlways` needs an invariant of its own (`Reported`): a total that is kept
from a read that went well is that of the kernel's counters then, so that after
two such reads the difference is between two known states of the counters; after
a failed read nothing is known of it.  One counter divided before and after its
growth is off by less than one; the counters add their errors (`TotalsApart`),
and the 16 bits of the report keep the difference while it is small enough
(`CpuIs`).  What `readmem` subtracts is followed line by line, by induction over
the lines of `/proc/meminfo` (`After`): until a line of another kind the result is
the first line less the sum of the others, modulo 2^24, and no longer changes
after it.

**MwmgProofs.**  The parts are inductive one by one.  `Lines`: the lines written
and not read are those in stdio's buffer followed by those in the pipe.
`Clocks`: there is at most one timer, and it waits for the end of the next
bucket.  `Buffers`: until a sample has been added outside of its half of the
buffer, the cell at the packed index of a second, host and level is the
ledger's; it rests on a lemma that the index is injective, for any number of
hosts and seconds.

**WindowsProofs.**  `ButtonsTrue` is inductive, with a lemma about flipping a bit
that no other window has.  `DrawableAlways` and `ColoursAlways` need what each
handler leaves in the graphics context (`Drawn`, `Coloured`).  `Reopened` spans
sessions: it needs that the file has what was left (`Kept`), and what the events
still waiting are going to tell `win_config` about the frame and the place
(`Queues`: of the first events of a window, one comes from the window manager,
and the last is about where the window is now).

**SvcreqollectProofs.**  The counts are true because each poll starts from
nothing and each element adds to the one cell the reference puts it in.
`FindIs` and its like show that the loops of `find_host` and `find_port` give
the first hit, `CountStep` that the reference grows by one where the table does.
The invariant adds `Bounded` (the tables are large enough: no two hosts have one
name, so that there are no more than there are names), `Tidy` (nothing is
counted before the first poll, and no text is left between polls) and `Lines`
(what was printed under X is entry 0 of the table).  `TotalsAlways` has a second
invariant on top of it: each element adds one to the same cell of the table and
to the total of its outcome, and a sum over the table grows by what one of its
cells grows (`Sums`).

**GraphProofs.**  `sperpx` and `rm` follow from the width, and samples are numbers
(`IInv`); the rest is arithmetic.  The columns and the times of day need lemmas
about quotients, about `Ceil`, and that products and quotients keep the order.
`LabelsAlways` shows how far a time of day may be from its column, and that it is
exact, and inside of `whens`, where a whole number of columns lies between two
times.  `BarsFitAlways` shows first that the scale of each picture covers its
highest bar or stack up to the rounding of the doubles (`TopScaleIs`,
`BottomScaleIs` and so on, under `InScale`), and that `ceil()` of a double that is
off by a part in `UNIT` is at most one row more than it should be, and no row
less than one for what is not 0.  In the upper graphs that row is free; in a
window's own history it is the row of the frame.  A stack of bars, each rounded
up, is at most a row per bar higher than the sum of them, and `drawh - delta`
leaves these rows free.  In the aggregate's history the levels of a window are
rounded one by one where the height of the stack has them rounded together, which
is where two rows per window below the area come from.
`HistoryAlways` shows, for a sample that is not 0, that its bar has a row which
the bars painted later do not cover.  In a window's own history that is the last
row of the lower level, on which the upper one stands, and the first row of the
upper level, which is painted last; in the aggregate it is the first row of each
part of the stack, since what is painted later starts below it.

**Sums.**  The library's sums take the elements in the order `CHOOSE` gives.
Here it is shown that a sum is the one function with the equation of that order,
then that any element may be taken first, and from that the laws the proofs use:
a sum with one more element, with one cell changed, of a subset, of larger terms,
of two functions.  Induction over a finite set, or over the natural numbers, is
stated for a set of sets, or of numbers, that is closed (`SubsetInduction`,
`NumberInduction`), since the provers cannot instantiate a theorem that has a
predicate as a parameter.

Every invariant and every refinement that a passing run checks is thereby proved.
Only model-checked:

* the liveness properties `LossNoticed`, `Retried`, `Joined`, `Delivered` and
  `Settles`, since the prover does not reason about fairness;
* the two statements that are refuted, by their counterexamples.

## What the code does otherwise than it says

Two statements have a run that refutes them (`findings` in `PROJECT.json`): the
signal to `conner` that is lost when nobody waits (`recollect_signal`), and the
wait between two polls that does not end (`svcreqollect_wait`).  Two more are
contradicted by a property that holds:

* "the log is not written to unless there is at least one active connection to
  the agent" (`config/pcapper/README.md:49`): `LogAgrees` says that every record
  is logged, those that are sent to nobody too, since no caller of `logpkt` asks
  (`pcapper.c:358`, `559`, `580`);
* "each interval may take up more than one pixel of width"
  (`config/mwmg/README.md:124`): by `ColumnsTrue` a bucket has one column, in a
  window with more pixels than buckets too, since `sperpx` is a whole number
  (`mwmg.c:432`).

Met while modelling, and part of the models without a run of their own:

`recollect`

* a failed `recv` is taken for a whole record, and a line is made from what the
  stack held (`ConsumeError`), although `config/recollect/README.md:3` lets it
  write only what the agents provide;
* `pthread_create` returns a positive error, which the test for a negative one
  misses (`recollect.c:407`): the collector then connects to nobody
  (`StartConner`);
* a system that is dropped because `socket()` failed leaves descriptor -1 in
  the table, and `FD_ISSET(-1, ...)` aborts the fortified build (`Scan`);
* beyond the bits of an `int`, flows alias each other, although the table takes
  64 ("We can only look for 64 flows right now"); `ClassifiedUpToInt` states
  what does hold;
* the memory report wraps at 16 GiB on the wire and at 4 GiB when printed
  (`mem`, `PrintedMem`);

`pcapper`

* `send()` may block under `biglock` (`pcapper.c:362`), so that one collector
  that stops reading keeps all others from records, and new ones from joining;
* the filters of the modes `src`, `dst` and `spoof` are cut after 15 characters
  (`pcapper.c:793`): the first two then never compile, so that the agent without
  options ends with 6, and the third may compile as another filter; `pcprintf`
  leaves no terminating zero, so that a short filter may get a tail;
* `pthread_create` returns a positive error, which the test for a negative one
  misses: the agent then serves without the thread (`Create`);
* an error of `pcap_loop` ends with status 0; `-r` without a value is ignored; a
  name given with `-i` is cut after 15 characters (`OptListen`);
* the address that goes into a filter is read before a wait of up to a minute
  for the other interface, and may no longer be the one it has;
* a failed read of `/proc/stat` is reported, as a number that means nothing, and
  spoils the next report too; a `MemAvailable` line, which newer kernels have,
  ends the reading of `/proc/meminfo` before buffers and caches;
* when the clock is set back, `watchstat` sleeps for as long;

`mwmg`

* a colour that cannot be parsed does not make it exit;
* a sample later than the last bucket is added outside its half of the buffer,
  although a comment says "only update if we have time left" (`mwmg.c:1220`);
* a window's number is a bit of an `int`, although it "can show an arbitrary
  number of windows" (`config/mwmg/README.md:7`): windows that share a bit toggle
  each other (`Alone` excepts them);
* the upper graph of the aggregate draws with whatever colour its context was
  left in, so that direct traffic may have the colour of relayed
  (`config/mwmg/README.md:132`), and paints relayed traffic over direct, from the
  same row (`update_multi_top`);
* with `-i` greater than 1 there is still a bucket for each second while
  `curtime` counts intervals, so that drawing falls behind, and the index into
  the table of times passes its end (`mwmg.c:211`);
* it does so with `-i 1`, too, in narrow windows: with 4 hosts a window may have
  16 pixels between its margins, `sperpx` is then 117 and `whens[13]` of 11 is
  read; 17 to 20, 28 to 30 and 41 pixels read past its end as well.  Elsewhere
  the times drift: at the default width (`-n 20`, 80 pixels, `sperpx` 24)
  a step of 180 seconds is 7 columns, which are 168.  `LabelsNear` bounds the
  drift, and is exact where columns divide the 180 seconds;
* a line of a window's history may start on the frame, one row above its area,
  when a double that should be the height of the area is a little more: with
  `drawh` 249 and a scale up to 30, 30 is drawn 250 rows high (`BarsFit`);
* windows that were never shown are saved with size and place 0, a session that
  is killed saves nothing, and when the first event is not at the place asked for
  the offset of the frame is wrong;
* `-w5`, attached, is read as 0;

`svcreqollect`

* it prints the counts of unknown ports for every configured one (`LineOf`,
  `svcreqollect.c:552`), numbers entries by line rather than by the identifier
  that `config/svcreqollect/README.md` describes, and takes the sign of a
  pointer's lower half for a parser's error (`Parse`);
* without a host in `node_info.json`, pointers that are not set are freed
  (`svcreqollect.c:371`); then, and when cURL cannot be set up, the object of
  that file is released twice (`svcreqollect.c:365`, `612`).

## Not modelled

Packet printing in `pcapper.c` (compiled out or never called);
`replay-pcapper.pl`, `delay` and the CORE services (scripts without state); the
command lines of `recollect`, `svcreqollect` and, but for `-w`, `mwmg`, whose
results are constants; texts, frames, images, the splash window and
`click_event`'s status line, which no other state depends on; the second
dimension of places and sizes; the time between two rounds of `watchstat`;
stdio's buffer of `svcreqollect`'s output, which delays lines until 4096 bytes
have come together.

## Plan

1. Done: Recollect, Links and Flows with proofs; Pcapper, Mwmg and Svcreqollect
   with runs; Startup and Measure, composed in Agent; Windows; Graph; the
   abstract Feed and that Pcapper implements it.
2. Done: proofs about Pcapper (with the refinement of Feed), Agent, Mwmg,
   Windows, Svcreqollect and Graph: every invariant of the runs, those about sums
   and stacks included.
3. Left: to compose the pipeline from `pcapper` over `recollect` to `mwmg`, whose
   question is back-pressure (what a reader that stops does to the others).
