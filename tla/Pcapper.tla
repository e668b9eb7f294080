------------------------------ MODULE Pcapper ------------------------------
(***************************************************************************)
(* The agent (pcapper.c) while it serves its collectors.  Three threads    *)
(* run: acceptor() takes connections and enters them in bigfs, the main    *)
(* thread is in pcap_loop(), which calls blastpacket() for every packet,   *)
(* and watchstat() reports the processors and the memory once a second.    *)
(* The last two log a record, take biglock, and send the record to every   *)
(* descriptor in bigfs with a send() that may block.                       *)
(*                                                                         *)
(* A record is the thread that made it and its number; its fields have no  *)
(* part in what is checked here.  The descriptors are those left after the *)
(* standard streams, the capture and the listening socket; each of them is *)
(* free, an open file, or a connection.  The collectors and TCP are the    *)
(* environment: a collector reads, stalls, leaves or is cut off, and a     *)
(* connection holds SNDBUF records that the collector has not read.        *)
(***************************************************************************)
EXTENDS Integers, Sequences, FiniteSets

CONSTANTS
    NFD,        \* descriptors, at most FD_SETSIZE of them
    NCONN,      \* connections that collectors make
    SNDBUF,     \* unread records a connection holds before send() blocks
    BACKLOG,    \* connections waiting for accept(), 5 in the code
    Packets,    \* packets that pass the filter of the capture
    MaxPkts,    \* bound on the packets recorded
    MaxTicks,   \* bound on the rounds of watchstat()
    Stalls,     \* connections whose collector may stop reading and stay
    LogMayFail, \* the log cannot always be opened
    MayEnd      \* pcap_loop() may return

Fd == 0 .. NFD - 1
Conn == 1 .. NCONN

ASSUME PcapperAssumption ==
    /\ NFD \in Nat /\ NCONN \in Nat /\ MaxPkts \in Nat /\ MaxTicks \in Nat
    /\ SNDBUF \in Nat \ {0} /\ BACKLOG \in Nat \ {0}
    /\ Packets \subseteq [ip : BOOLEAN, first : BOOLEAN, version : Nat,
                          proto : {"tcp", "udp", "icmp"}]
    /\ Stalls \subseteq Conn
    /\ {LogMayFail, MayEnd} \subseteq BOOLEAN

NoFd == -1
Free == 0               \* a descriptor not in use
File == -1              \* one of an open file
Senders == {"cap", "stat"}
Threads == Senders \union {"acc"}
NoOne == "none"         \* biglock is not held
NeverJoined == -1

VARIABLES
    pc,         \* where each thread is
    hold,       \* the descriptor each thread works on
    cursor,     \* the loop index of each sender's send loop
    rec,        \* the record each sender is reporting
    bigfs,      \* descriptors that are sent to
    biglock,    \* the thread that holds the mutex
    fdt,        \* the process's descriptors
    backlog,    \* connections not yet accepted
    peer,       \* the collector's end of each connection
    sent,       \* records sent on each connection
    nread,      \* how many of them the collector has read
    log,        \* the log file
    \* for the properties
    unlogged,   \* records that could not be logged
    hist,       \* records in the order of the broadcasts
    join,       \* broadcasts before each connection was entered in bigfs
    cancelled   \* pcap_loop() has returned and the threads are cancelled

threadVars == <<pc, hold, cursor, rec, cancelled>>
netVars == <<backlog, peer, sent, nread>>
logVars == <<log, unlogged>>
feedVars == <<hist, join>>
vars == <<threadVars, bigfs, biglock, fdt, netVars, logVars, feedVars>>

\* The number of records a thread has made counts from 1; 0 is none.
NoRec(t) == [by |-> t, kind |-> "none", n |-> 0]

\* main() has started both threads, and no collector is connected.
Init ==
    /\ pc = [acc |-> "select", cap |-> "idle", stat |-> "init"]
    /\ hold = [t \in Threads |-> NoFd]
    /\ cursor = [t \in Senders |-> 0]
    /\ rec = [t \in Senders |-> NoRec(t)]
    /\ bigfs = {} /\ biglock = NoOne
    /\ fdt = [f \in Fd |-> Free]
    /\ backlog = <<>>
    /\ peer = [c \in Conn |-> "none"]
    /\ sent = [c \in Conn |-> <<>>]
    /\ nread = [c \in Conn |-> 0]
    /\ log = <<>> /\ unlogged = {}
    /\ hist = <<>>
    /\ join = [c \in Conn |-> NeverJoined]
    /\ cancelled = FALSE

\* open(), accept() and fopen() take the lowest free descriptor.
Unused == {f \in Fd : fdt[f] = Free}
LowestUnused == CHOOSE f \in Unused : \A g \in Unused : f <= g

\* pthread_cancel() has not been called, or takes effect only at the next call
\* that may block or does input or output.
Runs(t) == t = "cap" \/ ~ cancelled

-----------------------------------------------------------------------------
(* acceptor().                                                             *)

Accept ==
    /\ pc["acc"] = "select" /\ Runs("acc")
    /\ backlog # <<>> /\ Unused # {}
    /\ fdt' = [fdt EXCEPT ![LowestUnused] = Head(backlog)]
    /\ hold' = [hold EXCEPT !["acc"] = LowestUnused]
    /\ backlog' = Tail(backlog)
    /\ pc' = [pc EXCEPT !["acc"] = "join"]
    /\ UNCHANGED <<cursor, rec, cancelled, bigfs, biglock, peer, sent,
                   nread, logVars, feedVars>>

\* No descriptor is left: the error is printed and select() tried again.
AcceptFails ==
    /\ pc["acc"] = "select" /\ Runs("acc")
    /\ backlog # <<>> /\ Unused = {}
    /\ UNCHANGED vars

\* Mutant: the acceptor does not wait for the mutex.
MayJoinUnlocked == pc["acc"] = "join"

MayJoin == pc["acc"] = "join" /\ biglock = NoOne

\* FD_SET under the mutex.
Join ==
    /\ MayJoin
    /\ bigfs' = bigfs \union {hold["acc"]}
    /\ join' = [join EXCEPT ![fdt[hold["acc"]]] = Len(hist)]
    /\ hold' = [hold EXCEPT !["acc"] = NoFd]
    /\ pc' = [pc EXCEPT !["acc"] = "select"]
    /\ UNCHANGED <<cursor, rec, cancelled, biglock, fdt, netVars, logVars, hist>>

-----------------------------------------------------------------------------
(* Records: blastpacket() up to logpkt(), and a round of watchstat().      *)

\* blastpacket() reports the first fragments of TCP and UDP over IPv4.
Counted(p) == p.ip /\ p.first /\ p.version = 4 /\ p.proto \in {"tcp", "udp"}

Capture(p) ==
    /\ pc["cap"] = "idle"
    /\ Counted(p) /\ rec["cap"].n < MaxPkts
    /\ rec' = [rec EXCEPT !["cap"] =
                 [by |-> "cap", kind |-> "pkt", n |-> rec["cap"].n + 1]]
    /\ pc' = [pc EXCEPT !["cap"] = "log"]
    /\ UNCHANGED <<hold, cursor, cancelled, bigfs, biglock, fdt, netVars, logVars,
                   feedVars>>

Ignore(p) ==
    /\ pc["cap"] = "idle" /\ ~ Counted(p)
    /\ UNCHANGED vars

\* usleep() returns.
Tick ==
    /\ pc["stat"] = "idle" /\ Runs("stat")
    /\ rec["stat"].n < 2 * MaxTicks
    /\ pc' = [pc EXCEPT !["stat"] = "readstat"]
    /\ UNCHANGED <<hold, cursor, rec, cancelled, bigfs, biglock, fdt, netVars,
                   logVars, feedVars>>

\* The functions that open a file: readstat(), at first and in every round,
\* readmem(), and logpkt().
FilePcs == {"init", "readstat", "readmem", "log"}

OpenFile(t) ==
    /\ pc[t] \in FilePcs /\ hold[t] = NoFd /\ Runs(t)
    /\ Unused # {}
    /\ fdt' = [fdt EXCEPT ![LowestUnused] = File]
    /\ hold' = [hold EXCEPT ![t] = LowestUnused]
    /\ UNCHANGED <<pc, cursor, rec, cancelled, bigfs, biglock, netVars, logVars,
                   feedVars>>

\* Mutant: the report on the memory is not logged.
AfterFileMemUnlogged(p, ok) ==
    CASE p = "init" -> IF ok THEN "idle" ELSE "ended"
      [] p = "readstat" -> "log"
      [] p \in {"readmem", "log"} -> "lock"

\* What follows: the first readstat() ends the thread if it fails, the others
\* are used as they are ("using result anyway").
AfterFile(p, ok) ==
    CASE p = "init" -> IF ok THEN "idle" ELSE "ended"
      [] p \in {"readstat", "readmem"} -> "log"
      [] p = "log" -> "lock"

\* The record made from what has been read.
Report(t) ==
    CASE pc[t] = "readstat" -> [by |-> t, kind |-> "cpu", n |-> rec[t].n + 1]
      [] pc[t] = "readmem"  -> [by |-> t, kind |-> "mem", n |-> rec[t].n + 1]
      [] OTHER -> rec[t]

\* fclose(), which also writes what logpkt() has formatted.
CloseFile(t) ==
    /\ pc[t] \in FilePcs /\ hold[t] # NoFd /\ Runs(t)
    /\ fdt' = [fdt EXCEPT ![hold[t]] = Free]
    /\ hold' = [hold EXCEPT ![t] = NoFd]
    /\ log' = IF pc[t] = "log" THEN Append(log, rec[t]) ELSE log
    /\ pc' = [pc EXCEPT ![t] = AfterFile(pc[t], TRUE)]
    /\ rec' = [rec EXCEPT ![t] = Report(t)]
    /\ UNCHANGED <<cursor, cancelled, bigfs, biglock, netVars, unlogged, feedVars>>

\* fopen() fails for want of a descriptor, the log's also for other reasons.
OpenFails(t) ==
    /\ pc[t] \in FilePcs /\ hold[t] = NoFd /\ Runs(t)
    /\ Unused = {} \/ (pc[t] = "log" /\ LogMayFail)
    /\ unlogged' = IF pc[t] = "log" THEN unlogged \union {rec[t]} ELSE unlogged
    /\ pc' = [pc EXCEPT ![t] = AfterFile(pc[t], FALSE)]
    /\ rec' = [rec EXCEPT ![t] = Report(t)]
    /\ UNCHANGED <<hold, cursor, cancelled, bigfs, biglock, fdt, netVars, log,
                   feedVars>>

-----------------------------------------------------------------------------
(* The send loop, the same in blastpacket() and twice in watchstat().      *)

\* Mutant: the mutex does not exclude.
MayLockAlways(t) == pc[t] = "lock"

MayLock(t) == pc[t] = "lock" /\ biglock = NoOne

Lock(t) ==
    /\ MayLock(t)
    /\ biglock' = t
    /\ cursor' = [cursor EXCEPT ![t] = 0]
    /\ hist' = Append(hist, rec[t])
    /\ pc' = [pc EXCEPT ![t] = "send"]
    /\ UNCHANGED <<hold, rec, cancelled, bigfs, fdt, netVars, logVars, join>>

\* The loop stops next at f.
Due(t, f) ==
    /\ pc[t] = "send" /\ f \in bigfs /\ f >= cursor[t]
    /\ \A g \in bigfs : g >= cursor[t] => f <= g

\* send() returns once the record is in the buffer, also when the collector
\* has closed its end: its answer, a reset, makes the next one fail.
SendOk(t, f) ==
    /\ Due(t, f) /\ Runs(t)
    /\ fdt[f] \in Conn
    /\ LET c == fdt[f] IN
       \/ /\ peer[c] = "up" /\ Len(sent[c]) - nread[c] < SNDBUF
          /\ sent' = [sent EXCEPT ![c] = Append(@, rec[t])]
          /\ peer' = peer
       \/ /\ peer[c] = "closed"
          /\ peer' = [peer EXCEPT ![c] = "reset"]
          /\ sent' = sent
    /\ cursor' = [cursor EXCEPT ![t] = f + 1]
    /\ UNCHANGED <<pc, hold, rec, cancelled, bigfs, biglock, fdt, backlog,
                   nread, logVars, feedVars>>

\* Mutant: the descriptor stays in the set.
ClearNot(f) == bigfs

Clear(f) == bigfs \ {f}

\* send() fails, and FD_CLR.
SendFails(t, f) ==
    /\ Due(t, f) /\ Runs(t)
    /\ fdt[f] \in Conn => peer[fdt[f]] = "reset"
    /\ bigfs' = Clear(f)
    /\ hold' = [hold EXCEPT ![t] = f]
    /\ pc' = [pc EXCEPT ![t] = "close"]
    /\ UNCHANGED <<cursor, rec, cancelled, biglock, fdt, netVars, logVars, feedVars>>

\* Mutant: the connection is only shut down.
ClosedNot(f) == fdt

Closed(f) == [fdt EXCEPT ![f] = Free]

\* Mutant: the loop is left after a failure.
PastLast(f) == NFD

Past(f) == f + 1

\* shutdown() and close(), and the loop goes on.
CloseConn(t) ==
    /\ pc[t] = "close" /\ Runs(t)
    /\ fdt' = Closed(hold[t])
    /\ hold' = [hold EXCEPT ![t] = NoFd]
    /\ cursor' = [cursor EXCEPT ![t] = Past(hold[t])]
    /\ pc' = [pc EXCEPT ![t] = "send"]
    /\ UNCHANGED <<rec, cancelled, bigfs, biglock, netVars, logVars, feedVars>>

\* Mutant: the mutex is not released.
ReleasedNot(t) == biglock

Released(t) == NoOne

Unlock(t) ==
    /\ pc[t] = "send" /\ ~ \E f \in Fd : Due(t, f)
    /\ biglock' = Released(t)
    /\ pc' = [pc EXCEPT ![t] = IF rec[t].kind = "cpu" THEN "readmem" ELSE "idle"]
    /\ UNCHANGED <<hold, cursor, rec, cancelled, bigfs, fdt, netVars, logVars,
                   feedVars>>

-----------------------------------------------------------------------------
(* The end of main().                                                      *)

\* pcap_loop() returns, and the other threads are cancelled.
CaptureEnds ==
    /\ MayEnd
    /\ pc["cap"] = "idle"
    /\ cancelled' = TRUE
    /\ pc' = [pc EXCEPT !["cap"] = "shut"]
    /\ UNCHANGED <<hold, cursor, rec, bigfs, biglock, fdt, netVars, logVars, feedVars>>

\* Without the mutex, every descriptor in bigfs is closed, and left in bigfs.
ShutDown(f) ==
    /\ pc["cap"] = "shut"
    /\ f \in bigfs /\ fdt[f] # Free
    /\ fdt' = [fdt EXCEPT ![f] = Free]
    /\ UNCHANGED <<threadVars, bigfs, biglock, netVars, logVars, feedVars>>

\* The process ends.  The kernel closes what is left.
Exit ==
    /\ pc["cap"] = "shut"
    /\ \A f \in bigfs : fdt[f] = Free
    /\ pc' = [t \in Threads |-> "ended"]
    /\ fdt' = [f \in Fd |-> Free]
    /\ UNCHANGED <<hold, cursor, rec, cancelled, bigfs, biglock, netVars, logVars,
                   feedVars>>

-----------------------------------------------------------------------------
(* The collectors, and TCP.                                                *)

\* Connections are numbered as they are made.
CollectorJoins(c) ==
    /\ peer[c] = "none" /\ \A d \in Conn : d < c => peer[d] # "none"
    /\ Len(backlog) < BACKLOG
    /\ pc["acc"] # "ended"
    /\ peer' = [peer EXCEPT ![c] = "up"]
    /\ backlog' = Append(backlog, c)
    /\ UNCHANGED <<threadVars, bigfs, biglock, fdt, sent, nread, logVars,
                   feedVars>>

CollectorReads(c) ==
    /\ peer[c] = "up"
    /\ nread[c] < Len(sent[c])
    /\ nread' = [nread EXCEPT ![c] = @ + 1]
    /\ UNCHANGED <<threadVars, bigfs, biglock, fdt, backlog, peer, sent,
                   logVars, feedVars>>

\* The collector closes its end, or is cut off: retransmissions or keepalive
\* probes time out.
CollectorLeaves(c) ==
    /\ \/ peer[c] = "up" /\ peer' = [peer EXCEPT ![c] = "closed"]
       \/ peer[c] \in {"up", "closed"} /\ peer' = [peer EXCEPT ![c] = "reset"]
    /\ UNCHANGED <<threadVars, bigfs, biglock, fdt, backlog, sent, nread,
                   logVars, feedVars>>

SenderStep(t) ==
    \/ OpenFile(t) \/ CloseFile(t) \/ OpenFails(t)
    \/ Lock(t) \/ CloseConn(t) \/ Unlock(t)
    \/ \E f \in Fd : SendOk(t, f) \/ SendFails(t, f)

Environment ==
    \E c \in Conn : CollectorJoins(c) \/ CollectorReads(c) \/ CollectorLeaves(c)

Next ==
    \/ Accept \/ AcceptFails \/ Join
    \/ \E p \in Packets : Capture(p) \/ Ignore(p)
    \/ Tick
    \/ \E t \in Senders : SenderStep(t)
    \/ CaptureEnds \/ Exit
    \/ \E f \in Fd : ShutDown(f)
    \/ Environment

Spec == Init /\ [][Next]_vars

\* Every thread that can run does.  biglock is not fair, but a thread does
\* input and output between two locks, so that another gets it sooner or
\* later.  Collectors read, except those that may stall.  Nothing is assumed
\* of packets, of collectors arriving or leaving, nor of pcap_loop() returning.
Fairness ==
    /\ WF_vars(Accept) /\ SF_vars(Join) /\ WF_vars(Tick)
    /\ \A t \in Senders : WF_vars(SenderStep(t)) /\ SF_vars(Lock(t))
    /\ \A c \in Conn \ Stalls : WF_vars(CollectorReads(c))

FairSpec == Spec /\ Fairness

-----------------------------------------------------------------------------
(* Properties.                                                             *)

Records ==
    {NoRec(t) : t \in Senders} \union
    [by : {"cap"}, kind : {"pkt"}, n : 1 .. MaxPkts] \union
    [by : {"stat"}, kind : {"cpu", "mem"}, n : 1 .. 2 * MaxTicks]

\* The type of every variable; a sender is in its send loop exactly while it
\* has biglock.
TypeOK ==
    /\ pc \in [Threads -> FilePcs \union {"select", "join", "idle", "lock", "send",
                                          "close", "shut", "ended"}]
    /\ hold \in [Threads -> Fd \union {NoFd}]
    /\ cursor \in [Senders -> 0 .. NFD]
    /\ rec \in [Senders -> Records]
    /\ bigfs \subseteq Fd
    /\ biglock \in Senders \union {NoOne}
    /\ fdt \in [Fd -> Conn \union {Free, File}]
    /\ backlog \in Seq(Conn)
    /\ peer \in [Conn -> {"none", "up", "closed", "reset"}]
    /\ sent \in [Conn -> Seq(Records)]
    /\ nread \in [Conn -> Nat]
    /\ log \in Seq(Records) /\ unlogged \subseteq Records
    /\ hist \in Seq(Records)
    /\ join \in [Conn -> Nat \union {NeverJoined}]
    /\ cancelled \in BOOLEAN
    /\ \A t \in Senders : pc[t] \in {"send", "close"} => biglock = t

\* The descriptors in bigfs are open connections, each connection is on one
\* descriptor, and a file's descriptor belongs to one thread: a record is
\* never sent to the log, and no thread closes what another has opened under
\* the same number, although close() under biglock races fopen() and accept()
\* outside it.
SetIsOpen ==
    ~ cancelled =>
        /\ \A f \in bigfs : fdt[f] \in Conn
        /\ \A f, g \in Fd : fdt[f] \in Conn /\ fdt[f] = fdt[g] => f = g
        /\ \A t \in Threads : hold[t] # NoFd =>
             /\ hold[t] \notin bigfs
             /\ fdt[hold[t]] = File <=> pc[t] \in FilePcs
             /\ \A u \in Threads : hold[u] = hold[t] => u = t

\* No descriptor leaks: one that is not free is in bigfs or in the hands of a
\* thread that goes on to enter or to close it.
NoLeak ==
    ~ cancelled =>
        \A f \in Fd : fdt[f] = Free \/ f \in bigfs \/ \E t \in Threads : hold[t] = f

\* All collectors see the records in one order, that of the broadcasts, and
\* each sees, from the moment it was entered in bigfs, all of them, none twice
\* and none left out, until its connection is lost.  Between two broadcasts a
\* live connection has been sent all of them.
OneOrder ==
    \A c \in Conn :
        /\ join[c] = NeverJoined => sent[c] = <<>>
        /\ join[c] # NeverJoined =>
             /\ join[c] + Len(sent[c]) <= Len(hist)
             /\ sent[c] = SubSeq(hist, join[c] + 1, join[c] + Len(sent[c]))
             /\ biglock = NoOne /\ peer[c] = "up" =>
                  join[c] + Len(sent[c]) = Len(hist)

\* The promise that Feed states, with what the threads broadcast as the feed.
Promise == INSTANCE Feed WITH
    Collectors <- Conn, NotYet <- NeverJoined,
    feed <- hist, from <- join, stream <- sent,
    lost <- {c \in Conn : peer[c] \notin {"none", "up"}}

\* The threads, the mutex and the sockets implement the feed: a broadcast is one
\* publication for all collectors, although each send() may block or fail, and
\* descriptors are closed and taken again between two of them.
ImplementsFeed == Promise!Spec

\* The records of a thread in a sequence.
By(s, t) == {r \in {s[i] : i \in 1 .. Len(s)} : r.by = t}

\* Each thread's records come in the order they were made, none twice.
InTurn(s) ==
    \A i, j \in 1 .. Len(s) : i < j /\ s[i].by = s[j].by => s[i].n < s[j].n

\* The log agrees with what was sent: of each thread's records, those
\* broadcast and not reported as unlogged are the ones in the log, in the
\* same order, where the log may be one record ahead, the last the thread
\* has made.  (The two threads' records may be interleaved differently in
\* the log.)  This includes records that were broadcast to no one: logpkt() does
\* not ask whether a collector is connected, as the manual says it does.
LogAgrees ==
    /\ InTurn(log) /\ InTurn(hist)
    /\ \A t \in Senders :
        LET l == By(log, t)
            h == By(hist, t) \ unlogged
        IN  \/ l = h
            \/ /\ pc[t] \in {"lock", "ended"}
               /\ rec[t] \in l /\ h = l \ {rec[t]}
               /\ \A r \in h : r.n < rec[t].n

\* A collector that has connected is entered in bigfs, unless it leaves or the
\* agent ends or has no descriptor for it.
Joined ==
    \A c \in Conn :
        peer[c] = "up" ~> \/ join[c] # NeverJoined \/ peer[c] # "up"
                          \/ cancelled \/ Unused = {}

\* A collector that stays, and reads, gets every record that is broadcast
\* after it was entered in bigfs: it never falls behind for good.
Delivered ==
    \A c \in Conn \ Stalls :
        (join[c] # NeverJoined /\ join[c] + nread[c] < Len(hist)) ~>
            join[c] + nread[c] = Len(hist) \/ peer[c] # "up" \/ cancelled
=============================================================================
