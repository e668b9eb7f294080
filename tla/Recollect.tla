----------------------------- MODULE Recollect -----------------------------
(***************************************************************************)
(* The connection management of the collector, recollect.c.                *)
(*                                                                         *)
(* Two threads share needconn (the systems that have no connection), bigfs *)
(* (the descriptors main selects on) and the table sys:                    *)
(*                                                                         *)
(*   main    reads the configuration, then forever copies bigfs, selects,  *)
(*           and consumes one record of every ready system; a system whose *)
(*           read fails is clobbered: its descriptor is closed and         *)
(*           replaced, and the system goes back into needconn;             *)
(*   conner  copies needconn, connects the systems of its copy one by one  *)
(*           in ascending order, then waits on the condition variable      *)
(*           waitconn, with a time limit once a connect has ever failed.   *)
(*                                                                         *)
(* Every access to needconn and bigfs is made under connlock, and no       *)
(* critical section blocks or reads shared state written outside one, so a *)
(* critical section is one step here and the mutex needs no variable.      *)
(* cond_signal (line 446) is called without the mutex and is a step of its *)
(* own.  conner is the only thread that ever waits on waitconn.            *)
(*                                                                         *)
(* The kernel's part is the descriptor table: sst is the state of a        *)
(* descriptor, and for a connection, peer is the agent at the other end,   *)
(* avail the units received but not read, and phase the position of the    *)
(* next unread unit in its record.  A record is WIRE units long, which     *)
(* stands for the 28 bytes of struct wire: a unit is what one segment      *)
(* brings.  The agents are the environment.                                *)
(***************************************************************************)
EXTENDS Integers, FiniteSets

CONSTANTS
    NHOSTS,          \* host lines of the configuration file
    WIRE,            \* units of one record
    MaxBuf,          \* bound: units a receive buffer holds
    MaxSockFail,     \* bound: how often socket() fails
    ThreadMayFail,   \* whether pthread_create() may fail
    ClockMayFail,    \* whether clock_gettime() may fail
    UrgentData       \* whether a peer may send urgent data (pcapper does not)

ASSUME RecollectAssumption ==
    /\ NHOSTS \in Nat \ {0}
    /\ WIRE \in Nat \ {0}
    /\ MaxBuf \in Nat
    /\ MaxSockFail \in Nat
    /\ ThreadMayFail \in BOOLEAN
    /\ ClockMayFail \in BOOLEAN
    /\ UrgentData \in BOOLEAN

VARIABLES
    up,             \* up[i]: the agent of system i accepts connections
    sst,            \* state of each descriptor
    peer,           \* the agent a connected descriptor leads to
    avail,          \* units waiting in the receive buffer
    phase,          \* units of the current record already read
    sock,           \* sys[i].sock
    nsys,           \* number of systems
    needconn,       \* systems waiting for conner
    bigfs,          \* descriptors main selects on
    lastsock,       \* largest descriptor ever opened for a system
    lines,          \* host lines not read yet
    sockfail,       \* how often socket() has failed
    mpc, mi,        \* main: control point, loop index i
    rfs, xfs,       \* main: its copies of bigfs, then select's results
    shouldsig,      \* main: a system was clobbered in this pass
    cpc, fs,        \* conner: control point, systems left in its copy
    waiting,        \* conner: some connect has failed (never reset)
    alreadyfailed,  \* conner: clock_gettime has failed
    line            \* the line of standard output written last in this pass

kernel == <<sst, peer, avail, phase>>
shared == <<sock, nsys, needconn, bigfs, lastsock, lines, sockfail>>
mainv  == <<mpc, mi, rfs, xfs, shouldsig>>
connv  == <<cpc, fs, waiting, alreadyfailed>>
vars   == <<up, kernel, shared, mainv, connv, line>>

Sys   == 0 .. NHOSTS - 1
ConfFd == 3                     \* 0, 1 and 2 are taken by the standard streams
Fd    == ConfFd .. ConfFd + NHOSTS
NoSys == -1
NoFd  == -1                     \* what a failed socket() leaves in sys[i].sock

SockState == {"free", "file", "idle", "open", "fin", "rst"}
Connected == {"open", "fin", "rst"}

NoLine == [from |-> NoSys, of |-> NoSys, data |-> "none"]

Init ==
    /\ up \in [Sys -> BOOLEAN]
    /\ sst = [f \in Fd |-> IF f = ConfFd THEN "file" ELSE "free"]
    /\ peer = [f \in Fd |-> NoSys]
    /\ avail = [f \in Fd |-> 0]
    /\ phase = [f \in Fd |-> 0]
    /\ sock = [i \in Sys |-> NoFd]
    /\ nsys = 0
    /\ needconn = {}
    /\ bigfs = {}
    /\ lastsock = 0
    /\ lines = NHOSTS
    /\ sockfail = 0
    /\ mpc = "load"
    /\ mi = 0
    /\ rfs = {}
    /\ xfs = {}
    /\ shouldsig = FALSE
    /\ cpc = "unborn"
    /\ fs = {}
    /\ waiting = FALSE
    /\ alreadyfailed = FALSE
    /\ line = NoLine

-----------------------------------------------------------------------------
(* The kernel's side of socket(): the lowest free descriptor.              *)

Lowest(f) == sst[f] = "free" /\ \A g \in Fd : sst[g] = "free" => f <= g

\* A new socket on descriptor f.  A free descriptor has no peer and nothing
\* to read, and neither has a new socket.
NewSocket(f) ==
    /\ sst' = [sst EXCEPT ![f] = "idle"]
    /\ UNCHANGED <<peer, avail, phase>>

SocketFails ==
    /\ sockfail < MaxSockFail
    /\ sockfail' = sockfail + 1

\* Mutant: lastsock is not raised.
HighestStale(f) == lastsock

Highest(f) == IF f > lastsock THEN f ELSE lastsock

-----------------------------------------------------------------------------
(* The updates of needconn and bigfs.                                      *)

\* Mutants: FD_SET or FD_CLR is missing, or FD_CLR is FD_ZERO.
WantNot(i)    == needconn
UnwantNot(i)  == needconn
UnwantAll(i)  == {}
UnwatchNot(f) == bigfs

Want(i)    == needconn \union {i}
Unwant(i)  == needconn \ {i}
Watch(f)   == bigfs \union {f}
Unwatch(f) == bigfs \ {f}

-----------------------------------------------------------------------------
(* main, reading the configuration.                                        *)

\* A good host line: addconn opens a socket, enters the system in sys, and
\* marks it in needconn for conner.
AddConn ==
    /\ mpc = "load" /\ lines > 0
    /\ \E f \in Fd :
         /\ Lowest(f)
         /\ NewSocket(f)
         /\ sock' = [sock EXCEPT ![nsys] = f]
         /\ lastsock' = Highest(f)
    /\ needconn' = Want(nsys)
    /\ nsys' = nsys + 1
    /\ lines' = lines - 1
    /\ UNCHANGED <<up, bigfs, sockfail, mainv, connv, line>>

\* A host line that is refused: socket() failed, or realloc did and the new
\* socket was closed again.  The line is skipped.
RefuseConn ==
    /\ mpc = "load" /\ lines > 0
    /\ SocketFails
    /\ lines' = lines - 1
    /\ UNCHANGED <<up, kernel, sock, nsys, needconn, bigfs, lastsock,
                   mainv, connv, line>>

\* The end of the file: main closes it and creates conner.  pthread_create()
\* fails with a positive number, which main does not take for a failure: it
\* goes on alone, unless detaching a thread that is not there crashes it.
StartConner ==
    /\ mpc = "load" /\ lines = 0
    /\ sst' = [sst EXCEPT ![ConfFd] = "free"]
    /\ \/ mpc' = "copy" /\ cpc' = "copy"
       \/ ThreadMayFail /\ mpc' \in {"copy", "aborted"} /\ UNCHANGED cpc
    /\ UNCHANGED <<up, peer, avail, phase, shared, mi, rfs, xfs, shouldsig,
                   fs, waiting, alreadyfailed, line>>

-----------------------------------------------------------------------------
(* main, the loop.                                                         *)

CopyBigfs ==
    /\ mpc = "copy"
    /\ rfs' = bigfs
    /\ xfs' = bigfs
    /\ mpc' = "select"
    /\ UNCHANGED <<up, kernel, shared, mi, shouldsig, connv, line>>

\* Mutant: select's result is not looked at, only what was asked for.
ReadableAll(set) == set

\* What select(lastsock + 1, ...) reports readable: it looks at no descriptor
\* beyond lastsock, and fails as a whole if one of them is not open.
Readable(set) ==
    LET seen == {f \in set : f <= lastsock} IN
    IF \E f \in seen : sst[f] = "free"
    THEN {}
    ELSE {f \in seen : avail[f] > 0 \/ sst[f] \in {"fin", "rst"}}

\* select returns.  Urgent data makes the condition of a connection
\* exceptional, also when its end came after the data; with nothing to report, select times out or fails and main
\* starts over.
Select ==
    /\ mpc = "select"
    /\ rfs' = Readable(rfs)
    /\ xfs' \in SUBSET {f \in xfs : UrgentData /\ f <= lastsock /\ sst[f] \in Connected}
    /\ mpc' = IF rfs' \union xfs' # {} THEN "scan" ELSE "copy"
    /\ UNCHANGED <<up, kernel, shared, mi, shouldsig, connv, line>>

\* One iteration of the loop over the systems, up to the call it makes.
\* FD_ISSET of a negative descriptor aborts the process: the build defines
\* _FORTIFY_SOURCE.
Scan ==
    /\ mpc = "scan" /\ mi < nsys
    /\ \/ /\ sock[mi] = NoFd
          /\ mpc' = "aborted"
          /\ UNCHANGED mi
       \/ /\ sock[mi] \in xfs
          /\ mpc' = "close"
          /\ UNCHANGED mi
       \/ /\ sock[mi] \in rfs \ xfs
          /\ mpc' = "consume"
          /\ UNCHANGED mi
       \/ /\ sock[mi] \notin rfs \union xfs \union {NoFd}
          /\ mi' = mi + 1
          /\ UNCHANGED mpc
    /\ UNCHANGED <<up, kernel, shared, rfs, xfs, shouldsig, connv, line>>

\* Mutant: any number of bytes counts as a record.
WholeAny(f) == avail[f] > 0

\* recv() returns no less than sizeof (struct wire).
Whole(f) == avail[f] >= WIRE

\* A line is written: the name printed is that of system mi, the bytes are
\* those of the descriptor's peer.
Report(f) ==
    line' = [from |-> mi, of |-> peer[f],
             data |-> IF phase[f] = 0 THEN "record" ELSE "split"]

\* recv() delivers a whole record: it is reported.
ConsumeRecord ==
    /\ mpc = "consume"
    /\ LET f == sock[mi] IN
         /\ Whole(f)
         /\ avail' = [avail EXCEPT ![f] = @ - WIRE]
         /\ Report(f)
    /\ mi' = mi + 1
    /\ mpc' = "scan"
    /\ UNCHANGED <<up, sst, peer, phase, shared, rfs, xfs, shouldsig, connv>>

\* Mutant: a part of a record is thrown away and the connection is kept.
ConsumeShortKeeps ==
    /\ mpc = "consume"
    /\ LET f == sock[mi] IN
         /\ avail[f] \in 1 .. WIRE - 1
         /\ phase' = [phase EXCEPT ![f] = (@ + avail[f]) % WIRE]
         /\ avail' = [avail EXCEPT ![f] = 0]
    /\ mi' = mi + 1
    /\ mpc' = "scan"
    /\ UNCHANGED <<up, sst, peer, shared, rfs, xfs, shouldsig, connv, line>>

\* recv() delivers less than a record, or the end of the stream: consume
\* returns -1 and main clobbers the system.
ConsumeShort ==
    /\ mpc = "consume"
    /\ LET f == sock[mi] IN
         /\ ~ Whole(f)
         /\ avail[f] > 0 \/ sst[f] = "fin"
         /\ phase' = [phase EXCEPT ![f] = (@ + avail[f]) % WIRE]
         /\ avail' = [avail EXCEPT ![f] = 0]
    /\ mpc' = "close"
    /\ UNCHANGED <<up, sst, peer, shared, mi, rfs, xfs, shouldsig, connv, line>>

\* recv() fails: -1 is compared with the unsigned sizeof (struct wire), which
\* it is not below, so whatever otw holds is reported as a record.  The
\* kernel reports the reset once; after that the stream is at its end.
ConsumeError ==
    /\ mpc = "consume"
    /\ LET f == sock[mi] IN
         /\ avail[f] = 0 /\ sst[f] = "rst"
         /\ sst' = [sst EXCEPT ![f] = "fin"]
    /\ line' = [from |-> mi, of |-> NoSys, data |-> "stale"]
    /\ mi' = mi + 1
    /\ mpc' = "scan"
    /\ UNCHANGED <<up, peer, avail, phase, shared, rfs, xfs, shouldsig, connv>>

-----------------------------------------------------------------------------
(* clobber(mi), called by main.                                            *)

ClobberClose ==
    /\ mpc = "close"
    /\ LET f == sock[mi] IN
         /\ sst' = [sst EXCEPT ![f] = "free"]
         /\ peer' = [peer EXCEPT ![f] = NoSys]
         /\ avail' = [avail EXCEPT ![f] = 0]
         /\ phase' = [phase EXCEPT ![f] = 0]
    /\ mpc' = "clear"
    /\ UNCHANGED <<up, shared, mi, rfs, xfs, shouldsig, connv, line>>

ClobberClear ==
    /\ mpc = "clear"
    /\ bigfs' = Unwatch(sock[mi])
    /\ mpc' = "socket"
    /\ UNCHANGED <<up, kernel, sock, nsys, needconn, lastsock, lines, sockfail,
                   mi, rfs, xfs, shouldsig, connv, line>>

ClobberSocket ==
    /\ mpc = "socket"
    /\ \E f \in Fd :
         /\ Lowest(f)
         /\ NewSocket(f)
         /\ sock' = [sock EXCEPT ![mi] = f]
         /\ lastsock' = Highest(f)
    /\ mpc' = "need"
    /\ UNCHANGED <<up, nsys, needconn, bigfs, lines, sockfail,
                   mi, rfs, xfs, shouldsig, connv, line>>

\* socket() fails: the system is dropped.
ClobberDrop ==
    /\ mpc = "socket"
    /\ SocketFails
    /\ sock' = [sock EXCEPT ![mi] = NoFd]
    /\ mi' = mi + 1
    /\ mpc' = "scan"
    /\ UNCHANGED <<up, kernel, nsys, needconn, bigfs, lastsock, lines,
                   rfs, xfs, shouldsig, connv, line>>

ClobberNeed ==
    /\ mpc = "need"
    /\ needconn' = Want(mi)
    /\ shouldsig' = TRUE
    /\ mi' = mi + 1
    /\ mpc' = "scan"
    /\ UNCHANGED <<up, kernel, sock, nsys, bigfs, lastsock, lines, sockfail,
                   rfs, xfs, connv, line>>

\* The end of a pass.  A signal wakes conner if it is waiting, and is lost if
\* it is not.  (The loop index and both sets are set anew by the next pass;
\* they and line are cleared here so that equal states are equal.)
Asleep == {"wait", "timedwait"}

EndOfPass ==
    /\ mpc = "scan" /\ mi = nsys
    /\ cpc' = IF shouldsig /\ cpc \in Asleep THEN "copy" ELSE cpc
    /\ shouldsig' = FALSE
    /\ mpc' = "copy"
    /\ mi' = 0
    /\ rfs' = {}
    /\ xfs' = {}
    /\ line' = NoLine
    /\ UNCHANGED <<up, kernel, shared, fs, waiting, alreadyfailed>>

-----------------------------------------------------------------------------
(* conner.  An abort of main takes conner with it.                         *)

Alive == mpc # "aborted"

CopyNeedconn ==
    /\ Alive /\ cpc = "copy"
    /\ fs' = needconn
    /\ cpc' = "connect"
    /\ UNCHANGED <<up, kernel, shared, mainv, waiting, alreadyfailed, line>>

First(i) == i \in fs /\ \A j \in fs : i <= j

ConnectOk ==
    /\ Alive /\ cpc = "connect"
    /\ \E i \in Sys :
         /\ First(i)
         /\ up[i]
         /\ sst[sock[i]] = "idle"
         /\ sst' = [sst EXCEPT ![sock[i]] = "open"]
         /\ peer' = [peer EXCEPT ![sock[i]] = i]
    /\ cpc' = "publish"
    /\ UNCHANGED <<up, avail, phase, shared, mainv, fs, waiting,
                   alreadyfailed, line>>

\* The socket can be used for another attempt after a connect that failed.
ConnectFail ==
    /\ Alive /\ cpc = "connect"
    /\ \E i \in Sys :
         /\ First(i)
         /\ ~ (up[i] /\ sst[sock[i]] = "idle")
         /\ fs' = fs \ {i}
    /\ waiting' = TRUE
    /\ UNCHANGED <<up, kernel, shared, mainv, cpc, alreadyfailed, line>>

Publish ==
    /\ Alive /\ cpc = "publish"
    /\ \E i \in Sys :
         /\ First(i)
         /\ bigfs' = Watch(sock[i])
         /\ needconn' = Unwant(i)
         /\ fs' = fs \ {i}
    /\ cpc' = "connect"
    /\ UNCHANGED <<up, kernel, sock, nsys, lastsock, lines, sockfail, mainv,
                   waiting, alreadyfailed, line>>

\* Mutant: the wait never has a time limit.
TimedNever == FALSE

\* A connect has failed and the clock has not.
Timed == waiting /\ ~ alreadyfailed

\* After the last system of the copy: wait, for at most 10 seconds if Timed.
\* needconn is not looked at again.
BeginWait ==
    /\ Alive /\ cpc = "connect" /\ fs = {}
    /\ \/ /\ Timed
          /\ cpc' = "timedwait"
          /\ UNCHANGED alreadyfailed
       \/ /\ Timed /\ ClockMayFail
          /\ cpc' = "wait"
          /\ alreadyfailed' = TRUE
       \/ /\ ~ Timed
          /\ cpc' = "wait"
          /\ UNCHANGED alreadyfailed
    /\ UNCHANGED <<up, kernel, shared, mainv, fs, waiting, line>>

TimedOut ==
    /\ Alive /\ cpc = "timedwait"
    /\ cpc' = "copy"
    /\ UNCHANGED <<up, kernel, shared, mainv, fs, waiting, alreadyfailed, line>>

\* POSIX lets a wait on a condition variable return for no reason.
SpuriousWakeup ==
    /\ Alive /\ cpc = "wait"
    /\ cpc' = "copy"
    /\ UNCHANGED <<up, kernel, shared, mainv, fs, waiting, alreadyfailed, line>>

-----------------------------------------------------------------------------
(* The agents and the network between them and the collector.              *)

AgentToggle(i) ==
    /\ up' = [up EXCEPT ![i] = ~ @]
    /\ UNCHANGED <<kernel, shared, mainv, connv, line>>

\* A segment with one unit of the stream arrives.
Arrive(f) ==
    /\ sst[f] = "open" /\ avail[f] < MaxBuf
    /\ avail' = [avail EXCEPT ![f] = @ + 1]
    /\ UNCHANGED <<up, sst, peer, phase, shared, mainv, connv, line>>

\* The connection ends in order, or is reset; units already received stay
\* readable.
ConnectionLost(f) ==
    /\ sst[f] = "open"
    /\ \E s \in {"fin", "rst"} : sst' = [sst EXCEPT ![f] = s]
    /\ UNCHANGED <<up, peer, avail, phase, shared, mainv, connv, line>>

-----------------------------------------------------------------------------
Load    == AddConn \/ RefuseConn \/ StartConner
Consume == ConsumeRecord \/ ConsumeShort \/ ConsumeError
Clobber == ClobberClose \/ ClobberClear \/ ClobberSocket \/ ClobberDrop
             \/ ClobberNeed
Main    == Load \/ CopyBigfs \/ Select \/ Scan \/ Consume \/ Clobber \/ EndOfPass
Conner  == CopyNeedconn \/ ConnectOk \/ ConnectFail \/ Publish \/ BeginWait
             \/ TimedOut
Agents  == \/ \E i \in Sys : AgentToggle(i)
           \/ \E f \in Fd : Arrive(f) \/ ConnectionLost(f)

Next == Main \/ Conner \/ SpuriousWakeup \/ Agents

Spec == Init /\ [][Next]_vars

\* Both threads keep running: select and connect return in bounded time, and
\* a timed wait ends.  Nothing is assumed of the agents.
FairSpec == Spec /\ WF_vars(Main) /\ WF_vars(Conner)

-----------------------------------------------------------------------------
(* Properties.                                                             *)

\* Every variable keeps its type.
TypeOK ==
    /\ up \in [Sys -> BOOLEAN]
    /\ sst \in [Fd -> SockState]
    /\ peer \in [Fd -> Sys \union {NoSys}]
    /\ avail \in [Fd -> Nat]
    /\ phase \in [Fd -> 0 .. WIRE - 1]
    /\ sock \in [Sys -> Fd \union {NoFd}]
    /\ nsys \in 0 .. NHOSTS
    /\ lines \in 0 .. NHOSTS
    /\ nsys + lines <= NHOSTS
    /\ needconn \in SUBSET Sys
    /\ bigfs \in SUBSET Fd
    /\ lastsock \in Nat
    /\ sockfail \in 0 .. MaxSockFail
    /\ mpc \in {"load", "copy", "select", "scan", "consume", "close", "clear",
                "socket", "need", "aborted"}
    /\ mi \in 0 .. NHOSTS
    /\ rfs \in SUBSET Fd
    /\ xfs \in SUBSET Fd
    /\ shouldsig \in BOOLEAN
    /\ cpc \in {"unborn", "copy", "connect", "publish", "wait", "timedwait"}
    /\ fs \in SUBSET Sys
    /\ waiting \in BOOLEAN
    /\ alreadyfailed \in BOOLEAN
    /\ line \in [from : Sys \union {NoSys}, of : Sys \union {NoSys},
                 data : {"none", "record", "split", "stale"}]

Active == 0 .. nsys - 1
Clobbering(i) == mpc \in {"close", "clear", "socket", "need"} /\ mi = i

\* No system is forgotten and none is held twice: outside clobber, a system
\* is wanted by conner, watched by main, or dropped, and exactly one of them
\* (needconn and bigfs are updated in different critical sections).
Accounted ==
    \A i \in Active :
        ~ Clobbering(i) =>
            /\ i \in needconn \/ sock[i] \in bigfs \/ sock[i] = NoFd
            /\ i \in needconn => sock[i] \notin bigfs \union {NoFd}

\* The threads together implement the life cycle of module Links: a system
\* goes from conner's set to main's only by a connect, and from main's to
\* conner's only through a replaced descriptor.
LinkOf(i) ==
    IF i \notin Active THEN "absent"
    ELSE IF Clobbering(i) THEN "closing"
    ELSE IF i \in needconn THEN "down"
    ELSE IF sock[i] \in bigfs THEN "up"
    ELSE "dropped"

Link == INSTANCE Links WITH Systems <- Sys, link <- [i \in Sys |-> LinkOf(i)]

ImplementsLinks == Link!Spec

\* When main selects, every descriptor of its copy is still an open
\* connection of some system and within the range select looks at: one that
\* clobber closed would make select fail for ever, one beyond lastsock would
\* never be read.
SelectsOnConnections ==
    mpc = "select" =>
        \A f \in rfs : /\ sst[f] \in Connected
                       /\ f <= lastsock
                       /\ \E i \in Active : sock[i] = f

\* sys[i].sock is written by clobber outside the mutex; conner never has a
\* system in hand, or still to come in its copy, that main is clobbering.
NoSocketRace == \A i \in fs : ~ Clobbering(i)

\* recv() in consume is called on a blocking socket: it never waits, because
\* what select reported is still there when the loop reaches the system.
RecvNeverWaits ==
    mpc = "consume" =>
        /\ sock[mi] # NoFd
        /\ avail[sock[mi]] > 0 \/ sst[sock[mi]] \in {"fin", "rst"}

\* A record is reported under the name of the system that sent it, and is
\* one record, not the end of one and the beginning of the next: descriptor
\* numbers are reused and select's result is used after some were replaced.
RecordsAttributed ==
    /\ line.data = "record" => line.from = line.of
    /\ line.data # "split"

\* A connection that is lost is noticed: main clobbers it.
LostLink(i) ==
    i \in Active /\ sock[i] \in bigfs /\ sst[sock[i]] \in {"fin", "rst"}
LossNoticed == \A i \in Sys : LostLink(i) ~> (~ LostLink(i) \/ ~ Alive)

\* Once a connect has failed, conner retries every 10 seconds, and a system
\* whose agent stays up is connected however its signal was lost (unless the
\* clock failed).
Retried ==
    \A i \in Sys :
        (i \in needconn /\ waiting /\ ~ alreadyfailed)
            ~> (i \notin needconn \/ ~ up[i] \/ alreadyfailed \/ ~ Alive)

-----------------------------------------------------------------------------
(* The invariant that makes the ones above inductive.                      *)

\* A descriptor belongs to one system at most, and lastsock covers them all.
Owners ==
    /\ \A i \in Sys : i \notin Active => sock[i] = NoFd
    /\ \A i, j \in Sys : i # j /\ sock[i] # NoFd => sock[i] # sock[j]
    /\ \A i \in Sys : sock[i] <= lastsock

\* A system's descriptor is a socket, except while clobber has it closed, and
\* a connected one leads to the system's agent.
Sockets ==
    /\ \A i \in Sys :
         sock[i] # NoFd /\ ~ (mpc \in {"clear", "socket"} /\ mi = i) =>
            /\ sst[sock[i]] \in {"idle"} \union Connected
            /\ sst[sock[i]] \in Connected => peer[sock[i]] = i
    /\ mpc = "load" => sst[ConfFd] = "file"

\* Only connections have something to read, and main is between two records
\* of each, except of the one it is about to close.
Streams ==
    \A f \in Fd :
        /\ sst[f] \notin Connected => avail[f] = 0 /\ phase[f] = 0
        /\ phase[f] # 0 => mpc = "close" /\ f = sock[mi]

\* What conner will connect is an unconnected socket main does not touch; the
\* one it has just connected is still in needconn until it is published.
Wanted ==
    /\ \A i \in needconn :
         /\ i \in Active
         /\ sock[i] # NoFd
         /\ sock[i] \notin bigfs
         /\ ~ Clobbering(i)
         /\ sst[sock[i]] = "idle" \/ (cpc = "publish" /\ First(i))
    /\ fs \subseteq needconn
    /\ cpc = "publish" => \E i \in fs : First(i) /\ sst[sock[i]] \in Connected

\* What main watches is connected, except while clobber has it closed.
Watched ==
    /\ \A f \in bigfs :
         /\ \E i \in Active : sock[i] = f
         /\ sst[f] \in Connected \/ (mpc = "clear" /\ f = sock[mi])
    /\ mpc \in {"consume", "close", "clear"} => sock[mi] \in bigfs
    /\ mpc \in {"socket", "need"} => sock[mi] \notin bigfs \union {NoFd}
    /\ mpc = "need" => sst[sock[mi]] = "idle"

\* What the rest of the pass will act on was watched when bigfs was copied,
\* and still is.
Ready(f) == avail[f] > 0 \/ sst[f] \in {"fin", "rst"}
Ahead(j) == j > mi \/ (j = mi /\ mpc \in {"scan", "consume"})
Passes ==
    /\ mpc = "select" => rfs \subseteq bigfs /\ xfs \subseteq bigfs
    /\ mpc \in {"scan", "consume", "close", "clear", "socket", "need"} =>
         \A j \in Active :
            Ahead(j) /\ sock[j] \in rfs \union xfs =>
                /\ sock[j] \in bigfs
                /\ sock[j] \in rfs => Ready(sock[j])
    /\ mpc = "consume" => sock[mi] \in rfs

\* Where the two threads can be.
Control ==
    /\ mpc \in {"consume", "close", "clear", "socket", "need"} => mi < nsys
    /\ mpc = "scan" => mi <= nsys
    /\ mpc \in {"load", "copy", "select"} => mi = 0
    /\ mpc = "load" => bigfs = {} /\ cpc = "unborn"
    /\ cpc = "unborn" => fs = {}

\* Together: every step of main and of conner keeps the descriptors, the two
\* sets and the passes consistent, whatever the other thread is doing.
IInv ==
    /\ TypeOK
    /\ Owners
    /\ Sockets
    /\ Streams
    /\ Wanted
    /\ Watched
    /\ Passes
    /\ Control
    /\ Accounted
    /\ RecordsAttributed

-----------------------------------------------------------------------------
(* Statements of the documentation and of messages that the code refutes.  *)

\* "connects to agents specified in its configuration file": a system whose
\* agent stays up does not stay without connection.
AgentsConnected ==
    \A i \in Sys : i \in needconn ~> (i \notin needconn \/ ~ up[i])
=============================================================================
