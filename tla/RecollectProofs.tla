--------------------------- MODULE RecollectProofs ---------------------------
(***************************************************************************)
(* Proofs of the safety properties of modules Recollect and Flows, for     *)
(* every value of their constants, and of the refinement of module Links.  *)
(*                                                                         *)
(* There is one lemma for each part of IInv: every step of Next preserves  *)
(* it.  A lemma has one step for each action that can disturb its part and *)
(* one for all the others, which leave the variables it is about alone.    *)
(***************************************************************************)
EXTENDS Recollect, Flows, WellFoundedInduction, TLAPS

\* The one-line updates and tests of the shared sets are always expanded.
USE DEF Highest, Want, Unwant, Watch, Unwatch, Whole, Timed

\* While main consumes or clobbers a system, the index is one of a system
\* and the table holds a descriptor for it.
LEMMA CurrentSocket ==
    ASSUME IInv, mpc \in {"consume", "close", "clear", "socket", "need"}
    PROVE  mi \in Active /\ mi \in Sys /\ sock[mi] \in Fd
  <1>1. mi \in Active /\ mi \in Sys
    BY RecollectAssumption DEF IInv, TypeOK, Control, Active, Sys
  <1>2. sock[mi] \in Fd
    BY <1>1 DEF IInv, TypeOK, Watched, NoFd
  <1> QED BY <1>1, <1>2

\* What needconn contains are systems with a descriptor.
LEMMA WantedSocket ==
    ASSUME IInv, NEW i \in needconn
    PROVE  i \in Active /\ i \in Sys /\ sock[i] \in Fd
  BY DEF IInv, TypeOK, Wanted, NoFd

\* Every step of the collector keeps the types.  That recv, close and
\* FD_SET are called with a descriptor and never with -1 is CurrentSocket and
\* WantedSocket.
LEMMA TypeStep == IInv /\ [Next]_vars => TypeOK'
  <1> SUFFICES ASSUME IInv, [Next]_vars PROVE TypeOK'
    OBVIOUS
  <1>0. TypeOK
    BY DEF IInv
  <1> USE RecollectAssumption
  <1>1. CASE AddConn
    <2>1. nsys \in Sys /\ nsys' \in 0 .. NHOSTS /\ lines' \in 0 .. NHOSTS
             /\ nsys' + lines' <= NHOSTS
      BY <1>0, <1>1 DEF TypeOK, AddConn, Sys
    <2>2. PICK f \in Fd : /\ NewSocket(f)
                          /\ sock' = [sock EXCEPT ![nsys] = f]
                          /\ lastsock' = IF f > lastsock THEN f ELSE lastsock
      BY <1>1 DEF AddConn
    <2>4. sst' \in [Fd -> SockState]
      BY <1>0, <2>2 DEF TypeOK, NewSocket, SockState
    <2>5. sock' \in [Sys -> Fd \union {NoFd}]
      BY <1>0, <2>2 DEF TypeOK
    <2>6. lastsock' \in Nat
      BY <1>0, <2>2 DEF TypeOK, Fd, ConfFd
    <2>3. needconn' \in SUBSET Sys
      BY <1>0, <1>1, <2>1 DEF TypeOK, AddConn
    <2> QED
      BY <1>0, <1>1, <2>1, <2>2, <2>3, <2>4, <2>5, <2>6
      DEF TypeOK, AddConn, NewSocket, mainv, connv
  <1>2. CASE RefuseConn
    BY <1>0, <1>2 DEF TypeOK, RefuseConn, SocketFails, kernel, mainv, connv
  <1>3. CASE StartConner
    <2>1. sst' \in [Fd -> SockState]
      BY <1>0, <1>3 DEF TypeOK, StartConner, SockState
    <2> QED BY <1>0, <1>3, <2>1 DEF TypeOK, StartConner, shared
  <1>4. CASE CopyBigfs
    BY <1>0, <1>4 DEF TypeOK, CopyBigfs, kernel, shared, connv
  <1>5. CASE Select
    <2>1. rfs' \in SUBSET Fd
      BY <1>0, <1>5 DEF TypeOK, Select, Readable
    <2>2. xfs' \in SUBSET Fd /\ mpc' \in {"scan", "copy"}
      BY <1>0, <1>5 DEF TypeOK, Select
    <2> QED BY <1>0, <1>5, <2>1, <2>2 DEF TypeOK, Select, kernel, shared, connv
  <1>6. CASE Scan
    <2>1. mi' \in 0 .. NHOSTS /\ mpc' \in {"scan", "consume", "close", "aborted"}
      BY <1>0, <1>6 DEF TypeOK, Scan
    <2> QED BY <1>0, <1>6, <2>1 DEF TypeOK, Scan, kernel, shared, connv
  <1>7. CASE ConsumeRecord
    <2>0. mi \in Sys /\ sock[mi] \in Fd
      BY <1>7, CurrentSocket DEF ConsumeRecord
    <2>1. avail' \in [Fd -> Nat]
      BY <1>0, <1>7, <2>0 DEF TypeOK, ConsumeRecord
    <2>2. line' \in [from : Sys \union {NoSys}, of : Sys \union {NoSys},
                     data : {"none", "record", "split", "stale"}]
      BY <1>0, <1>7, <2>0 DEF TypeOK, ConsumeRecord, Report
    <2>3. mi' \in 0 .. NHOSTS
      BY <1>0, <1>7, <2>0 DEF TypeOK, ConsumeRecord, Sys
    <2> QED
      BY <1>0, <1>7, <2>1, <2>2, <2>3 DEF TypeOK, ConsumeRecord, shared, connv
  <1>8. CASE ConsumeShort
    <2>0. sock[mi] \in Fd
      BY <1>8, CurrentSocket DEF ConsumeShort
    <2>1. avail' \in [Fd -> Nat]
      BY <1>0, <1>8, <2>0 DEF TypeOK, ConsumeShort
    <2>2. (phase[sock[mi]] + avail[sock[mi]]) % WIRE \in 0 .. WIRE - 1
      BY <1>0, <2>0 DEF TypeOK
    <2>3. phase' \in [Fd -> 0 .. WIRE - 1]
      BY <1>0, <1>8, <2>0, <2>2 DEF TypeOK, ConsumeShort
    <2> QED BY <1>0, <1>8, <2>1, <2>3 DEF TypeOK, ConsumeShort, shared, connv
  <1>9. CASE ConsumeError
    <2>0. mi \in Sys /\ sock[mi] \in Fd
      BY <1>9, CurrentSocket DEF ConsumeError
    <2>1. sst' \in [Fd -> SockState]
      BY <1>0, <1>9, <2>0 DEF TypeOK, ConsumeError, SockState
    <2>2. line' \in [from : Sys \union {NoSys}, of : Sys \union {NoSys},
                     data : {"none", "record", "split", "stale"}]
      BY <1>9, <2>0 DEF ConsumeError
    <2>3. mi' \in 0 .. NHOSTS
      BY <1>0, <1>9, <2>0 DEF TypeOK, ConsumeError, Sys
    <2> QED
      BY <1>0, <1>9, <2>1, <2>2, <2>3 DEF TypeOK, ConsumeError, shared, connv
  <1>10. CASE ClobberClose
    <2>1. sst' \in [Fd -> SockState] /\ peer' \in [Fd -> Sys \union {NoSys}]
      BY <1>0, <1>10 DEF TypeOK, ClobberClose, SockState
    <2>2. avail' \in [Fd -> Nat]
      BY <1>0, <1>10 DEF TypeOK, ClobberClose
    <2>3. phase' \in [Fd -> 0 .. WIRE - 1]
      <3>1. 0 \in 0 .. WIRE - 1
        OBVIOUS
      <3> QED BY <1>0, <1>10, <3>1 DEF TypeOK, ClobberClose
    <2> QED
      BY <1>0, <1>10, <2>1, <2>2, <2>3 DEF TypeOK, ClobberClose, shared, connv
  <1>11. CASE ClobberClear
    BY <1>0, <1>11 DEF TypeOK, ClobberClear, kernel, connv
  <1>12. CASE ClobberSocket
    <2>1. PICK f \in Fd : /\ NewSocket(f)
                          /\ sock' = [sock EXCEPT ![mi] = f]
                          /\ lastsock' = IF f > lastsock THEN f ELSE lastsock
      BY <1>12 DEF ClobberSocket
    <2>2. sst' \in [Fd -> SockState]
      BY <1>0, <2>1 DEF TypeOK, NewSocket, SockState
    <2>3. sock' \in [Sys -> Fd \union {NoFd}]
      BY <1>0, <2>1 DEF TypeOK
    <2>4. lastsock' \in Nat
      BY <1>0, <2>1 DEF TypeOK, Fd, ConfFd
    <2> QED
      BY <1>0, <1>12, <2>1, <2>2, <2>3, <2>4
      DEF TypeOK, ClobberSocket, NewSocket, connv
  <1>13. CASE ClobberDrop
    <2>0. mi \in Sys
      BY <1>13, CurrentSocket DEF ClobberDrop
    <2>1. sock' \in [Sys -> Fd \union {NoFd}] /\ mi' \in 0 .. NHOSTS
             /\ sockfail' \in 0 .. MaxSockFail
      BY <1>0, <1>13, <2>0 DEF TypeOK, ClobberDrop, SocketFails, Sys
    <2> QED BY <1>0, <1>13, <2>1 DEF TypeOK, ClobberDrop, kernel, connv
  <1>14. CASE ClobberNeed
    <2>0. mi \in Sys
      BY <1>14, CurrentSocket DEF ClobberNeed
    <2>1. needconn' \in SUBSET Sys /\ mi' \in 0 .. NHOSTS
      BY <1>0, <1>14, <2>0 DEF TypeOK, ClobberNeed, Sys
    <2> QED BY <1>0, <1>14, <2>1 DEF TypeOK, ClobberNeed, kernel, connv
  <1>15. CASE EndOfPass
    <2>1. line' \in [from : Sys \union {NoSys}, of : Sys \union {NoSys},
                     data : {"none", "record", "split", "stale"}]
      BY <1>15 DEF EndOfPass, NoLine
    <2>2. cpc' \in {"unborn", "copy", "connect", "publish", "wait", "timedwait"}
      BY <1>0, <1>15 DEF TypeOK, EndOfPass
    <2>3. mi' \in 0 .. NHOSTS
      BY <1>15 DEF EndOfPass
    <2> QED
      BY <1>0, <1>15, <2>1, <2>2, <2>3 DEF TypeOK, EndOfPass, kernel, shared
  <1>16. CASE CopyNeedconn
    BY <1>0, <1>16 DEF TypeOK, CopyNeedconn, kernel, shared, mainv
  <1>17. CASE ConnectOk
    <2>1. PICK i \in Sys : /\ sst' = [sst EXCEPT ![sock[i]] = "open"]
                           /\ peer' = [peer EXCEPT ![sock[i]] = i]
      BY <1>17 DEF ConnectOk
    <2>2. sst' \in [Fd -> SockState]
      BY <1>0, <2>1 DEF TypeOK, SockState
    <2>3. peer' \in [Fd -> Sys \union {NoSys}]
      BY <1>0, <2>1 DEF TypeOK
    <2> QED BY <1>0, <1>17, <2>2, <2>3 DEF TypeOK, ConnectOk, shared, mainv
  <1>18. CASE ConnectFail
    BY <1>0, <1>18 DEF TypeOK, ConnectFail, kernel, shared, mainv
  <1>19. CASE Publish
    <2>1. bigfs' \in SUBSET Fd /\ needconn' \in SUBSET Sys /\ fs' \in SUBSET Sys
      <3> PICK i \in Sys : First(i) /\ bigfs' = bigfs \union {sock[i]}
                             /\ needconn' = needconn \ {i} /\ fs' = fs \ {i}
        BY <1>19 DEF Publish
      <3>1. i \in needconn
        BY DEF IInv, Wanted, First
      <3>2. sock[i] \in Fd
        BY <3>1, WantedSocket
      <3> QED BY <1>0, <3>2 DEF TypeOK
    <2> QED BY <1>0, <1>19, <2>1 DEF TypeOK, Publish, kernel, mainv
  <1>20. CASE BeginWait
    <2>1. cpc' \in {"wait", "timedwait"} /\ alreadyfailed' \in BOOLEAN
      BY <1>0, <1>20 DEF TypeOK, BeginWait
    <2>2. UNCHANGED <<up, kernel, shared, mainv, fs, waiting, line>>
      BY <1>20 DEF BeginWait
    <2> QED BY <1>0, <2>1, <2>2 DEF TypeOK, kernel, shared, mainv
  <1>21. CASE TimedOut
    BY <1>0, <1>21 DEF TypeOK, TimedOut, kernel, shared, mainv
  <1>22. CASE SpuriousWakeup
    BY <1>0, <1>22 DEF TypeOK, SpuriousWakeup, kernel, shared, mainv
  <1>23. ASSUME NEW i \in Sys, AgentToggle(i) PROVE TypeOK'
    BY <1>0, <1>23 DEF TypeOK, AgentToggle, kernel, shared, mainv, connv
  <1>24. ASSUME NEW f \in Fd, Arrive(f) PROVE TypeOK'
    <2>1. avail' \in [Fd -> Nat]
      BY <1>0, <1>24 DEF TypeOK, Arrive
    <2> QED BY <1>0, <1>24, <2>1 DEF TypeOK, Arrive, shared, mainv, connv
  <1>25. ASSUME NEW f \in Fd, ConnectionLost(f) PROVE TypeOK'
    <2>1. sst' \in [Fd -> SockState]
      BY <1>0, <1>25 DEF TypeOK, ConnectionLost, SockState
    <2> QED BY <1>0, <1>25, <2>1 DEF TypeOK, ConnectionLost, shared, mainv, connv
  <1>26. CASE UNCHANGED vars
    BY <1>0, <1>26 DEF TypeOK, vars, kernel, shared, mainv, connv
  <1> QED
    BY <1>1, <1>2, <1>3, <1>4, <1>5, <1>6, <1>7, <1>8, <1>9, <1>10, <1>11,
       <1>12, <1>13, <1>14, <1>15, <1>16, <1>17, <1>18, <1>19, <1>20, <1>21,
       <1>22, <1>23, <1>24, <1>25, <1>26
    DEF Next, Main, Load, Consume, Clobber, Conner, Agents
\* Descriptors stay distinct: socket() returns a free one, and only the
\* system being clobbered refers to a free descriptor.
LEMMA OwnersStep == IInv /\ [Next]_vars => Owners'
  <1> SUFFICES ASSUME IInv, [Next]_vars PROVE Owners'
    OBVIOUS
  <1>0. TypeOK /\ Owners
    BY DEF IInv
  <1> USE RecollectAssumption
  <1>1. CASE AddConn
    <2>1. PICK f \in Fd : /\ Lowest(f)
                          /\ sock' = [sock EXCEPT ![nsys] = f]
                          /\ lastsock' = IF f > lastsock THEN f ELSE lastsock
      BY <1>1 DEF AddConn
    <2>2. nsys \in Sys /\ nsys \notin Active /\ Active' = Active \union {nsys}
      BY <1>0, <1>1 DEF TypeOK, AddConn, Sys, Active
    <2>3. \A i \in Sys : sock[i] # f
      <3>1. \A i \in Sys : sock[i] # NoFd => sst[sock[i]] # "free"
        BY <1>1 DEF IInv, Sockets, Connected, AddConn
      <3> QED BY <2>1, <3>1 DEF Lowest, Fd, ConfFd, NoFd
    <2>4. (\A i \in Sys : i \notin Active => sock[i] = NoFd)'
      BY <1>0, <2>1, <2>2 DEF Owners, TypeOK
    <2>5. (\A i, j \in Sys : i # j /\ sock[i] # NoFd => sock[i] # sock[j])'
      BY <1>0, <2>1, <2>2, <2>3 DEF Owners, TypeOK
    <2>6. (\A i \in Sys : sock[i] <= lastsock)'
      <3>1. f <= lastsock' /\ lastsock <= lastsock' /\ lastsock' \in Nat
        BY <1>0, <2>1 DEF TypeOK, Fd, ConfFd
      <3>2. SUFFICES ASSUME NEW i \in Sys PROVE sock'[i] <= lastsock'
        OBVIOUS
      <3>3. sock'[i] = f \/ sock'[i] = sock[i]
        BY <1>0, <2>1 DEF TypeOK
      <3>4. sock[i] \in Int /\ sock[i] <= lastsock
        BY <1>0 DEF TypeOK, Owners, Fd, ConfFd, NoFd
      <3> QED BY <1>0, <3>1, <3>3, <3>4 DEF TypeOK
    <2> QED BY <2>4, <2>5, <2>6 DEF Owners
  <1>2. CASE ClobberSocket
    <2>1. PICK f \in Fd : /\ Lowest(f)
                          /\ sock' = [sock EXCEPT ![mi] = f]
                          /\ lastsock' = IF f > lastsock THEN f ELSE lastsock
      BY <1>2 DEF ClobberSocket
    <2>2. mi \in Sys /\ mi \in Active /\ Active' = Active
      BY <1>2, CurrentSocket DEF ClobberSocket, Active
    <2>3. \A i \in Sys : i # mi => sock[i] # f
      <3>1. \A i \in Sys : i # mi /\ sock[i] # NoFd => sst[sock[i]] # "free"
        BY <1>2 DEF IInv, Sockets, Connected, ClobberSocket
      <3> QED BY <2>1, <3>1 DEF Lowest, Fd, ConfFd, NoFd
    <2>4. (\A i \in Sys : i \notin Active => sock[i] = NoFd)'
      BY <1>0, <2>1, <2>2 DEF Owners, TypeOK
    <2>5. (\A i, j \in Sys : i # j /\ sock[i] # NoFd => sock[i] # sock[j])'
      BY <1>0, <2>1, <2>2, <2>3 DEF Owners, TypeOK
    <2>6. (\A i \in Sys : sock[i] <= lastsock)'
      <3>1. f <= lastsock' /\ lastsock <= lastsock' /\ lastsock' \in Nat
        BY <1>0, <2>1 DEF TypeOK, Fd, ConfFd
      <3>2. SUFFICES ASSUME NEW i \in Sys PROVE sock'[i] <= lastsock'
        OBVIOUS
      <3>3. sock'[i] = f \/ sock'[i] = sock[i]
        BY <1>0, <2>1 DEF TypeOK
      <3>4. sock[i] \in Int /\ sock[i] <= lastsock
        BY <1>0 DEF TypeOK, Owners, Fd, ConfFd, NoFd
      <3> QED BY <1>0, <3>1, <3>3, <3>4 DEF TypeOK
    <2> QED BY <2>4, <2>5, <2>6 DEF Owners
  <1>3. CASE ClobberDrop
    <2>1. mi \in Sys /\ Active' = Active
      BY <1>3, CurrentSocket DEF ClobberDrop, Active
    <2> QED
      BY <1>0, <1>3, <2>1 DEF Owners, TypeOK, ClobberDrop, Fd, ConfFd, NoFd
  <1>4. CASE UNCHANGED <<sock, nsys, lastsock>>
    BY <1>0, <1>4 DEF Owners, Active
  <1>5. [Next]_vars => AddConn \/ ClobberSocket \/ ClobberDrop
                         \/ UNCHANGED <<sock, nsys, lastsock>>
    BY DEF Next, Main, Load, Consume, Clobber, Conner, Agents, RefuseConn,
           StartConner, CopyBigfs, Select, Scan, ConsumeRecord, ConsumeShort,
           ConsumeError, ClobberClose, ClobberClear, ClobberNeed, EndOfPass,
           CopyNeedconn, ConnectOk, ConnectFail, Publish, BeginWait, TimedOut,
           SpuriousWakeup, AgentToggle, Arrive, ConnectionLost, vars, shared
  <1> QED BY <1>1, <1>2, <1>3, <1>4, <1>5

\* A system's descriptor stays a socket of its own agent: nothing but
\* clobber closes it, and conner connects it to its own system.
LEMMA SocketsStep == IInv /\ [Next]_vars => Sockets'
  <1> SUFFICES ASSUME IInv, [Next]_vars PROVE Sockets'
    OBVIOUS
  <1>0. TypeOK /\ Owners /\ Sockets
    BY DEF IInv
  <1> USE RecollectAssumption
  <1>1. CASE AddConn
    <2>1. PICK f \in Fd : /\ Lowest(f)
                          /\ NewSocket(f)
                          /\ sock' = [sock EXCEPT ![nsys] = f]
      BY <1>1 DEF AddConn
    <2>2. nsys \in Sys /\ f # ConfFd
      BY <1>0, <1>1, <2>1 DEF TypeOK, AddConn, Sys, Sockets, Lowest
    <2> QED
      BY <1>0, <1>1, <2>1, <2>2
      DEF Sockets, TypeOK, AddConn, Lowest, NewSocket, Connected, mainv
  <1>2. CASE StartConner
    BY <1>0, <1>2 DEF Sockets, TypeOK, StartConner, Connected, shared
  <1>3. CASE ClobberClose
    <2>1. mi \in Sys /\ sock[mi] \in Fd
      BY <1>3, CurrentSocket DEF ClobberClose
    <2>2. \A i \in Sys : i # mi /\ sock[i] # NoFd =>
             sock[i] \in Fd /\ sst'[sock[i]] = sst[sock[i]]
                            /\ peer'[sock[i]] = peer[sock[i]]
      BY <1>0, <1>3, <2>1 DEF Owners, TypeOK, ClobberClose
    <2> QED BY <1>0, <1>3, <2>2 DEF Sockets, ClobberClose, shared
  <1>4. CASE ClobberSocket
    <2>1. PICK f \in Fd : /\ Lowest(f)
                          /\ NewSocket(f)
                          /\ sock' = [sock EXCEPT ![mi] = f]
      BY <1>4 DEF ClobberSocket
    <2>2. mi \in Sys
      BY <1>4, CurrentSocket DEF ClobberSocket
    <2> QED
      BY <1>0, <1>4, <2>1, <2>2
      DEF Sockets, TypeOK, ClobberSocket, Lowest, NewSocket, Connected
  <1>5. CASE ClobberDrop
    BY <1>0, <1>5 DEF Sockets, TypeOK, ClobberDrop, kernel
  <1>6. CASE ConnectOk
    <2>1. PICK i \in Sys : /\ sst' = [sst EXCEPT ![sock[i]] = "open"]
                           /\ peer' = [peer EXCEPT ![sock[i]] = i]
                           /\ First(i)
      BY <1>6 DEF ConnectOk
    <2>2. sock[i] \in Fd /\ sst[sock[i]] # "file"
      <3>1. i \in needconn
        BY <2>1 DEF IInv, Wanted, First
      <3>2. sock[i] \in Fd
        BY <3>1, WantedSocket
      <3>3. sst[sock[i]] # "file"
        BY <3>1, <3>2 DEF IInv, Wanted, Sockets, Connected, Fd, ConfFd, NoFd, Clobbering
      <3> QED BY <3>2, <3>3
    <2> QED
      BY <1>0, <1>6, <2>1, <2>2
      DEF Sockets, Owners, TypeOK, ConnectOk, Connected, shared, mainv, ConfFd
  <1>7. CASE ConsumeError
    BY <1>0, <1>7 DEF Sockets, TypeOK, ConsumeError, Connected, shared
  <1>8. ASSUME NEW f \in Fd, ConnectionLost(f) PROVE Sockets'
    BY <1>0, <1>8
    DEF Sockets, TypeOK, ConnectionLost, Connected, shared, mainv
  <1>9. CASE ClobberClear
    BY <1>0, <1>9 DEF Sockets, ClobberClear, kernel
  <1>10. CASE /\ UNCHANGED <<sock, sst, peer>>
              /\ mpc' # "load" \/ mpc = "load"
              /\ mpc \notin {"clear", "socket"}
    BY <1>0, <1>10 DEF Sockets
  <1>11. [Next]_vars =>
           \/ AddConn \/ StartConner \/ ClobberClose \/ ClobberSocket
           \/ ClobberDrop \/ ConnectOk \/ ConsumeError \/ ClobberClear
           \/ \E f \in Fd : ConnectionLost(f)
           \/ /\ UNCHANGED <<sock, sst, peer>>
              /\ UNCHANGED <<mpc, mi>> 
           \/ /\ UNCHANGED <<sock, sst, peer>>
              /\ mpc' # "load" \/ mpc = "load"
              /\ mpc \notin {"clear", "socket"}
    BY DEF Next, Main, Load, Consume, Clobber, Conner, Agents, RefuseConn,
           CopyBigfs, Select, Scan, ConsumeRecord, ConsumeShort,
           ClobberNeed, EndOfPass, CopyNeedconn, ConnectFail, Publish,
           BeginWait, TimedOut, SpuriousWakeup, AgentToggle, Arrive,
           vars, shared, kernel, mainv
  <1>12. CASE UNCHANGED <<sock, sst, peer, mpc, mi>>
    BY <1>0, <1>12 DEF Sockets
  <1> QED BY <1>1, <1>2, <1>3, <1>4, <1>5, <1>6, <1>7, <1>8, <1>9, <1>10, <1>11,
             <1>12
\* Main stays between two records of every connection it will go on reading:
\* a short read leads to close.
LEMMA StreamsStep == IInv /\ [Next]_vars => Streams'
  <1> SUFFICES ASSUME IInv, [Next]_vars PROVE Streams'
    OBVIOUS
  <1>0. TypeOK /\ Streams
    BY DEF IInv
  <1> USE RecollectAssumption
  <1>1. CASE AddConn
    BY <1>0, <1>1 DEF Streams, TypeOK, AddConn, NewSocket, Lowest, Connected, mainv
  <1>2. CASE StartConner
    <2>1. sst[ConfFd] \notin Connected
      BY <1>2 DEF IInv, Sockets, StartConner, Connected
    <2> QED
      BY <1>0, <1>2, <2>1 DEF Streams, TypeOK, StartConner, Connected, shared
  <1>3. CASE ConsumeRecord
    <2>1. sock[mi] \in Fd /\ sst[sock[mi]] \in Connected
      BY <1>3, CurrentSocket DEF IInv, Watched, ConsumeRecord
    <2> QED BY <1>0, <1>3, <2>1 DEF Streams, TypeOK, ConsumeRecord, shared
  <1>4. CASE ConsumeShort
    <2>1. sock[mi] \in Fd /\ sst[sock[mi]] \in Connected
      BY <1>4, CurrentSocket DEF IInv, Watched, ConsumeShort
    <2> QED BY <1>0, <1>4, <2>1 DEF Streams, TypeOK, ConsumeShort, shared
  <1>5. CASE ConsumeError
    BY <1>0, <1>5 DEF Streams, TypeOK, ConsumeError, Connected, shared
  <1>6. CASE ClobberClose
    BY <1>0, <1>6 DEF Streams, TypeOK, ClobberClose, Connected, shared
  <1>7. CASE ClobberSocket
    BY <1>0, <1>7 DEF Streams, TypeOK, ClobberSocket, NewSocket, Lowest, Connected
  <1>8. CASE ConnectOk
    BY <1>0, <1>8 DEF Streams, TypeOK, ConnectOk, Connected, shared, mainv
  <1>9. ASSUME NEW f \in Fd, Arrive(f) PROVE Streams'
    BY <1>0, <1>9 DEF Streams, TypeOK, Arrive, Connected, shared, mainv
  <1>10. ASSUME NEW f \in Fd, ConnectionLost(f) PROVE Streams'
    BY <1>0, <1>10 DEF Streams, TypeOK, ConnectionLost, Connected, shared, mainv
  <1>11. CASE /\ UNCHANGED <<sst, avail, phase>>
              /\ mpc # "close" \/ UNCHANGED <<mpc, mi, sock>>
    BY <1>0, <1>11 DEF Streams
  <1>12. [Next]_vars =>
           \/ AddConn \/ StartConner \/ Consume \/ ClobberClose \/ ClobberSocket
           \/ ConnectOk \/ \E f \in Fd : Arrive(f) \/ ConnectionLost(f)
           \/ /\ UNCHANGED <<sst, avail, phase>>
              /\ mpc # "close" \/ UNCHANGED <<mpc, mi, sock>>
    BY DEF Next, Main, Load, Clobber, Conner, Agents, RefuseConn,
           CopyBigfs, Select, Scan, ClobberClear, ClobberDrop,
           ClobberNeed, EndOfPass, CopyNeedconn, ConnectFail, Publish,
           BeginWait, TimedOut, SpuriousWakeup, AgentToggle,
           vars, shared, kernel, mainv
  <1> QED BY <1>1, <1>2, <1>3, <1>4, <1>5, <1>6, <1>7, <1>8, <1>9, <1>10, <1>11,
             <1>12 DEF Consume

\* conner's systems stay out of main's hands: main clobbers only what it
\* watches, and what it watches is not in needconn.
LEMMA WantedStep == IInv /\ [Next]_vars => Wanted'
  <1> SUFFICES ASSUME IInv, [Next]_vars PROVE Wanted'
    OBVIOUS
  <1>0. TypeOK /\ Owners /\ Sockets /\ Wanted /\ Watched /\ Control
    BY DEF IInv
  <1> USE RecollectAssumption
  <1>1. CASE AddConn
    <2>1. PICK f \in Fd : /\ Lowest(f)
                          /\ NewSocket(f)
                          /\ sock' = [sock EXCEPT ![nsys] = f]
      BY <1>1 DEF AddConn
    <2>2. nsys \in Sys /\ nsys \notin Active /\ Active' = Active \union {nsys}
             /\ bigfs' = {} /\ fs' = {} /\ cpc' = cpc /\ cpc = "unborn"
             /\ mpc' = mpc
      BY <1>0, <1>1 DEF TypeOK, AddConn, Sys, Active, Control, connv, mainv
    <2>3. ASSUME NEW i \in needconn
          PROVE  sock[i] \in Fd /\ sock'[i] = sock[i] /\ sst'[sock[i]] = "idle"
      <3>1. i \in Active /\ sock[i] \in Fd /\ sst[sock[i]] = "idle"
        BY <1>0, <2>2, WantedSocket DEF Wanted
      <3>2. i # nsys /\ f # sock[i]
        BY <2>1, <2>2, <3>1 DEF Lowest
      <3> QED BY <1>0, <2>1, <3>1, <3>2 DEF TypeOK, NewSocket
    <2>4. sock'[nsys] = f /\ sst'[f] = "idle"
      BY <1>0, <2>1, <2>2 DEF TypeOK, NewSocket
    <2>5. needconn' = needconn \union {nsys} /\ \A i \in Int : ~ Clobbering(i)'
      BY <1>1 DEF AddConn, Clobbering, mainv
    <2>6. f # NoFd /\ \A i \in needconn : sock[i] # NoFd /\ i \in Active
      BY <1>0 DEF Wanted, Fd, ConfFd, NoFd
    <2>7. ASSUME NEW i \in needconn'
          PROVE  /\ i \in Active' /\ sock'[i] # NoFd /\ sock'[i] \notin bigfs'
                 /\ ~ Clobbering(i)' /\ sst'[sock'[i]] = "idle"
      <3>1. CASE i = nsys
        BY <2>2, <2>4, <2>5, <2>6, <3>1 DEF Sys
      <3>2. CASE i \in needconn
        BY <1>0, <2>2, <2>3, <2>5, <2>6, <3>2 DEF TypeOK, Sys
      <3> QED BY <2>5, <3>1, <3>2
    <2> QED BY <2>2, <2>7 DEF Wanted
  <1>2. CASE StartConner
    <2>1. /\ fs = {} /\ cpc' \in {"copy", "unborn"} /\ mpc' \in {"copy", "aborted"}
          /\ UNCHANGED <<sock, nsys, needconn, bigfs, fs>>
      BY <1>0, <1>2 DEF Control, StartConner, shared
    <2>2. \A i \in needconn : sst[sock[i]] = "idle" => sst'[sock[i]] = "idle"
      <3>1. sst[ConfFd] = "file"
        BY <1>0, <1>2 DEF Sockets, StartConner
      <3> QED BY <1>0, <1>2, <3>1 DEF TypeOK, StartConner
    <2> QED
      BY <1>0, <1>2, <2>1, <2>2 DEF Wanted, Control, StartConner, Active, Clobbering
  <1>3. CASE Scan
    <2>1. ASSUME mpc' = "close" PROVE mi \notin needconn
      <3>1. sock[mi] \in rfs \union xfs /\ mi \in Active
        BY <1>0, <1>3, <2>1 DEF Scan, Active, TypeOK
      <3>2. sock[mi] \in bigfs
        BY <1>3, <3>1 DEF IInv, Passes, Ahead, Scan
      <3> QED BY <1>0, <3>2 DEF Wanted
    <2> QED
      BY <1>0, <1>3, <2>1
      DEF Wanted, Scan, Active, Clobbering, First, kernel, shared, connv
  <1>4. CASE ConsumeShort
    BY <1>0, <1>4
    DEF Wanted, Watched, ConsumeShort, Active, Clobbering, First, shared, connv
  <1>5. CASE ConsumeError
    <2>1. sock[mi] \in bigfs /\ sock[mi] \in Fd
      BY <1>0, <1>5, CurrentSocket DEF Watched, ConsumeError
    <2>2. \A i \in needconn : sst'[sock[i]] = sst[sock[i]]
      BY <1>0, <1>5, <2>1 DEF Wanted, TypeOK, ConsumeError
    <2> QED
      BY <1>0, <1>5, <2>2
      DEF Wanted, ConsumeError, Active, Clobbering, First, shared, connv
  <1>6. CASE ClobberClose
    <2>1. sock[mi] \in bigfs
      BY <1>0, <1>6 DEF Watched, ClobberClose
    <2>2. \A i \in needconn : sst'[sock[i]] = sst[sock[i]]
      BY <1>0, <1>6, <2>1 DEF Wanted, TypeOK, ClobberClose
    <2>3. \A i \in needconn : i # mi
      BY <1>0, <1>6 DEF Wanted, Clobbering, ClobberClose
    <2> QED
      BY <1>0, <1>6, <2>2, <2>3
      DEF Wanted, ClobberClose, Active, Clobbering, First, shared, connv
  <1>7. CASE ClobberClear
    BY <1>0, <1>7 DEF Wanted, ClobberClear, Active, Clobbering, First, kernel, connv
  <1>8. CASE ClobberSocket
    <2>1. PICK f \in Fd : /\ Lowest(f)
                          /\ NewSocket(f)
                          /\ sock' = [sock EXCEPT ![mi] = f]
      BY <1>8 DEF ClobberSocket
    <2>2. ASSUME NEW i \in needconn
          PROVE  i # mi /\ sock'[i] = sock[i] /\ sst'[sock[i]] = sst[sock[i]]
      <3>1. i # mi
        BY <1>0, <1>8 DEF Wanted, Clobbering, ClobberSocket
      <3>2. i \in Sys /\ sock[i] \in Fd
        BY WantedSocket
      <3>3. sst[sock[i]] # "free"
        BY <1>0, <3>1, <3>2 DEF Sockets, Connected, Wanted
      <3> QED BY <1>0, <2>1, <3>1, <3>2, <3>3 DEF TypeOK, Lowest, NewSocket
    <2> QED
      BY <1>0, <1>8, <2>2
      DEF Wanted, TypeOK, ClobberSocket, Active, Clobbering, First, connv
  <1>9. CASE ClobberDrop
    <2>1. \A i \in needconn : i # mi /\ sock'[i] = sock[i]
      BY <1>0, <1>9 DEF Wanted, TypeOK, Clobbering, ClobberDrop
    <2> QED
      BY <1>0, <1>9, <2>1
      DEF Wanted, TypeOK, ClobberDrop, Active, Clobbering, First, kernel, connv
  <1>10. CASE ClobberNeed
    <2>1. mi \in Active /\ sock[mi] \in Fd
      BY <1>10, CurrentSocket DEF ClobberNeed
    <2> QED
      BY <1>0, <1>10, <2>1
      DEF Wanted, Watched, ClobberNeed, Active, Clobbering, First, kernel, connv
  <1>11. CASE ConnectOk
    <2>1. PICK i \in Sys : First(i) /\ sst' = [sst EXCEPT ![sock[i]] = "open"]
      BY <1>11 DEF ConnectOk
    <2>2. i \in needconn /\ sock[i] \in Fd
      BY <1>0, <2>1, WantedSocket DEF Wanted, First
    <2>3. \A j \in needconn : j # i => sst'[sock[j]] = sst[sock[j]]
      BY <1>0, <2>1, <2>2, WantedSocket DEF TypeOK, Owners, Wanted
    <2>4. sst'[sock[i]] \in Connected
      BY <1>0, <2>1, <2>2 DEF TypeOK, Connected
    <2>5. /\ cpc = "connect" /\ cpc' = "publish"
          /\ UNCHANGED <<sock, nsys, needconn, bigfs, fs, mpc, mi>>
      BY <1>11 DEF ConnectOk, shared, mainv
    <2>6. i \in fs' /\ First(i)'
      BY <2>1, <2>5 DEF First
    <2> QED
      BY <1>0, <2>2, <2>3, <2>4, <2>5, <2>6 DEF Wanted, Active, Clobbering
  <1>12. CASE ConnectFail
    BY <1>0, <1>12
    DEF Wanted, ConnectFail, Active, Clobbering, First, kernel, shared, mainv
  <1>13. CASE Publish
    <2>1. PICK i \in Sys : /\ First(i)
                           /\ bigfs' = bigfs \union {sock[i]}
                           /\ needconn' = needconn \ {i}
                           /\ fs' = fs \ {i}
      BY <1>13 DEF Publish
    <2>2. \A j \in needconn : First(j) => j = i
      BY <1>0, <2>1 DEF First, Wanted, TypeOK, Sys
    <2>3. \A j \in needconn' : sock[j] # sock[i]
      BY <1>0, <2>1, WantedSocket DEF Owners, Wanted
    <2>4. UNCHANGED <<sock, nsys, sst, mpc, mi>> /\ cpc' = "connect"
      BY <1>13 DEF Publish, kernel, mainv
    <2> QED
      BY <1>0, <2>1, <2>2, <2>3, <2>4 DEF Wanted, Active, Clobbering
  <1>14. ASSUME NEW f \in Fd, ConnectionLost(f) PROVE Wanted'
    <2>1. \A i \in needconn : sst[sock[i]] = "idle" => sst'[sock[i]] = "idle"
      BY <1>0, <1>14 DEF TypeOK, ConnectionLost
    <2>2. \A i \in fs : sst[sock[i]] \in Connected => sst'[sock[i]] \in Connected
      BY <1>0, <1>14 DEF TypeOK, ConnectionLost, Connected
    <2>3. UNCHANGED <<sock, nsys, needconn, bigfs, fs, cpc, mpc, mi>>
      BY <1>14 DEF ConnectionLost, shared, mainv, connv
    <2> QED BY <1>0, <2>1, <2>2, <2>3 DEF Wanted, Active, Clobbering, First
  <1>15. CASE CopyNeedconn
    BY <1>0, <1>15
    DEF Wanted, CopyNeedconn, Active, Clobbering, First, kernel, shared, mainv
  <1>16. CASE /\ UNCHANGED <<sst, sock, nsys, needconn, bigfs, fs>>
              /\ cpc' = cpc \/ {cpc, cpc'} \intersect {"publish"} = {}
              /\ UNCHANGED <<mpc, mi>>
                   \/ mpc' \notin {"close", "clear", "socket", "need"}
    BY <1>0, <1>16 DEF Wanted, Active, Clobbering, First
  <1>17. [Next]_vars =>
           \/ AddConn \/ StartConner \/ Scan \/ ConsumeShort \/ ConsumeError
           \/ Clobber \/ ConnectOk \/ ConnectFail \/ Publish \/ CopyNeedconn
           \/ \E f \in Fd : ConnectionLost(f)
           \/ /\ UNCHANGED <<sst, sock, nsys, needconn, bigfs, fs>>
              /\ cpc' = cpc \/ {cpc, cpc'} \intersect {"publish"} = {}
              /\ UNCHANGED <<mpc, mi>>
                   \/ mpc' \notin {"close", "clear", "socket", "need"}
    BY DEF Next, Main, Load, Consume, Conner, Agents, RefuseConn,
           CopyBigfs, Select, ConsumeRecord, EndOfPass, Asleep,
           BeginWait, TimedOut, SpuriousWakeup, AgentToggle, Arrive,
           vars, shared, kernel, mainv, connv
  <1> QED BY <1>1, <1>2, <1>3, <1>4, <1>5, <1>6, <1>7, <1>8, <1>9, <1>10, <1>11,
             <1>12, <1>13, <1>14, <1>15, <1>16, <1>17 DEF Clobber
\* bigfs stays a set of open connections: FD_CLR comes before the
\* descriptor can be reused, FD_SET after connect.
LEMMA WatchedStep == IInv /\ [Next]_vars => Watched'
  <1> SUFFICES ASSUME IInv, [Next]_vars PROVE Watched'
    OBVIOUS
  <1>0. TypeOK /\ Owners /\ Wanted /\ Watched /\ Passes /\ Control
    BY DEF IInv
  <1> USE RecollectAssumption
  <1>1. CASE AddConn
    BY <1>0, <1>1 DEF Watched, Control, AddConn, mainv
  <1>2. CASE StartConner
    BY <1>0, <1>2 DEF Watched, Control, StartConner, shared
  <1>3. CASE Scan
    <2>1. ASSUME mpc' \in {"close", "consume"} PROVE sock[mi] \in bigfs
      <3>1. sock[mi] \in rfs \union xfs /\ mi \in Active
        BY <1>0, <1>3, <2>1 DEF Scan, Active, TypeOK
      <3> QED BY <1>0, <1>3, <3>1 DEF Passes, Ahead, Scan
    <2> QED
      BY <1>0, <1>3, <2>1 DEF Watched, Scan, Active, kernel, shared
  <1>4. CASE ConsumeRecord
    BY <1>0, <1>4 DEF Watched, ConsumeRecord, Active, shared
  <1>5. CASE ConsumeShort
    BY <1>0, <1>5 DEF Watched, ConsumeShort, Active, shared
  <1>6. CASE ConsumeError
    <2>1. \A f \in bigfs : sst[f] \in Connected => sst'[f] \in Connected
      BY <1>0, <1>6 DEF TypeOK, ConsumeError, Connected
    <2> QED BY <1>0, <1>6, <2>1 DEF Watched, ConsumeError, Active, shared
  <1>7. CASE ClobberClose
    <2>1. \A f \in bigfs : f # sock[mi] => sst'[f] = sst[f]
      BY <1>0, <1>7 DEF TypeOK, ClobberClose
    <2> QED BY <1>0, <1>7, <2>1 DEF Watched, ClobberClose, Active, shared
  <1>8. CASE ClobberClear
    <2>1. sock[mi] \in Fd /\ sock[mi] # NoFd
      BY <1>8, CurrentSocket DEF ClobberClear, Fd, ConfFd, NoFd
    <2> QED BY <1>0, <1>8, <2>1 DEF Watched, ClobberClear, Active, kernel
  <1>9. CASE ClobberSocket
    <2>1. PICK f \in Fd : /\ Lowest(f)
                          /\ NewSocket(f)
                          /\ sock' = [sock EXCEPT ![mi] = f]
      BY <1>9 DEF ClobberSocket
    <2>2. mi \in Sys
      BY <1>9, CurrentSocket DEF ClobberSocket
    <2>3. sock'[mi] = f /\ sst'[f] = "idle"
      BY <1>0, <2>1, <2>2 DEF TypeOK, NewSocket
    <2>4. f # NoFd /\ f \notin bigfs
      BY <1>0, <1>9, <2>1
      DEF Watched, Lowest, Connected, ClobberSocket, Fd, ConfFd, NoFd
    <2>5. ASSUME NEW g \in bigfs
          PROVE  (\E i \in Active : sock'[i] = g) /\ sst'[g] \in Connected
      <3>1. PICK i \in Active : sock[i] = g
        BY <1>0 DEF Watched
      <3>2. i # mi /\ sock'[i] = g
        BY <1>0, <1>9, <2>1, <3>1 DEF Watched, TypeOK, ClobberSocket, Active, Sys
      <3>3. sst'[g] = sst[g] /\ sst[g] \in Connected
        BY <1>0, <1>9, <2>1, <2>4 DEF Watched, TypeOK, ClobberSocket, NewSocket
      <3> QED BY <3>1, <3>2, <3>3
    <2> QED
      BY <1>9, <2>3, <2>4, <2>5 DEF Watched, ClobberSocket, Active
  <1>10. CASE ClobberDrop
    <2>1. ASSUME NEW g \in bigfs
          PROVE  (\E i \in Active : sock'[i] = g) /\ sst[g] \in Connected
      <3>1. PICK i \in Active : sock[i] = g
        BY <1>0 DEF Watched
      <3>2. i # mi /\ sock'[i] = g
        BY <1>0, <1>10, <3>1 DEF Watched, TypeOK, ClobberDrop, Active, Sys
      <3> QED BY <1>0, <1>10, <3>1, <3>2 DEF Watched, ClobberDrop
    <2> QED BY <1>10, <2>1 DEF Watched, ClobberDrop, Active, kernel
  <1>11. CASE ClobberNeed
    BY <1>0, <1>11 DEF Watched, ClobberNeed, Active, kernel
  <1>12. CASE ConnectOk
    <2>1. PICK i \in Sys : First(i) /\ sst' = [sst EXCEPT ![sock[i]] = "open"]
      BY <1>12 DEF ConnectOk
    <2>2. i \in needconn /\ i \in Sys /\ sock[i] \in Fd /\ sock[i] \notin bigfs
      BY <1>0, <2>1, WantedSocket DEF Wanted, First
    <2>3. \A g \in bigfs : sst'[g] = sst[g]
      BY <1>0, <2>1, <2>2 DEF TypeOK
    <2>4. mpc = "need" => sst'[sock[mi]] = sst[sock[mi]]
      <3>1. mpc = "need" => mi \in Sys /\ sock[mi] \in Fd /\ i # mi
        BY <1>0, <2>2, CurrentSocket DEF Wanted, Clobbering
      <3> QED BY <1>0, <2>1, <2>2, <3>1 DEF TypeOK, Owners, Fd, ConfFd, NoFd
    <2> QED
      BY <1>0, <1>12, <2>3, <2>4 DEF Watched, ConnectOk, Active, shared, mainv
  <1>13. CASE Publish
    <2>1. PICK i \in Sys : First(i) /\ bigfs' = bigfs \union {sock[i]}
      BY <1>13 DEF Publish
    <2>2. i \in needconn /\ i \in Active /\ sock[i] \in Fd
      BY <1>0, <2>1, WantedSocket DEF Wanted, First
    <2>3. sst[sock[i]] \in Connected
      <3>1. PICK j \in fs : First(j) /\ sst[sock[j]] \in Connected
        BY <1>0, <1>13 DEF Wanted, Publish
      <3>2. j = i
        BY <1>0, <2>1, <3>1 DEF First, TypeOK, Sys
      <3> QED BY <3>1, <3>2
    <2>4. mpc \in {"socket", "need"} => sock[mi] # sock[i]
      <3>1. mpc \in {"socket", "need"} => mi \in Sys /\ sock[mi] \in Fd /\ i # mi
        BY <1>0, <2>2, CurrentSocket DEF Wanted, Clobbering
      <3> QED BY <1>0, <3>1 DEF Owners, Fd, ConfFd, NoFd
    <2> QED
      BY <1>0, <1>13, <2>1, <2>2, <2>3, <2>4
      DEF Watched, Publish, Active, kernel, mainv
  <1>14. ASSUME NEW f \in Fd, ConnectionLost(f) PROVE Watched'
    <2>1. \A g \in Fd : /\ sst[g] \in Connected => sst'[g] \in Connected
                        /\ sst[g] = "idle" => sst'[g] = "idle"
      BY <1>0, <1>14 DEF TypeOK, ConnectionLost, Connected
    <2>2. mpc = "need" => sock[mi] \in Fd
      BY CurrentSocket
    <2>3. \A g \in bigfs : g \in Fd
      BY <1>0 DEF TypeOK
    <2>4. UNCHANGED <<sock, nsys, bigfs, mpc, mi>>
      BY <1>14 DEF ConnectionLost, shared, mainv
    <2> QED BY <1>0, <2>1, <2>2, <2>3, <2>4 DEF Watched, Active
  <1>15. CASE /\ UNCHANGED <<sst, sock, nsys, bigfs>>
              /\ \/ UNCHANGED <<mpc, mi>>
                 \/ /\ mpc' \in {"copy", "select", "scan"}
                    /\ mpc \in {"copy", "select", "scan"}
    BY <1>0, <1>15 DEF Watched, Active
  <1>16. [Next]_vars =>
           \/ AddConn \/ StartConner \/ Scan \/ Consume \/ Clobber
           \/ ConnectOk \/ Publish \/ \E f \in Fd : ConnectionLost(f)
           \/ /\ UNCHANGED <<sst, sock, nsys, bigfs>>
              /\ \/ UNCHANGED <<mpc, mi>>
                 \/ /\ mpc' \in {"copy", "select", "scan"}
                    /\ mpc \in {"copy", "select", "scan"}
    BY DEF Next, Main, Load, Conner, Agents, RefuseConn,
           CopyBigfs, Select, EndOfPass, CopyNeedconn, ConnectFail,
           BeginWait, TimedOut, SpuriousWakeup, AgentToggle, Arrive,
           vars, shared, kernel, mainv, connv
  <1> QED BY <1>1, <1>2, <1>3, <1>4, <1>5, <1>6, <1>7, <1>8, <1>9, <1>10, <1>11,
             <1>12, <1>13, <1>14, <1>15, <1>16 DEF Clobber, Consume
\* What select reported stays true of every system the loop has not reached,
\* whatever clobber did to those before it and conner to the others.
LEMMA PassesStep == IInv /\ [Next]_vars => Passes'
  <1> SUFFICES ASSUME IInv, [Next]_vars PROVE Passes'
    OBVIOUS
  <1>0. TypeOK /\ Owners /\ Wanted /\ Watched /\ Passes /\ Control
    BY DEF IInv
  <1> USE RecollectAssumption
  <1>1. CASE Load
    BY <1>0, <1>1 DEF Passes, Load, AddConn, RefuseConn, StartConner, mainv
  <1>2. CASE CopyBigfs
    BY <1>2 DEF Passes, CopyBigfs, shared
  <1>3. CASE Select
    <2>1. rfs' \subseteq rfs /\ \A f \in rfs' : Ready(f)
      BY <1>0, <1>3 DEF Select, Readable, Ready
    <2>2. xfs' \subseteq xfs
      BY <1>3 DEF Select
    <2> QED
      BY <1>0, <1>3, <2>1, <2>2
      DEF Passes, Select, Ready, Active, kernel, shared
  <1>4. CASE Scan
    BY <1>0, <1>4 DEF Passes, Scan, TypeOK, Ahead, Ready, Active, kernel, shared
  <1>5. CASE Consume
    <2>1. mi \in Sys /\ sock[mi] \in Fd
      BY <1>5, CurrentSocket DEF Consume, ConsumeRecord, ConsumeShort, ConsumeError
    <2>2. \A j \in Active : j > mi /\ Ready(sock[j]) /\ sock[j] \in Fd => Ready(sock[j])'
      <3> SUFFICES ASSUME NEW j \in Active, j > mi, Ready(sock[j]), sock[j] \in Fd
                   PROVE  Ready(sock[j])'
        OBVIOUS
      <3>1. sock[j] # sock[mi]
        BY <1>0, <2>1 DEF Owners, Active, Sys, TypeOK, Fd, ConfFd, NoFd
      <3> QED
        BY <1>0, <1>5, <2>1, <3>1
        DEF Consume, ConsumeRecord, ConsumeShort, ConsumeError, TypeOK, Ready, shared
    <2>3. /\ UNCHANGED <<sock, nsys, bigfs, rfs, xfs>>
          /\ mpc = "consume"
          /\ \/ mpc' = "scan" /\ mi' = mi + 1
             \/ mpc' = "close" /\ mi' = mi
      BY <1>5 DEF Consume, ConsumeRecord, ConsumeShort, ConsumeError, shared
    <2>4. \A j \in Active : Ahead(j)' => j > mi /\ j \in Sys /\ mi \in Int
      BY <1>0, <2>3 DEF Ahead, Active, TypeOK, Sys
    <2>5. bigfs \subseteq Fd
      BY <1>0 DEF TypeOK
    <2> QED BY <1>0, <2>2, <2>3, <2>4, <2>5 DEF Passes, Active, Ahead
  <1>6. CASE Clobber
    <2>1. mi \in Sys /\ sock[mi] \in Fd /\ mi \in Int
      BY <1>6, CurrentSocket
      DEF Clobber, ClobberClose, ClobberClear, ClobberSocket, ClobberDrop,
          ClobberNeed, Sys
    <2>2. /\ UNCHANGED <<nsys, rfs, xfs>>
          /\ mpc \in {"close", "clear", "socket", "need"}
          /\ \/ mpc' \in {"clear", "socket", "need"} /\ mi' = mi
             \/ mpc' = "scan" /\ mi' = mi + 1
      BY <1>6
      DEF Clobber, ClobberClose, ClobberClear, ClobberSocket, ClobberDrop,
          ClobberNeed, shared
    <2>3. \A j \in Active : Ahead(j)' => j > mi /\ j \in Sys
      BY <1>0, <2>1, <2>2 DEF Ahead, Active, TypeOK, Sys
    <2>4. ASSUME NEW j \in Sys, j > mi
          PROVE  sock'[j] = sock[j]
      BY <1>0, <1>6, <2>1, <2>4
      DEF Clobber, ClobberClose, ClobberClear, ClobberSocket, ClobberDrop,
          ClobberNeed, TypeOK, shared
    <2>5. ASSUME NEW j \in Sys, j > mi, sock[j] \in bigfs
          PROVE  sock[j] \in bigfs' /\ (Ready(sock[j]) => Ready(sock[j])')
      <3>1. sock[j] \in Fd /\ sock[j] # sock[mi]
        BY <1>0, <2>1, <2>5 DEF Owners, TypeOK, Sys, Fd, ConfFd, NoFd
      <3>2. sock[j] \in bigfs'
        BY <1>6, <2>5, <3>1
        DEF Clobber, ClobberClose, ClobberClear, ClobberSocket, ClobberDrop,
            ClobberNeed, shared
      <3>3. Ready(sock[j]) => Ready(sock[j])'
        <4>1. CASE ClobberClose
          BY <1>0, <2>1, <2>4, <2>5, <3>1, <4>1 DEF ClobberClose, TypeOK, Ready, shared
        <4>2. CASE ClobberSocket
          <5>1. PICK f \in Fd : Lowest(f) /\ NewSocket(f)
            BY <4>2 DEF ClobberSocket
          <5>2. f # sock[j]
            BY <1>0, <2>5, <4>2, <5>1
            DEF Watched, ClobberSocket, Lowest, Connected
          <5> QED
            BY <1>0, <2>4, <2>5, <3>1, <5>1, <5>2
            DEF TypeOK, NewSocket, Ready
        <4>3. CASE ClobberClear \/ ClobberDrop \/ ClobberNeed
          BY <2>4, <2>5, <4>3 DEF ClobberClear, ClobberDrop, ClobberNeed, Ready, kernel
        <4> QED BY <1>6, <4>1, <4>2, <4>3 DEF Clobber
      <3> QED BY <3>2, <3>3
    <2>6. \A j \in Active : j > mi /\ sock[j] \in rfs \union xfs =>
             sock[j] \in bigfs /\ (sock[j] \in rfs => Ready(sock[j]))
      BY <1>0, <2>2 DEF Passes, Ahead
    <2>7. Active' = Active
      BY <2>2 DEF Active
    <2>8. ASSUME NEW j \in Active', Ahead(j)', sock'[j] \in rfs' \union xfs'
          PROVE  /\ sock'[j] \in bigfs'
                 /\ sock'[j] \in rfs' => Ready(sock[j])'
      <3>1. j > mi /\ j \in Sys /\ sock'[j] = sock[j]
        BY <2>3, <2>4, <2>7, <2>8
      <3>2. sock[j] \in bigfs /\ (sock[j] \in rfs => Ready(sock[j]))
        BY <2>2, <2>6, <2>7, <2>8, <3>1
      <3> QED BY <2>2, <2>5, <3>1, <3>2
    <2> QED BY <2>2, <2>8 DEF Passes
  <1>7. CASE EndOfPass
    BY <1>7 DEF Passes, EndOfPass
  <1>8. CASE Publish
    <2>1. bigfs \subseteq bigfs'
      BY <1>8 DEF Publish
    <2> QED
      BY <1>0, <1>8, <2>1 DEF Passes, Publish, Ahead, Ready, Active, kernel, mainv
  <1>9. ASSUME NEW f \in Fd, Arrive(f) \/ ConnectionLost(f) PROVE Passes'
    <2>1. \A g \in Fd : Ready(g) => Ready(g)'
      BY <1>0, <1>9 DEF TypeOK, Arrive, ConnectionLost, Ready
    <2>2. UNCHANGED <<sock, nsys, bigfs, mpc, mi, rfs, xfs>>
      BY <1>9 DEF Arrive, ConnectionLost, shared, mainv
    <2>3. bigfs \subseteq Fd
      BY <1>0 DEF TypeOK
    <2>4. ASSUME NEW j \in Active, Ready(sock[j]), sock[j] \in Fd
          PROVE  Ready(sock[j])'
      BY <2>1, <2>2, <2>4 DEF Ready
    <2> QED BY <1>0, <2>2, <2>3, <2>4 DEF Passes, Ahead, Active
  <1>10. CASE ConnectOk
    <2>1. PICK i \in Sys : First(i) /\ sst' = [sst EXCEPT ![sock[i]] = "open"]
      BY <1>10 DEF ConnectOk
    <2>2. i \in needconn /\ sock[i] \notin bigfs
      BY <1>0, <2>1 DEF Wanted, First
    <2>3. UNCHANGED <<sock, nsys, bigfs, mpc, mi, rfs, xfs, avail>>
      BY <1>10 DEF ConnectOk, shared, mainv
    <2>4. \A g \in bigfs : sst'[g] = sst[g]
      BY <1>0, <2>1, <2>2 DEF TypeOK
    <2> QED BY <1>0, <2>3, <2>4 DEF Passes, Ahead, Ready, Active
  <1>11. CASE UNCHANGED <<kernel, sock, nsys, bigfs, mpc, mi, rfs, xfs>>
    BY <1>0, <1>11 DEF Passes, Ahead, Ready, Active, kernel
  <1>12. [Next]_vars =>
           \/ Load \/ CopyBigfs \/ Select \/ Scan \/ Consume \/ Clobber
           \/ EndOfPass \/ Publish \/ ConnectOk
           \/ \E f \in Fd : Arrive(f) \/ ConnectionLost(f)
           \/ UNCHANGED <<kernel, sock, nsys, bigfs, mpc, mi, rfs, xfs>>
    BY DEF Next, Main, Conner, Agents, CopyNeedconn, ConnectFail,
           BeginWait, TimedOut, SpuriousWakeup, AgentToggle,
           vars, shared, mainv
  <1> QED BY <1>1, <1>2, <1>3, <1>4, <1>5, <1>6, <1>7, <1>8, <1>9, <1>10, <1>11,
             <1>12

\* The loop index stays within the table, and conner starts after the
\* configuration is read.
LEMMA ControlStep == IInv /\ [Next]_vars => Control'
  <1> SUFFICES ASSUME IInv, [Next]_vars PROVE Control'
    OBVIOUS
  <1>0. TypeOK /\ Wanted /\ Control
    BY DEF IInv
  <1> USE RecollectAssumption
  <1>1. CASE Load
    BY <1>0, <1>1
    DEF Control, TypeOK, Load, AddConn, RefuseConn, StartConner, mainv, connv, shared
  <1>2. CASE CopyBigfs \/ Select \/ Scan \/ EndOfPass
    BY <1>0, <1>2
    DEF Control, TypeOK, CopyBigfs, Select, Scan, EndOfPass, Asleep, shared, connv
  <1>3. CASE Consume
    BY <1>0, <1>3
    DEF Control, TypeOK, Consume, ConsumeRecord, ConsumeShort, ConsumeError,
        shared, connv
  <1>4. CASE Clobber
    BY <1>0, <1>4
    DEF Control, TypeOK, Clobber, ClobberClose, ClobberClear, ClobberSocket,
        ClobberDrop, ClobberNeed, shared, connv
  <1>5. CASE Conner \/ SpuriousWakeup
    BY <1>0, <1>5
    DEF Control, Conner, CopyNeedconn, ConnectOk, ConnectFail, Publish,
        BeginWait, TimedOut, SpuriousWakeup, shared, mainv
  <1>6. CASE UNCHANGED <<shared, mainv, connv>>
    BY <1>0, <1>6 DEF Control, shared, mainv, connv
  <1> QED
    BY <1>1, <1>2, <1>3, <1>4, <1>5, <1>6
    DEF Next, Main, Agents, AgentToggle, Arrive, ConnectionLost, vars

\* A line is written for the system whose agent sent the record, at a record
\* boundary.
LEMMA AttributionStep == IInv /\ [Next]_vars => RecordsAttributed'
  <1> SUFFICES ASSUME IInv, [Next]_vars PROVE RecordsAttributed'
    OBVIOUS
  <1>1. CASE ConsumeRecord
    <2>1. mi \in Sys /\ sock[mi] \in Fd
      BY <1>1, CurrentSocket DEF ConsumeRecord
    <2>2. peer[sock[mi]] = mi
      <3>1. sst[sock[mi]] \in Connected
        BY <1>1 DEF IInv, Watched, ConsumeRecord
      <3> QED
        BY <1>1, <2>1, <3>1
        DEF IInv, Sockets, ConsumeRecord, Fd, ConfFd, NoFd
    <2>3. phase[sock[mi]] = 0
      BY <1>1, <2>1 DEF IInv, Streams, ConsumeRecord
    <2> QED
      BY <1>1, <2>2, <2>3 DEF RecordsAttributed, ConsumeRecord, Report
  <1>2. CASE ConsumeError
    BY <1>2 DEF RecordsAttributed, ConsumeError
  <1>3. CASE EndOfPass
    BY <1>3 DEF RecordsAttributed, EndOfPass, NoLine
  <1>4. CASE UNCHANGED line
    BY <1>4 DEF IInv, RecordsAttributed
  <1>5. [Next]_vars => \/ ConsumeRecord \/ ConsumeError \/ EndOfPass
                       \/ UNCHANGED line
    BY DEF Next, Main, Load, Consume, Clobber, Conner, Agents, AddConn,
           RefuseConn, StartConner, CopyBigfs, Select, Scan, ConsumeShort,
           ClobberClose, ClobberClear, ClobberSocket, ClobberDrop, ClobberNeed,
           CopyNeedconn, ConnectOk, ConnectFail, Publish, BeginWait, TimedOut,
           SpuriousWakeup, AgentToggle, Arrive, ConnectionLost, vars
  <1> QED BY <1>1, <1>2, <1>3, <1>4, <1>5
\* No system is forgotten between the two sets.
LEMMA AccountedStep == IInv /\ [Next]_vars => Accounted'
  <1> SUFFICES ASSUME IInv, [Next]_vars PROVE Accounted'
    OBVIOUS
  <1>0. TypeOK /\ Owners /\ Wanted /\ Watched /\ Control /\ Accounted
    BY DEF IInv
  <1>1. Wanted'
    BY WantedStep
  <1> USE RecollectAssumption
  \* The second half is part of Wanted.
  <1>2. (\A i \in Active : i \in needconn => sock[i] \notin bigfs \union {NoFd})'
    BY <1>1 DEF Wanted
  <1> DEFINE Held(i) == i \in needconn \/ sock[i] \in bigfs \/ sock[i] = NoFd
  <1>3. SUFFICES ASSUME NEW i \in Active', ~ Clobbering(i)'
                 PROVE  Held(i)'
    BY <1>2 DEF Accounted
  <1>4. CASE AddConn
    <2>1. i = nsys \/ i \in Active
      BY <1>0, <1>4 DEF AddConn, Active, TypeOK
    <2>2. CASE i = nsys
      BY <1>4, <2>2 DEF AddConn
    <2>3. CASE i \in Active /\ i # nsys
      BY <1>0, <1>4, <2>3
      DEF AddConn, Accounted, Clobbering, TypeOK, Active, Sys, mainv
    <2> QED BY <2>1, <2>2, <2>3
  <1>5. CASE Clobber
    <2>0. mi \in Sys
      BY <1>5, CurrentSocket
      DEF Clobber, ClobberClose, ClobberClear, ClobberSocket, ClobberDrop,
          ClobberNeed
    <2>1. i \in Active /\ i \in Sys
      BY <1>0, <1>5
      DEF Clobber, ClobberClose, ClobberClear, ClobberSocket, ClobberDrop,
          ClobberNeed, shared, Active, TypeOK, Sys
    <2>2. CASE i = mi
      BY <1>0, <1>3, <1>5, <2>0, <2>2
      DEF Clobber, ClobberClose, ClobberClear, ClobberSocket, ClobberDrop,
          ClobberNeed, Clobbering, TypeOK
    <2>3. CASE i # mi
      <3>1. Held(i)
        BY <1>0, <2>1, <2>3 DEF Accounted, Clobbering
      <3>2. sock'[i] = sock[i] /\ needconn \subseteq needconn'
        BY <1>0, <1>5, <2>0, <2>1, <2>3
        DEF Clobber, ClobberClose, ClobberClear, ClobberSocket, ClobberDrop,
            ClobberNeed, TypeOK, shared
      <3>3. sock[i] \in bigfs => sock[i] \in bigfs'
        <4>1. sock[i] \in bigfs => sock[i] # sock[mi]
          BY <1>0, <2>0, <2>1, <2>3 DEF Owners, TypeOK, Fd, ConfFd, NoFd
        <4> QED
          BY <1>5, <4>1
          DEF Clobber, ClobberClose, ClobberClear, ClobberSocket, ClobberDrop,
              ClobberNeed, shared
      <3> QED BY <3>1, <3>2, <3>3
    <2> QED BY <2>2, <2>3
  <1>6. CASE Publish
    <2>1. i \in Active /\ ~ Clobbering(i)
      BY <1>3, <1>6 DEF Publish, Active, Clobbering, mainv
    <2>2. Held(i)
      BY <1>0, <2>1 DEF Accounted
    <2> QED BY <1>6, <2>2 DEF Publish
  <1>7. CASE /\ UNCHANGED <<sock, nsys, needconn, bigfs>>
             /\ mpc \notin {"close", "clear", "socket", "need"}
                  \/ UNCHANGED <<mpc, mi>>
    BY <1>0, <1>3, <1>7 DEF Accounted, Active, Clobbering
  <1>8. [Next]_vars =>
          \/ AddConn \/ Clobber \/ Publish
          \/ /\ UNCHANGED <<sock, nsys, needconn, bigfs>>
             /\ mpc \notin {"close", "clear", "socket", "need"}
                  \/ UNCHANGED <<mpc, mi>>
    BY DEF Next, Main, Load, Consume, Conner, Agents, RefuseConn, StartConner,
           CopyBigfs, Select, Scan, ConsumeRecord, ConsumeShort, ConsumeError,
           EndOfPass, CopyNeedconn, ConnectOk, ConnectFail, BeginWait, TimedOut,
           SpuriousWakeup, AgentToggle, Arrive, ConnectionLost, vars, shared,
           mainv
  <1> QED BY <1>4, <1>5, <1>6, <1>7, <1>8

\* The invariant holds when the program starts.
LEMMA InitIInv == Init => IInv
  <1> SUFFICES ASSUME Init PROVE IInv
    OBVIOUS
  <1> USE RecollectAssumption DEF Init
  <1>1. TypeOK
    <2>1. line \in [from : Sys \union {NoSys}, of : Sys \union {NoSys},
                    data : {"none", "record", "split", "stale"}]
      BY DEF NoLine
    <2>2. sst \in [Fd -> SockState] /\ peer \in [Fd -> Sys \union {NoSys}]
             /\ sock \in [Sys -> Fd \union {NoFd}]
      BY DEF SockState
    <2>3. avail \in [Fd -> Nat] /\ phase \in [Fd -> 0 .. WIRE - 1]
      OBVIOUS
    <2>4. nsys \in 0 .. NHOSTS /\ lines \in 0 .. NHOSTS /\ nsys + lines <= NHOSTS
             /\ mi \in 0 .. NHOSTS /\ sockfail \in 0 .. MaxSockFail
      OBVIOUS
    <2> QED BY <2>1, <2>2, <2>3, <2>4 DEF TypeOK
  <1>2. Owners /\ Sockets
    BY DEF Owners, Sockets, Active, NoFd, Fd, ConfFd
  <1>3. Streams /\ Wanted /\ Watched /\ Passes /\ Control
    BY DEF Streams, Wanted, Watched, Passes, Control, Connected
  <1>4. Accounted /\ RecordsAttributed
    BY DEF Accounted, RecordsAttributed, Active, NoLine
  <1> QED BY <1>1, <1>2, <1>3, <1>4 DEF IInv

\* The inductive invariant holds of every behaviour of the collector, for any
\* number of systems, any record length and any number of failures.
THEOREM InductiveInvariant == Spec => []IInv
  <1>1. IInv /\ [Next]_vars => IInv'
    BY TypeStep, OwnersStep, SocketsStep, StreamsStep, WantedStep, WatchedStep,
       PassesStep, ControlStep, AccountedStep, AttributionStep
    DEF IInv
  <1> QED BY InitIInv, <1>1, PTL DEF Spec

\* Every variable keeps its type.
THEOREM TypeCorrect == Spec => []TypeOK
  <1>1. IInv => TypeOK
    BY DEF IInv
  <1> QED BY InductiveInvariant, <1>1, PTL

\* Outside clobber, each configured system is wanted by conner, watched by
\* main, or dropped: needconn and bigfs never disagree about it.
THEOREM AccountedAlways == Spec => []Accounted
  <1>1. IInv => Accounted
    BY DEF IInv
  <1> QED BY InductiveInvariant, <1>1, PTL

\* consume() never writes a record under another system's name and never
\* mixes two records, for all its reuse of descriptor numbers.
THEOREM AttributionAlways == Spec => []RecordsAttributed
  <1>1. IInv => RecordsAttributed
    BY DEF IInv
  <1> QED BY InductiveInvariant, <1>1, PTL

\* clobber() never replaces a descriptor that conner() is about to connect or
\* publish, though it writes sys[i].sock outside the mutex.
THEOREM NoSocketRaceAlways == Spec => []NoSocketRace
  <1>1. IInv => NoSocketRace
    BY DEF IInv, Wanted, NoSocketRace
  <1> QED BY InductiveInvariant, <1>1, PTL

\* The blocking recv() of consume() finds something to return, so main never
\* hangs on one system.
THEOREM RecvNeverWaitsAlways == Spec => []RecvNeverWaits
  <1>1. ASSUME IInv, mpc = "consume"
        PROVE  sock[mi] # NoFd /\ (avail[sock[mi]] > 0 \/ sst[sock[mi]] \in {"fin", "rst"})
    <2>1. mi \in Active /\ sock[mi] \in Fd
      BY <1>1, CurrentSocket
    <2>2. Ready(sock[mi])
      BY <1>1, <2>1 DEF IInv, Passes, Ahead
    <2> QED BY <2>1, <2>2 DEF Ready, Fd, ConfFd, NoFd
  <1>2. IInv => RecvNeverWaits
    BY <1>1 DEF RecvNeverWaits
  <1> QED BY InductiveInvariant, <1>2, PTL

\* main never selects on a closed descriptor, one no system owns, or one
\* beyond lastsock.
THEOREM SelectAlways == Spec => []SelectsOnConnections
  <1>1. ASSUME IInv, mpc = "select", NEW f \in rfs
        PROVE  /\ sst[f] \in Connected
               /\ f <= lastsock
               /\ \E i \in Active : sock[i] = f
    <2>1. f \in bigfs
      BY <1>1 DEF IInv, Passes
    <2>2. PICK i \in Active : sock[i] = f
      BY <1>1, <2>1 DEF IInv, Watched
    <2>3. i \in Sys
      BY <1>1, <2>2, RecollectAssumption DEF IInv, TypeOK, Active, Sys
    <2>4. f <= lastsock
      BY <1>1, <2>2, <2>3 DEF IInv, Owners
    <2> QED BY <1>1, <2>1, <2>2, <2>4 DEF IInv, Watched
  <1>2. IInv => SelectsOnConnections
    BY <1>1 DEF SelectsOnConnections
  <1> QED BY InductiveInvariant, <1>2, PTL

\* A step that changes the state of one link only is a Move of Links.
LEMMA LinkMove ==
    ASSUME NEW i \in Sys, NEW from, NEW to,
           LinkOf(i) = from, LinkOf(i)' = to,
           \A j \in Sys \ {i} : LinkOf(j)' = LinkOf(j)
    PROVE  Link!Move(i, from, to)
  BY DEF Link!Move

\* A step that changes no link stutters.
LEMMA LinkStutter ==
    ASSUME \A j \in Sys : LinkOf(j)' = LinkOf(j)
    PROVE  [i \in Sys |-> LinkOf(i)]' = [i \in Sys |-> LinkOf(i)]
  OBVIOUS

\* Each step of the two threads moves at most one link, in one of the five
\* ways Links allows.
LEMMA LinksStep ==
    IInv /\ IInv' /\ [Next]_vars => [Link!Next]_([i \in Sys |-> LinkOf(i)])
  <1> SUFFICES ASSUME IInv, IInv', [Next]_vars
               PROVE  [Link!Next]_([i \in Sys |-> LinkOf(i)])
    OBVIOUS
  <1>0. TypeOK /\ Owners /\ Wanted /\ Watched /\ Passes /\ Control /\ Accounted
    BY DEF IInv
  <1> USE RecollectAssumption
  <1>1. CASE AddConn
    <2>1. nsys \in Sys /\ LinkOf(nsys) = "absent"
      BY <1>0, <1>1 DEF TypeOK, AddConn, Sys, LinkOf, Active
    <2>2. \A j \in Sys : j # nsys => LinkOf(j)' = LinkOf(j)
      BY <1>0, <1>1 DEF TypeOK, AddConn, LinkOf, Active, Clobbering, Sys, mainv
    <2>3. ASSUME NEW i \in Sys, i = nsys PROVE LinkOf(i)' = "down"
      BY <1>0, <1>1, <2>3 DEF TypeOK, AddConn, LinkOf, Active, Clobbering, mainv
    <2>4. PICK i \in Sys : i = nsys
      BY <2>1
    <2>5. Link!Configure(i)
      BY <2>1, <2>2, <2>3, <2>4, LinkMove DEF Link!Configure
    <2> QED BY <2>5 DEF Link!Next
  <1>2. CASE Publish
    <2>1. PICK i \in Sys : /\ First(i)
                           /\ bigfs' = bigfs \union {sock[i]}
                           /\ needconn' = needconn \ {i}
      BY <1>2 DEF Publish
    <2>2. i \in needconn /\ i \in Active /\ sock[i] \in Fd /\ ~ Clobbering(i)
      BY <1>0, <2>1, WantedSocket DEF Wanted, First
    <2>3. UNCHANGED <<sock, nsys, mpc, mi>>
      BY <1>2 DEF Publish, mainv
    <2>4. LinkOf(i) = "down" /\ LinkOf(i)' = "up"
      BY <2>1, <2>2, <2>3 DEF LinkOf, Active, Clobbering
    <2>5. \A j \in Sys \ {i} : sock[j] # sock[i]
      BY <1>0, <2>2 DEF Owners, Fd, ConfFd, NoFd
    <2>6. \A j \in Sys \ {i} : LinkOf(j)' = LinkOf(j)
      BY <2>1, <2>3, <2>5 DEF LinkOf, Active, Clobbering
    <2>7. Link!Connect(i)
      BY <2>4, <2>6, LinkMove DEF Link!Connect
    <2> QED BY <2>7 DEF Link!Next
  <1>3. CASE (Scan \/ ConsumeShort) /\ mpc' = "close"
    <2>1. /\ UNCHANGED <<sock, nsys, needconn, bigfs, mi>>
          /\ mpc \in {"scan", "consume"}
      BY <1>3 DEF Scan, ConsumeShort, shared
    <2>2. mi \in Active' /\ mi \in Sys /\ sock[mi] \in bigfs'
      BY <1>3, <2>1, RecollectAssumption
      DEF IInv, Watched, Control, TypeOK, Active, Sys
    <2>3. mi \in Active /\ mi \notin needconn /\ sock[mi] \in bigfs
      BY <1>0, <2>1, <2>2 DEF Active, Wanted
    <2>4. LinkOf(mi) = "up"
      BY <2>1, <2>3 DEF LinkOf, Clobbering
    <2>5. ASSUME NEW i \in Sys, i = mi PROVE LinkOf(i)' = "closing"
      BY <1>3, <2>1, <2>2, <2>5 DEF LinkOf, Clobbering
    <2>6. \A j \in Sys : j # mi => LinkOf(j)' = LinkOf(j)
      BY <2>1 DEF LinkOf, Active, Clobbering
    <2>7. PICK i \in Sys : i = mi
      BY <2>2
    <2>8. Link!Lose(i)
      BY <2>4, <2>5, <2>6, <2>7, LinkMove DEF Link!Lose
    <2> QED BY <2>8 DEF Link!Next
  <1>4. CASE ClobberNeed
    <2>1. mi \in Active /\ mi \in Sys
      BY <1>4, CurrentSocket DEF ClobberNeed
    <2>2. PICK i \in Sys : i = mi
      BY <2>1
    <2>3. LinkOf(i) = "closing" /\ LinkOf(i)' = "down"
      BY <1>0, <1>4, <2>1, <2>2 DEF ClobberNeed, LinkOf, Active, Clobbering, TypeOK
    <2>4. \A j \in Sys \ {i} : LinkOf(j)' = LinkOf(j)
      BY <1>4, <2>2 DEF ClobberNeed, LinkOf, Active, Clobbering
    <2>5. Link!Requeue(i)
      BY <2>3, <2>4, LinkMove DEF Link!Requeue
    <2> QED BY <2>5 DEF Link!Next
  <1>5. CASE ClobberDrop
    <2>1. mi \in Active /\ mi \in Sys
      BY <1>5, CurrentSocket DEF ClobberDrop
    <2>2. PICK i \in Sys : i = mi
      BY <2>1
    <2>3. i \notin needconn /\ NoFd \notin bigfs
      BY <1>0, <1>5, <2>2
      DEF Wanted, Clobbering, ClobberDrop, TypeOK, Fd, ConfFd, NoFd
    <2>4. LinkOf(i) = "closing" /\ LinkOf(i)' = "dropped"
      BY <1>0, <1>5, <2>1, <2>2, <2>3
      DEF ClobberDrop, LinkOf, Active, Clobbering, TypeOK
    <2>5. \A j \in Sys \ {i} : LinkOf(j)' = LinkOf(j)
      BY <1>0, <1>5, <2>2 DEF ClobberDrop, LinkOf, Active, Clobbering, TypeOK
    <2>6. Link!Drop(i)
      BY <2>4, <2>5, LinkMove DEF Link!Drop
    <2> QED BY <2>6 DEF Link!Next
  <1>6. CASE ClobberClear \/ ClobberSocket \/ ClobberClose
    <2>1. \A j \in Sys : LinkOf(j)' = LinkOf(j)
      <3> SUFFICES ASSUME NEW j \in Sys PROVE LinkOf(j)' = LinkOf(j)
        OBVIOUS
      <3>1. mi \in Sys /\ sock[mi] \in Fd
        BY <1>6, CurrentSocket DEF ClobberClear, ClobberSocket, ClobberClose
      <3>2. /\ UNCHANGED <<nsys, needconn, mi>>
            /\ {mpc, mpc'} \subseteq {"close", "clear", "socket", "need"}
        BY <1>6 DEF ClobberClear, ClobberSocket, ClobberClose, shared
      <3>3. CASE j = mi
        BY <3>2, <3>3 DEF LinkOf, Active, Clobbering
      <3>4. CASE j # mi
        <4>1. sock'[j] = sock[j]
          BY <1>0, <1>6, <3>4
          DEF ClobberClear, ClobberSocket, ClobberClose, TypeOK, shared
        <4>2. sock[j] # sock[mi]
          BY <1>0, <3>1, <3>4 DEF Owners, Fd, ConfFd, NoFd
        <4>3. sock[j] \in bigfs' <=> sock[j] \in bigfs
          BY <1>6, <4>2 DEF ClobberClear, ClobberSocket, ClobberClose, shared
        <4> QED BY <3>2, <3>4, <4>1, <4>3 DEF LinkOf, Active, Clobbering
      <3> QED BY <3>3, <3>4
    <2> QED BY <2>1, LinkStutter
  <1>7. CASE /\ UNCHANGED <<sock, nsys, needconn, bigfs>>
             /\ \/ UNCHANGED <<mpc, mi>>
                \/ {mpc, mpc'} \intersect {"close", "clear", "socket", "need"} = {}
    BY <1>7, LinkStutter DEF LinkOf, Active, Clobbering
  <1>8. [Next]_vars =>
          \/ AddConn \/ Publish \/ Clobber
          \/ (Scan \/ ConsumeShort) /\ mpc' = "close"
          \/ /\ UNCHANGED <<sock, nsys, needconn, bigfs>>
             /\ \/ UNCHANGED <<mpc, mi>>
                \/ {mpc, mpc'} \intersect {"close", "clear", "socket", "need"} = {}
    BY DEF Next, Main, Load, Consume, Conner, Agents, RefuseConn, StartConner,
           CopyBigfs, Select, Scan, ConsumeRecord, ConsumeShort, ConsumeError,
           EndOfPass, CopyNeedconn, ConnectOk, ConnectFail, BeginWait, TimedOut,
           SpuriousWakeup, AgentToggle, Arrive, ConnectionLost, vars, shared,
           mainv
  <1> QED BY <1>1, <1>2, <1>3, <1>4, <1>5, <1>6, <1>7, <1>8 DEF Clobber

\* The collector implements the life cycle of module Links.
THEOREM Refinement == Spec => ImplementsLinks
  <1>1. Init => Link!Init
    BY DEF Init, Link!Init, LinkOf, Active
  <1>2. IInv /\ IInv' /\ [Next]_vars => [Link!Next]_([i \in Sys |-> LinkOf(i)])
    BY LinksStep
  <1> QED BY InductiveInvariant, <1>1, <1>2, PTL DEF Spec, ImplementsLinks, Link!Spec

-----------------------------------------------------------------------------
(* The flow table.                                                         *)

\* The entry of a line is what findflow() compares with.
Table ==
    \A k \in Index : /\ flows[k] = Entry(cfg[k])
                     /\ Start(cfg[k]) # 0 /\ End(cfg[k]) # 0

\* The lines written are those of the record consumed last, by the table that
\* is no longer changed.
Written ==
    rec.kind = "pkt" =>
        /\ loaded
        /\ out = IF findflow(rec.dport, rec.flowid) = {}
                 THEN Other("X", rec.encapped)
                 ELSE FlowLines(rec.dport, rec.flowid, rec.encapped)

FlowIInv == FlowTypeOK /\ Table /\ Written

\* Below INTBITS, a bit number is its own remainder.
LEMMA SmallShift ==
    ASSUME NEW k \in 0 .. INTBITS - 1
    PROVE  k % INTBITS = k
  <1>1. INTBITS \in Nat \ {0}
    BY FlowsAssumption
  <1> QED BY <1>1

\* Two different shifts below INTBITS have no bit in common, the extended sign
\* bit included.
LEMMA BitsDisjoint ==
    ASSUME NEW j \in 0 .. INTBITS - 1, NEW k \in 0 .. INTBITS - 1
    PROVE  Bit(j) \intersect Bit(k) # {} <=> j = k
  <1> DEFINE B(i) == IF i = INTBITS - 1 THEN i .. 2 * INTBITS - 1 ELSE {i}
  <1>0. INTBITS \in Nat \ {0}
    BY FlowsAssumption
  <1>1. Bit(j) = B(j) /\ Bit(k) = B(k)
    BY SmallShift DEF Bit
  <1>2. ASSUME NEW b, b \in B(j), b \in B(k) PROVE j = k
    BY <1>0, <1>2
  <1>3. j \in B(j)
    BY <1>0
  <1> HIDE DEF B
  <1>4. ASSUME B(j) \intersect B(k) # {} PROVE j = k
    <2>1. PICK b : b \in B(j) /\ b \in B(k)
      BY <1>4
    <2> QED BY <1>2, <2>1
  <1>5. ASSUME j = k PROVE B(j) \intersect B(k) # {}
    BY <1>3, <1>5
  <1> QED BY <1>1, <1>4, <1>5

\* No shift gives an empty mask.
LEMMA BitNonempty ==
    ASSUME NEW k \in Nat
    PROVE  Bit(k) # {}
  <1>0. INTBITS \in Nat \ {0}
    BY FlowsAssumption
  <1>1. k % INTBITS \in 0 .. INTBITS - 1
    BY <1>0
  <1>2. k % INTBITS \in Bit(k)
    BY <1>0, <1>1 DEF Bit
  <1> QED BY <1>2

\* With no more flows than an int has bits, the mask's flows are the matching
\* ones.
LEMMA HitExact ==
    ASSUME FlowTypeOK, nflows <= INTBITS, NEW p, NEW m
    PROVE  Hit(p, m) = {k \in Index : Matches(flows[k], p, m)}
  <1>1. Index \subseteq 0 .. INTBITS - 1
    BY FlowsAssumption DEF FlowTypeOK, Index
  <1>2. ASSUME NEW k \in Index
        PROVE  Bit(k) \intersect findflow(p, m) # {} <=> Matches(flows[k], p, m)
    <2>1. ASSUME Matches(flows[k], p, m)
          PROVE  Bit(k) \intersect findflow(p, m) # {}
      <3>1. Bit(k) \subseteq findflow(p, m)
        BY <2>1 DEF findflow
      <3>2. Bit(k) # {}
        BY BitNonempty DEF Index
      <3> QED BY <3>1, <3>2
    <2>2. ASSUME Bit(k) \intersect findflow(p, m) # {}
          PROVE  Matches(flows[k], p, m)
      <3>1. PICK j \in Index : /\ Matches(flows[j], p, m)
                               /\ Bit(k) \intersect Bit(j) # {}
        BY <2>2 DEF findflow
      <3>2. j = k
        BY <1>1, <3>1, BitsDisjoint
      <3> QED BY <3>1, <3>2
    <2> QED BY <2>1, <2>2
  <1> QED BY <1>2 DEF Hit

\* The mask is empty exactly when no flow matches.
LEMMA MaskEmpty ==
    ASSUME NEW p, NEW m
    PROVE  findflow(p, m) = {} <=> \A k \in Index : ~ Matches(flows[k], p, m)
  <1>1. \A k \in Index : Bit(k) # {}
    BY BitNonempty DEF Index
  <1> QED BY <1>1 DEF findflow

\* A parsed entry matches a record exactly when its line asks for it.
LEMMA EntryExact ==
    ASSUME NEW l \in CfgLines, NEW r \in Reports,
           {l.start, Last(l)}
             \subseteq 0 .. (IF l.mgen THEN MGENMOD ELSE PORTMOD) - 1
    PROVE  Matches(Entry(l), r.dport, r.flowid) <=> Asks(l, r)
  <1>1. /\ l.hyphen \in BOOLEAN /\ l.mgen \in BOOLEAN
        /\ r.dport \in Nat /\ r.flowid \in Nat
        /\ PORTMOD \in Nat \ {0} /\ MGENMOD \in Nat \ {0} /\ PORTMOD <= MGENMOD
    BY FlowsAssumption
  <1>2. /\ l.start \in Nat /\ Last(l) \in Nat
        /\ l.start < (IF l.mgen THEN MGENMOD ELSE PORTMOD)
        /\ Last(l) < (IF l.mgen THEN MGENMOD ELSE PORTMOD)
    BY <1>1
  <1>3. Start(l) = l.start
    BY <1>1, <1>2 DEF Start
  <1>4. End(l) = Last(l)
    <2>1. CASE ~ l.hyphen
      BY <1>3, <2>1 DEF End, Last
    <2>2. CASE l.hyphen
      BY <1>1, <1>2, <2>2 DEF End, Last
    <2> QED BY <2>1, <2>2
  <1>5. CASE l.mgen
    BY <1>1, <1>2, <1>3, <1>4, <1>5 DEF Matches, Entry, Asks
  <1>6. CASE ~ l.mgen
    <2>1. l.start % PORTMOD = l.start /\ Last(l) % PORTMOD = Last(l)
      BY <1>1, <1>2, <1>6
    <2> QED BY <1>1, <1>2, <1>3, <1>4, <1>6, <2>1 DEF Matches, Entry, Asks
  <1> QED BY <1>1, <1>5, <1>6

\* Every step keeps the table parsed from its lines and the output that of
\* the last record.
THEOREM FlowInvariant == FlowSpec => []FlowIInv
  <1>1. FlowInit => FlowIInv
    <2> SUFFICES ASSUME FlowInit PROVE FlowIInv
      OBVIOUS
    <2>1. nflows = 0 /\ Index = {} /\ nflows \in 0 .. MAXFLOWS
      BY FlowsAssumption DEF FlowInit, Index
    <2>2. flows \in [Index -> Flow] /\ cfg \in [Index -> CfgLines]
      BY <2>1 DEF FlowInit
    <2>3. rec \in {[kind |-> "none"]} /\ loaded \in BOOLEAN
      BY DEF FlowInit
    <2>4. rec.kind # "pkt"
      BY DEF FlowInit
    <2> QED BY <2>1, <2>2, <2>3, <2>4 DEF FlowIInv, FlowTypeOK, Table, Written
  <1>2. FlowIInv /\ [FlowNext]_flowVars => FlowIInv'
    <2> SUFFICES ASSUME FlowIInv, [FlowNext]_flowVars PROVE FlowIInv'
      OBVIOUS
    <2>0. FlowTypeOK /\ Table /\ Written
      BY DEF FlowIInv
    <2>1. ASSUME NEW l \in CfgLines, AddFlow(l) PROVE FlowIInv'
      <3>1. l \in [id : Int, mgen : BOOLEAN, start : Int, hyphen : BOOLEAN, end : Int]
        BY FlowsAssumption
      <3>2. Start(l) \in Nat /\ End(l) \in Nat
        BY <2>1, <3>1, FlowsAssumption DEF Start, End
      <3>3. Entry(l) \in Flow
        BY <3>1, <3>2, FlowsAssumption DEF Entry, Flow
      <3>4. nflows \in Nat /\ nflows' \in 0 .. MAXFLOWS /\ Index' = 0 .. nflows
        BY <2>0, <2>1, FlowsAssumption DEF FlowTypeOK, AddFlow, Accepted, Index
      <3>5. flows' \in [Index' -> Flow] /\ cfg' \in [Index' -> CfgLines]
        BY <2>0, <2>1, <3>3, <3>4 DEF FlowTypeOK, AddFlow, Extend, Index
      <3>6. FlowTypeOK'
        BY <2>0, <2>1, <3>4, <3>5 DEF FlowTypeOK, AddFlow
      <3>7. Table'
        BY <2>0, <2>1, <3>4 DEF FlowTypeOK, Table, AddFlow, Accepted, Extend, Index
      <3>8. Written'
        BY <2>0, <2>1 DEF Written, AddFlow
      <3> QED BY <3>6, <3>7, <3>8 DEF FlowIInv
    <2>2. CASE Loaded
      BY <2>0, <2>2
      DEF FlowIInv, FlowTypeOK, Table, Written, Loaded, Index, findflow, FlowLines, Hit
    <2>3. ASSUME NEW r \in Reports, consume(r) PROVE FlowIInv'
      <3>1. FlowTypeOK' /\ Table'
        BY <2>0, <2>3 DEF FlowTypeOK, Table, consume, Index
      <3>2. r.kind = "pkt" =>
              out' = IF findflow(r.dport, r.flowid) = {}
                     THEN Other("X", r.encapped)
                     ELSE FlowLines(r.dport, r.flowid, r.encapped)
        BY <2>3 DEF consume
      <3>3. rec' = r /\ loaded' /\ UNCHANGED <<flows, nflows>>
        BY <2>3 DEF consume
      <3>4. Written'
        BY <3>2, <3>3 DEF Written, findflow, FlowLines, Hit, Index
      <3> QED BY <3>1, <3>4 DEF FlowIInv
    <2>4. CASE UNCHANGED flowVars
      BY <2>0, <2>4
      DEF FlowIInv, FlowTypeOK, Table, Written, flowVars, Index, findflow, FlowLines, Hit
    <2> QED BY <2>1, <2>2, <2>3, <2>4 DEF FlowNext, RefuseFlow
  <1> QED BY <1>1, <1>2, PTL DEF FlowSpec

\* Every variable keeps its type; in particular the table never has more than
\* MAXFLOWS entries.
THEOREM FlowTypeCorrect == FlowSpec => []FlowTypeOK
  <1>1. FlowIInv => FlowTypeOK
    BY DEF FlowIInv
  <1> QED BY FlowInvariant, <1>1, PTL

\* findflow() and consume() classify exactly as long as the flows fit the bits
\* of an int.
THEOREM Exact == FlowSpec => []ClassifiedUpToInt
  <1>1. FlowIInv => ClassifiedUpToInt
    <2> SUFFICES ASSUME FlowIInv, Sound, nflows <= INTBITS, rec.kind = "pkt"
                 PROVE  {ln.flow : ln \in out} =
                          IF AskedFor(rec) = {} THEN {NoFlow} ELSE AskedFor(rec)
      BY DEF ClassifiedUpToInt, Classified
    <2>0. FlowTypeOK /\ Table /\ Written /\ rec \in Reports
      BY DEF FlowIInv, FlowTypeOK
    <2>1. \A k \in Index : Matches(flows[k], rec.dport, rec.flowid)
                             <=> Asks(cfg[k], rec)
      <3> TAKE k \in Index
      <3>1. cfg[k] \in CfgLines
        BY <2>0 DEF FlowTypeOK
      <3>2. flows[k] = Entry(cfg[k])
        BY <2>0 DEF Table
      <3> QED BY <2>0, <3>1, <3>2, EntryExact DEF Sound
    <2>2. Hit(rec.dport, rec.flowid) = AskedFor(rec)
      BY <2>0, <2>1, HitExact DEF AskedFor
    <2>3. findflow(rec.dport, rec.flowid) = {} <=> AskedFor(rec) = {}
      BY <2>1, MaskEmpty DEF AskedFor
    <2>4. CASE AskedFor(rec) = {}
      <3>1. out = Other("X", rec.encapped)
        BY <2>0, <2>3, <2>4 DEF Written
      <3>2. {ln.flow : ln \in Other("X", rec.encapped)} = {NoFlow}
        BY DEF Other
      <3> QED BY <2>4, <3>1, <3>2
    <2>5. CASE AskedFor(rec) # {}
      <3>1. out = FlowLines(rec.dport, rec.flowid, rec.encapped)
        BY <2>0, <2>3, <2>5 DEF Written
      <3>2. {ln.flow : ln \in out} = Hit(rec.dport, rec.flowid)
        <4> DEFINE H == Hit(rec.dport, rec.flowid)
                   L(k) == [flow |-> k, id |-> flows[k].id,
                            level |-> IF rec.encapped = 0 /\ \A j \in H : k <= j
                                      THEN 0 ELSE 1]
        <4>1. out = {L(k) : k \in H}
          BY <3>1 DEF FlowLines
        <4>2. \A k : L(k).flow = k
          OBVIOUS
        <4> HIDE DEF L, H
        <4>3. {ln.flow : ln \in out} = H
          BY <4>1, <4>2
        <4> QED BY <4>3 DEF H
      <3> QED BY <2>2, <2>5, <3>2
    <2> QED BY <2>4, <2>5
  <1> QED BY FlowInvariant, <1>1, PTL

\* Every packet is written exactly once at level 0 unless it is a relay, with
\* any number of flows.
THEOREM Primary == FlowSpec => []PrimaryOnce
  <1>1. FlowIInv => PrimaryOnce
    <2> SUFFICES ASSUME FlowIInv, rec.kind = "pkt", rec.encapped = 0
                 PROVE  \E ln \in out :
                          /\ ln.level = 0
                          /\ \A other \in out : other.level = 0 => other = ln
      BY DEF PrimaryOnce
    <2> DEFINE H == Hit(rec.dport, rec.flowid)
    <2>0. FlowTypeOK /\ Written
      BY DEF FlowIInv
    <2>1. CASE findflow(rec.dport, rec.flowid) = {}
      BY <2>0, <2>1 DEF Written, Other
    <2>2. CASE findflow(rec.dport, rec.flowid) # {}
      <3>1. H # {} /\ H \subseteq Nat
        <4>1. PICK k \in Index : Matches(flows[k], rec.dport, rec.flowid)
          BY <2>2, MaskEmpty
        <4>2. Bit(k) \subseteq findflow(rec.dport, rec.flowid)
          BY <4>1 DEF findflow
        <4>3. Bit(k) # {}
          BY BitNonempty DEF Index
        <4>4. k \in H
          BY <4>2, <4>3 DEF Hit
        <4> QED BY <4>4 DEF Hit, Index
      <3>2. PICK least \in H : \A k \in H : least <= k
        <4>1. PICK x \in H : \A y \in H : ~ (<<y, x>> \in OpToRel(<, Nat))
          BY <3>1, WFMin, NatLessThanWellFounded
        <4>2. \A y \in H : ~ (y < x)
          BY <3>1, <4>1 DEF OpToRel
        <4> QED BY <3>1, <4>2
      <3>3. out = FlowLines(rec.dport, rec.flowid, 0)
        BY <2>0, <2>2 DEF Written
      <3> DEFINE first == [flow |-> least, id |-> flows[least].id, level |-> 0]
      <3>4. first \in out
        BY <3>2, <3>3 DEF FlowLines
      <3>5. ASSUME NEW other \in out, other.level = 0 PROVE other = first
        <4>1. PICK k \in H :
                other = [flow |-> k, id |-> flows[k].id,
                         level |-> IF \A j \in H : k <= j THEN 0 ELSE 1]
          BY <3>3 DEF FlowLines
        <4>2. \A j \in H : k <= j
          BY <3>5, <4>1
        <4>3. k = least
          BY <3>1, <3>2, <4>2
        <4> QED BY <3>5, <4>1, <4>2, <4>3
      <3> QED BY <3>4, <3>5
    <2> QED BY <2>1, <2>2
  <1> QED BY FlowInvariant, <1>1, PTL
==============================================================================
