---------------------------- MODULE PcapperProofs ----------------------------
(***************************************************************************)
(* Proofs about module Pcapper, for any number of descriptors, connections *)
(* and records, and any sizes of buffers: descriptors are not confused and *)
(* do not leak, all collectors see the records in one order, and the       *)
(* threads implement the feed of module Feed.                              *)
(*                                                                         *)
(* The invariant is proved part by part.  Types says where each thread may *)
(* be, Owned to whom a descriptor belongs, Fresh that connections are      *)
(* taken once, Streams and Lagging what each collector has and how far it  *)
(* is behind while a sender is in its loop, and Logbook what of each       *)
(* thread is in the log.                                                   *)
(***************************************************************************)
EXTENDS Pcapper, WellFoundedInduction, SequenceTheorems, TLAPS

InLoop == {"send", "close"}
Pcs == FilePcs \union {"select", "join", "idle", "lock", "send", "close", "shut", "ended"}

\* Where each thread may be.  pcap_loop() has returned exactly when the other
\* threads have been cancelled, and all end together.
Control ==
    /\ pc["acc"] \in {"select", "join", "ended"}
    /\ pc["cap"] \in {"idle", "log", "lock", "send", "close", "shut", "ended"}
    /\ pc["stat"] \in FilePcs \union {"idle", "lock", "send", "close", "ended"}
    /\ cancelled <=> pc["cap"] \in {"shut", "ended"}
    /\ pc["cap"] = "ended" => pc["acc"] = "ended" /\ pc["stat"] = "ended"
    /\ \A t \in Threads : pc[t] \in {"join", "close"} => hold[t] # NoFd

\* The records of watchstat() come in pairs, so that the bound on its rounds is
\* one on its records.
Numbered ==
    LET r == rec["stat"]
    IN  /\ rec["cap"].kind \in {"none", "pkt"}
        /\ rec["cap"].n \in Nat
        /\ r.kind \in {"none", "cpu", "mem"}
        /\ r.kind = "cpu" => \E k \in 0 .. MaxTicks - 1 : r.n = 2 * k + 1
        /\ r.kind # "cpu" => \E k \in 0 .. MaxTicks : r.n = 2 * k
        /\ pc["stat"] \in {"init", "idle"} => r.kind # "cpu"
        /\ pc["stat"] = "readstat" => r.kind # "cpu" /\ r.n < 2 * MaxTicks
        /\ pc["stat"] = "readmem" => r.kind = "cpu"

Types == TypeOK /\ Control /\ Numbered

-----------------------------------------------------------------------------
(* Facts about the model's operators.                                      *)

\* The descriptor that open() and accept() take is not in use.
LEMMA LowestIsUnused == ASSUME Unused # {} PROVE LowestUnused \in Unused
  <1>1. Unused \subseteq Nat
    BY PcapperAssumption DEF Unused, Fd
  <1>2. PICK f \in Unused : \A g \in Unused : ~ (<<g, f>> \in OpToRel(<, Nat))
    BY <1>1, WFMin, NatLessThanWellFounded
  <1>3. \A g \in Unused : ~ (g < f)
    BY <1>1, <1>2 DEF OpToRel
  <1>4. \A g \in Unused : f <= g
    BY <1>1, <1>3
  <1> QED BY <1>4 DEF LowestUnused

\* Where a thread goes from a file.
LEMMA AfterFileIs ==
    ASSUME NEW ok \in BOOLEAN
    PROVE  /\ AfterFile("init", ok) \in {"idle", "ended"}
           /\ AfterFile("readstat", ok) = "log"
           /\ AfterFile("readmem", ok) = "log"
           /\ AfterFile("log", ok) = "lock"
  <1>1. AfterFile("init", ok) \in {"idle", "ended"}
    BY DEF AfterFile
  <1>2. AfterFile("readstat", ok) = "log"
    BY DEF AfterFile
  <1>3. AfterFile("readmem", ok) = "log"
    BY DEF AfterFile
  <1>4. AfterFile("log", ok) = "lock"
    BY DEF AfterFile
  <1> QED BY <1>1, <1>2, <1>3, <1>4

\* A record, by its fields.
LEMMA RecordIs ==
    /\ \A n \in 1 .. MaxPkts : [by |-> "cap", kind |-> "pkt", n |-> n] \in Records
    /\ \A n \in 1 .. 2 * MaxTicks :
          /\ [by |-> "stat", kind |-> "cpu", n |-> n] \in Records
          /\ [by |-> "stat", kind |-> "mem", n |-> n] \in Records
  BY DEF Records


\* The number of a new record of watchstat() is within bounds.
LEMMA ReportIs ==
    ASSUME Types, NEW t \in Senders, pc[t] \in FilePcs
    PROVE  /\ Report(t) \in Records
           /\ pc[t] \notin {"readstat", "readmem"} => Report(t) = rec[t]
           /\ pc[t] = "readstat" =>
                 /\ t = "stat" /\ Report(t).kind = "cpu"
                 /\ \E k \in 0 .. MaxTicks - 1 : Report(t).n = 2 * k + 1
           /\ pc[t] = "readmem" =>
                 /\ t = "stat" /\ Report(t).kind = "mem"
                 /\ \E k \in 0 .. MaxTicks : Report(t).n = 2 * k
  <1>0. MaxTicks \in Nat
    BY PcapperAssumption
  <1>1. CASE pc[t] = "readstat"
    <2>1. t = "stat" /\ Report(t) = [by |-> "stat", kind |-> "cpu", n |-> rec["stat"].n + 1]
      BY <1>1 DEF Types, Control, Senders, Report
    <2>2. PICK k \in 0 .. MaxTicks : rec["stat"].n = 2 * k
      BY <1>1, <2>1 DEF Types, Numbered
    <2>3. k \in 0 .. MaxTicks - 1
      BY <1>0, <1>1, <2>1, <2>2 DEF Types, Numbered
    <2>4. rec["stat"].n + 1 \in 1 .. 2 * MaxTicks /\ rec["stat"].n + 1 = 2 * k + 1
      BY <1>0, <2>2, <2>3
    <2>5. Report(t) \in Records
      BY <2>1, <2>4, RecordIs
    <2>6. Report(t).kind = "cpu" /\ Report(t).n = 2 * k + 1
      BY <2>1, <2>4
    <2> QED BY <1>1, <2>1, <2>3, <2>5, <2>6
  <1>2. CASE pc[t] = "readmem"
    <2>1. t = "stat" /\ Report(t) = [by |-> "stat", kind |-> "mem", n |-> rec["stat"].n + 1]
      BY <1>2 DEF Types, Control, Senders, Report
    <2>2. PICK k \in 0 .. MaxTicks - 1 : rec["stat"].n = 2 * k + 1
      BY <1>2, <2>1 DEF Types, Numbered
    <2>3. /\ k + 1 \in 0 .. MaxTicks /\ rec["stat"].n + 1 = 2 * (k + 1)
          /\ rec["stat"].n + 1 \in 1 .. 2 * MaxTicks
      BY <1>0, <2>2
    <2>4. Report(t) \in Records
      BY <2>1, <2>3, RecordIs
    <2>5. Report(t).kind = "mem" /\ Report(t).n = 2 * (k + 1)
      BY <2>1, <2>3
    <2> QED BY <1>2, <2>1, <2>3, <2>4, <2>5
  <1>3. CASE pc[t] \notin {"readstat", "readmem"}
    <2>1. Report(t) = rec[t]
      BY <1>3 DEF Report
    <2> QED BY <1>3, <2>1 DEF Types, TypeOK
  <1> QED BY <1>1, <1>2, <1>3

\* A thread has handled its file: readstat(), readmem() or logpkt() returns.
LEMMA FileDone ==
    ASSUME Types, NEW t \in Senders, pc[t] \in FilePcs, NEW ok \in BOOLEAN, Runs(t),
           pc' = [pc EXCEPT ![t] = AfterFile(pc[t], ok)],
           rec' = [rec EXCEPT ![t] = Report(t)],
           UNCHANGED cancelled,
           \A u \in Threads : u # t => hold'[u] = hold[u]
    PROVE  /\ Control' /\ Numbered'
           /\ pc' \in [Threads -> Pcs]
           /\ rec' \in [Senders -> Records]
           /\ \A u \in Senders : pc'[u] \in InLoop => pc[u] \in InLoop
  <1> DEFINE q == AfterFile(pc[t], ok)
  <1>1. /\ pc[t] = "init" => q \in {"idle", "ended"}
        /\ pc[t] \in {"readstat", "readmem"} => q = "log"
        /\ pc[t] = "log" => q = "lock"
    BY AfterFileIs DEF FilePcs
  <1>2. q \in {"idle", "ended", "log", "lock"}
    BY <1>1 DEF FilePcs
  <1> HIDE DEF q
  <1>3. t \in Threads /\ t # "acc"
    BY DEF Threads, Senders
  <1>4. /\ pc' = [pc EXCEPT ![t] = q]
        /\ pc \in [Threads -> Pcs]
    BY DEF q, Types, TypeOK, Pcs
  <1>5. pc'[t] = q /\ \A u \in Threads : u # t => pc'[u] = pc[u]
    BY <1>3, <1>4
  <1>6. t = "cap" => q = "lock"
    BY <1>1 DEF Types, Control, FilePcs
  <1>7. Control'
    <2>1. t = "cap" => pc["cap"] = "log" /\ ~ cancelled
      BY DEF Types, Control, FilePcs
    <2>2. CASE t = "cap"
      BY <1>2, <1>5, <1>6, <2>1, <2>2 DEF Types, Control, Threads, Senders
    <2>3. CASE t = "stat"
      BY <1>2, <1>5, <2>3 DEF Types, Control, Threads, Senders, Runs, FilePcs
    <2> QED BY <2>2, <2>3 DEF Senders
  <1>8. rec' \in [Senders -> Records]
    BY ReportIs DEF Types, TypeOK
  <1>9. Numbered'
    <2>1. CASE t = "cap"
      <3>1. Report(t) = rec[t]
        BY <2>1, ReportIs DEF Types, Control, FilePcs
      <3>2. rec' = rec
        BY <3>1 DEF Types, TypeOK
      <3>3. pc'["stat"] = pc["stat"]
        BY <1>5, <2>1 DEF Threads, Senders
      <3> QED BY <3>2, <3>3 DEF Types, Numbered
    <2>2. CASE t = "stat"
      <3>1. rec'["cap"] = rec["cap"] /\ rec'["stat"] = Report("stat") /\ pc'["stat"] = q
        BY <1>5, <2>2 DEF Types, TypeOK, Senders
      <3>2. CASE pc["stat"] = "readstat"
        BY <1>1, <2>2, <3>1, <3>2, ReportIs DEF Types, Numbered
      <3>3. CASE pc["stat"] = "readmem"
        BY <1>1, <2>2, <3>1, <3>3, ReportIs DEF Types, Numbered
      <3>4. CASE pc["stat"] \in {"init", "log"}
        <4>1. rec'["stat"] = rec["stat"]
          BY <2>2, <3>1, <3>4, ReportIs
        <4> QED BY <1>1, <2>2, <3>1, <3>4, <4>1 DEF Types, Numbered
      <3> QED BY <2>2, <3>2, <3>3, <3>4 DEF FilePcs
    <2> QED BY <2>1, <2>2 DEF Senders
  <1>10. \A u \in Senders : pc'[u] \in InLoop => pc[u] \in InLoop
    <2>1. q \notin InLoop
      BY <1>2 DEF InLoop
    <2> QED BY <1>5, <2>1 DEF Threads
  <1>11. pc' \in [Threads -> Pcs]
    <2>1. q \in Pcs
      BY <1>2 DEF Pcs, FilePcs
    <2> QED BY <1>4, <2>1
  <1> QED BY <1>7, <1>8, <1>9, <1>10, <1>11


\* The part of TypeOK that is not about the threads' places and records.
Data ==
    /\ hold \in [Threads -> Fd \union {NoFd}]
    /\ cursor \in [Senders -> 0 .. NFD]
    /\ bigfs \subseteq Fd
    /\ biglock \in Senders \union {NoOne}
    /\ fdt \in [Fd -> Conn \union {Free, File}]
    /\ backlog \in Seq(Conn)
    /\ peer \in [Conn -> {"none", "up", "closed", "reset"}]
    /\ sent \in [Conn -> Seq(Records)]
    /\ nread \in [Conn -> Nat]
    /\ log \in Seq(Records) /\ unlogged \subseteq Records
    /\ hist \in Seq(Records)
    /\ join \in [Conn -> Nat \union {NeverJoined}]
    /\ cancelled \in BOOLEAN

\* TypeOK in parts.
LEMMA TypeParts ==
    TypeOK <=> /\ Data
               /\ pc \in [Threads -> Pcs] /\ rec \in [Senders -> Records]
               /\ \A t \in Senders : pc[t] \in InLoop => biglock = t
  BY DEF TypeOK, Data, Pcs, InLoop

\* Every step keeps the types of the data.
LEMMA DataStep == Types /\ [Next]_vars => Data'
  <1> SUFFICES ASSUME Types, [Next]_vars PROVE Data'
    OBVIOUS
  <1>0. /\ Data /\ rec \in [Senders -> Records] /\ NFD \in Nat
    BY TypeParts, PcapperAssumption DEF Types
  <1>1. Unused # {} => LowestUnused \in Fd
    BY LowestIsUnused DEF Unused
  <1>2. CASE Accept
    <2>1. Head(backlog) \in Conn /\ Tail(backlog) \in Seq(Conn)
      BY <1>0, <1>2 DEF Accept, Data
    <2> QED BY <1>0, <1>1, <1>2, <2>1 DEF Accept, Data, logVars, feedVars
  <1>3. CASE Join
    <2>1. hold["acc"] \in Fd /\ Len(hist) \in Nat
      BY <1>0, <1>3 DEF Join, MayJoin, Data, Types, Control, Threads
    <2> QED BY <1>0, <1>3, <2>1 DEF Join, Data, netVars, logVars
  <1>4. ASSUME NEW t \in Senders, OpenFile(t) PROVE Data'
    BY <1>0, <1>1, <1>4 DEF OpenFile, Data, netVars, logVars, feedVars
  <1>5. ASSUME NEW t \in Senders, CloseFile(t) PROVE Data'
    <2>1. log' \in Seq(Records)
      BY <1>0, <1>5 DEF CloseFile, Data
    <2>2. /\ fdt' = [fdt EXCEPT ![hold[t]] = Free] /\ hold' = [hold EXCEPT ![t] = NoFd]
          /\ UNCHANGED <<cursor, cancelled, bigfs, biglock, netVars, unlogged, feedVars>>
      BY <1>5 DEF CloseFile
    <2> QED BY <1>0, <2>1, <2>2 DEF Data, netVars, feedVars
  <1>6. ASSUME NEW t \in Senders, OpenFails(t) PROVE Data'
    BY <1>0, <1>6 DEF OpenFails, Data, netVars, feedVars
  <1>7. ASSUME NEW t \in Senders, Lock(t) PROVE Data'
    <2>1. 0 \in 0 .. NFD /\ Append(hist, rec[t]) \in Seq(Records)
      BY <1>0 DEF Data
    <2> QED BY <1>0, <1>7, <2>1 DEF Lock, Data, netVars, logVars
  <1>8. ASSUME NEW t \in Senders, CloseConn(t) PROVE Data'
    <2>1. Past(hold[t]) \in 0 .. NFD
      <3>1. hold[t] \in Fd \union {NoFd}
        BY <1>0 DEF Data, Threads
      <3> QED BY <1>0, <3>1 DEF Past, Fd, NoFd
    <2> QED BY <1>0, <1>8, <2>1 DEF CloseConn, Closed, Data, netVars, logVars, feedVars
  <1>9. ASSUME NEW t \in Senders, Unlock(t) PROVE Data'
    BY <1>0, <1>9 DEF Unlock, Released, Data, netVars, logVars, feedVars
  <1>10. ASSUME NEW t \in Senders, NEW f \in Fd, SendOk(t, f) PROVE Data'
    <2>1. f + 1 \in 0 .. NFD
      BY <1>0 DEF Fd
    <2>2. cursor' \in [Senders -> 0 .. NFD]
      BY <1>0, <1>10, <2>1 DEF SendOk, Data
    <2>3. ASSUME NEW c \in Conn PROVE Append(sent[c], rec[t]) \in Seq(Records)
      BY <1>0 DEF Data
    <2>4. /\ sent' \in [Conn -> Seq(Records)]
          /\ peer' \in [Conn -> {"none", "up", "closed", "reset"}]
      BY <1>0, <1>10, <2>3 DEF SendOk, Data
    <2> QED BY <1>0, <1>10, <2>2, <2>4 DEF SendOk, Data, logVars, feedVars
  <1>11. ASSUME NEW t \in Senders, NEW f \in Fd, SendFails(t, f) PROVE Data'
    BY <1>0, <1>11 DEF SendFails, Clear, Data, netVars, logVars, feedVars
  <1>12. ASSUME NEW f \in Fd, ShutDown(f) PROVE Data'
    BY <1>0, <1>12 DEF ShutDown, Data, threadVars, netVars, logVars, feedVars
  <1>13. CASE Exit
    BY <1>0, <1>13 DEF Exit, Data, netVars, logVars, feedVars
  <1>14. CASE CaptureEnds
    BY <1>0, <1>14 DEF CaptureEnds, Data, netVars, logVars, feedVars
  <1>15. ASSUME NEW c \in Conn, CollectorJoins(c) PROVE Data'
    <2>1. Append(backlog, c) \in Seq(Conn)
      BY <1>0 DEF Data
    <2> QED BY <1>0, <1>15, <2>1 DEF CollectorJoins, Data, threadVars, logVars, feedVars
  <1>16. ASSUME NEW c \in Conn, CollectorReads(c) PROVE Data'
    BY <1>0, <1>16 DEF CollectorReads, Data, threadVars, logVars, feedVars
  <1>17. ASSUME NEW c \in Conn, CollectorLeaves(c) PROVE Data'
    BY <1>0, <1>17 DEF CollectorLeaves, Data, threadVars, logVars, feedVars
  <1>18. CASE UNCHANGED <<hold, cursor, bigfs, biglock, fdt, netVars, logVars, feedVars,
                          cancelled>>
    BY <1>0, <1>18 DEF Data, netVars, logVars, feedVars
  <1>19. ASSUME Tick \/ AcceptFails \/ UNCHANGED vars
                  \/ (\E p \in Packets : Capture(p) \/ Ignore(p))
         PROVE  UNCHANGED <<hold, cursor, bigfs, biglock, fdt, netVars, logVars, feedVars,
                            cancelled>>
    BY <1>19 DEF Tick, AcceptFails, Capture, Ignore, vars, threadVars
  <1> QED
    BY <1>2, <1>3, <1>4, <1>5, <1>6, <1>7, <1>8, <1>9, <1>10, <1>11, <1>12, <1>13, <1>14,
       <1>15, <1>16, <1>17, <1>18, <1>19
    DEF Next, SenderStep, Environment


\* Every step keeps the types, the places of the threads and the records' numbers.
LEMMA TypesStep == Types /\ [Next]_vars => Types'
  <1> SUFFICES ASSUME Types, [Next]_vars PROVE Types'
    OBVIOUS
  <1> DEFINE Mutex == \A t \in Senders : pc[t] \in InLoop => biglock = t
  <1>0. /\ Control /\ Numbered /\ pc \in [Threads -> Pcs] /\ rec \in [Senders -> Records]
        /\ Mutex /\ hold \in [Threads -> Fd \union {NoFd}]
    BY TypeParts DEF Types, Data
  <1>d. Data'
    BY DataStep
  <1> DEFINE Rest == /\ Control /\ Numbered /\ pc \in [Threads -> Pcs]
                     /\ rec \in [Senders -> Records] /\ Mutex
  <1> SUFFICES Rest'
    BY <1>d, TypeParts, PTL DEF Types
  <1>1. Senders = {"cap", "stat"} /\ Threads = {"cap", "stat", "acc"}
    BY DEF Senders, Threads
  <1>2. CASE Accept
    <2>1. /\ pc["acc"] = "select" /\ pc' = [pc EXCEPT !["acc"] = "join"]
          /\ hold' = [hold EXCEPT !["acc"] = LowestUnused]
          /\ Unused # {} /\ UNCHANGED <<rec, cancelled, biglock>>
      BY <1>2 DEF Accept
    <2>2. LowestUnused # NoFd
      BY <2>1, LowestIsUnused, PcapperAssumption DEF Unused, Fd, NoFd
    <2>3. "join" \in Pcs
      BY DEF Pcs
    <2> QED BY <1>0, <1>1, <2>1, <2>2, <2>3 DEF Control, Numbered
  <1>3. CASE Join
    <2>1. /\ pc["acc"] = "join" /\ pc' = [pc EXCEPT !["acc"] = "select"]
          /\ hold' = [hold EXCEPT !["acc"] = NoFd]
          /\ UNCHANGED <<rec, cancelled, biglock>>
      BY <1>3 DEF Join, MayJoin
    <2>2. "select" \in Pcs
      BY DEF Pcs
    <2> QED BY <1>0, <1>1, <2>1, <2>2 DEF Control, Numbered
  <1>4. ASSUME NEW p, Capture(p) PROVE Rest'
    <2>1. /\ pc["cap"] = "idle" /\ pc' = [pc EXCEPT !["cap"] = "log"]
          /\ rec["cap"].n < MaxPkts
          /\ rec' = [rec EXCEPT !["cap"] =
                       [by |-> "cap", kind |-> "pkt", n |-> rec["cap"].n + 1]]
          /\ UNCHANGED <<hold, cancelled, biglock>>
      BY <1>4 DEF Capture
    <2>2. "log" \in Pcs /\ "log" \notin InLoop
      BY DEF Pcs, FilePcs, InLoop
    <2>3. rec["cap"].n + 1 \in 1 .. MaxPkts
      BY <1>0, <2>1, PcapperAssumption DEF Numbered
    <2>4. [by |-> "cap", kind |-> "pkt", n |-> rec["cap"].n + 1] \in Records
      BY <2>3, RecordIs
    <2>5. rec' \in [Senders -> Records]
      BY <1>0, <2>1, <2>4
    <2>6. /\ rec'["stat"] = rec["stat"]
          /\ rec'["cap"] = [by |-> "cap", kind |-> "pkt", n |-> rec["cap"].n + 1]
          /\ pc'["stat"] = pc["stat"] /\ pc'["acc"] = pc["acc"] /\ pc'["cap"] = "log"
      BY <1>0, <1>1, <2>1
    <2>7. Numbered'
      BY <1>0, <2>3, <2>6 DEF Numbered
    <2>8. Control'
      BY <1>0, <1>1, <2>1, <2>6 DEF Control
    <2>9. Mutex'
      BY <1>0, <1>1, <2>1, <2>2, <2>6
    <2>10. pc' \in [Threads -> Pcs]
      BY <1>0, <2>1, <2>2
    <2> QED BY <2>5, <2>7, <2>8, <2>9, <2>10
  <1>5. CASE Tick
    <2>1. /\ pc["stat"] = "idle" /\ pc' = [pc EXCEPT !["stat"] = "readstat"] /\ ~ cancelled
          /\ rec["stat"].n < 2 * MaxTicks /\ UNCHANGED <<hold, rec, cancelled, biglock>>
      BY <1>5 DEF Tick, Runs
    <2>2. "readstat" \in Pcs /\ "readstat" \in FilePcs /\ "readstat" \notin InLoop
      BY DEF Pcs, FilePcs, InLoop
    <2> QED BY <1>0, <1>1, <2>1, <2>2 DEF Control, Numbered
  <1>6. ASSUME NEW t \in Senders, OpenFile(t) PROVE Rest'
    <2>1. /\ UNCHANGED <<pc, rec, cancelled, biglock>> /\ Unused # {} /\ t # "acc"
          /\ hold' = [hold EXCEPT ![t] = LowestUnused]
      BY <1>1, <1>6 DEF OpenFile
    <2>2. LowestUnused # NoFd
      BY <2>1, LowestIsUnused, PcapperAssumption DEF Unused, Fd, NoFd
    <2> QED BY <1>0, <1>1, <2>1, <2>2 DEF Control, Numbered
  <1>7. ASSUME NEW t \in Senders, NEW ok \in BOOLEAN, pc[t] \in FilePcs, Runs(t),
               pc' = [pc EXCEPT ![t] = AfterFile(pc[t], ok)],
               rec' = [rec EXCEPT ![t] = Report(t)],
               UNCHANGED <<cancelled, biglock>>,
               \A u \in Threads : u # t => hold'[u] = hold[u]
        PROVE  Rest'
    BY <1>0, <1>7, FileDone
  <1>8. ASSUME NEW t \in Senders, CloseFile(t) \/ OpenFails(t) PROVE Rest'
    <2>1. CASE CloseFile(t)
      BY <1>0, <1>7, <2>1 DEF CloseFile
    <2>2. CASE OpenFails(t)
      BY <1>0, <1>7, <2>2 DEF OpenFails
    <2> QED BY <1>8, <2>1, <2>2
  <1>9. ASSUME NEW t \in Senders, Lock(t) PROVE Rest'
    <2>1. /\ pc[t] = "lock" /\ biglock = NoOne /\ biglock' = t
          /\ pc' = [pc EXCEPT ![t] = "send"] /\ UNCHANGED <<hold, rec, cancelled>>
      BY <1>9 DEF Lock, MayLock
    <2>2. "send" \in Pcs /\ \A u \in Senders : pc[u] \notin InLoop
      BY <1>0, <2>1 DEF Pcs, NoOne, Senders
    <2> QED BY <1>0, <1>1, <2>1, <2>2 DEF Control, Numbered
  <1>10. ASSUME NEW t \in Senders, NEW f \in Fd, SendOk(t, f) PROVE Rest'
    <2>1. UNCHANGED <<pc, rec, cancelled, biglock, hold>>
      BY <1>10 DEF SendOk
    <2> QED BY <1>0, <2>1 DEF Control, Numbered
  <1>11. ASSUME NEW t \in Senders, NEW f \in Fd, SendFails(t, f) PROVE Rest'
    <2>1. /\ pc[t] = "send" /\ pc' = [pc EXCEPT ![t] = "close"]
          /\ hold' = [hold EXCEPT ![t] = f] /\ UNCHANGED <<rec, cancelled, biglock>>
      BY <1>11 DEF SendFails, Due
    <2>2. f # NoFd /\ "close" \in Pcs
      BY PcapperAssumption DEF Fd, NoFd, Pcs
    <2>3. pc[t] \in InLoop
      BY <2>1 DEF InLoop
    <2> QED BY <1>0, <1>1, <2>1, <2>2, <2>3 DEF Control, Numbered
  <1>12. ASSUME NEW t \in Senders, CloseConn(t) PROVE Rest'
    <2>1. /\ pc[t] = "close" /\ pc' = [pc EXCEPT ![t] = "send"]
          /\ hold' = [hold EXCEPT ![t] = NoFd] /\ UNCHANGED <<rec, cancelled, biglock>>
      BY <1>12 DEF CloseConn
    <2>2. pc[t] \in InLoop /\ "send" \in Pcs
      BY <2>1 DEF InLoop, Pcs
    <2> QED BY <1>0, <1>1, <2>1, <2>2 DEF Control, Numbered
  <1>13. ASSUME NEW t \in Senders, Unlock(t) PROVE Rest'
    <2>1. /\ pc[t] = "send" /\ UNCHANGED <<hold, rec, cancelled>>
          /\ pc' = [pc EXCEPT ![t] = IF rec[t].kind = "cpu" THEN "readmem" ELSE "idle"]
      BY <1>13 DEF Unlock
    <2>2. /\ "readmem" \in Pcs /\ "idle" \in Pcs /\ "readmem" \in FilePcs
          /\ "readmem" \notin InLoop /\ "idle" \notin InLoop
      BY DEF InLoop, Pcs, FilePcs
    <2>3. biglock = t /\ \A u \in Senders : u # t => pc[u] \notin InLoop
      BY <1>0, <2>1 DEF InLoop
    <2>4. Mutex'
      BY <1>0, <1>1, <2>1, <2>2, <2>3
    <2>5. Control' /\ Numbered'
      BY <1>0, <1>1, <2>1, <2>2 DEF Control, Numbered
    <2> QED BY <1>0, <2>1, <2>2, <2>4, <2>5
  <1>14. CASE CaptureEnds
    <2>1. /\ pc["cap"] = "idle" /\ pc' = [pc EXCEPT !["cap"] = "shut"] /\ cancelled' = TRUE
          /\ UNCHANGED <<hold, rec, biglock>>
      BY <1>14 DEF CaptureEnds
    <2>2. "shut" \in Pcs /\ "shut" \notin InLoop
      BY DEF InLoop, Pcs
    <2> QED BY <1>0, <1>1, <2>1, <2>2 DEF Control, Numbered
  <1>15. CASE Exit
    <2>1. /\ pc["cap"] = "shut" /\ pc' = [t \in Threads |-> "ended"]
          /\ UNCHANGED <<hold, rec, cancelled, biglock>>
      BY <1>15 DEF Exit
    <2>2. "ended" \in Pcs /\ "ended" \notin InLoop
      BY DEF InLoop, Pcs
    <2> QED BY <1>0, <1>1, <2>1, <2>2 DEF Control, Numbered
  <1>16. CASE UNCHANGED <<threadVars, biglock>>
    BY <1>0, <1>16 DEF threadVars, Control, Numbered
  <1>17. ASSUME \/ AcceptFails \/ Environment \/ UNCHANGED vars
                \/ \E f \in Fd : ShutDown(f)
                \/ \E p \in Packets : Ignore(p)
         PROVE  UNCHANGED <<threadVars, biglock>>
    BY <1>17 DEF AcceptFails, Environment, CollectorJoins, CollectorReads, CollectorLeaves,
                 ShutDown, Ignore, vars
  <1> HIDE DEF Rest
  <1> QED
    BY <1>2, <1>3, <1>4, <1>5, <1>6, <1>8, <1>9, <1>10, <1>11, <1>12, <1>13, <1>14,
       <1>15, <1>16, <1>17
    DEF Next, SenderStep


-----------------------------------------------------------------------------
(* Descriptors.                                                            *)

\* Until the process has ended, a descriptor in bigfs is a connection, unless
\* main() has already shut it down, each connection is on one descriptor, and
\* what a thread holds is what its place says and nobody else's.
Owned ==
    pc["cap"] # "ended" =>
        /\ \A f \in bigfs : fdt[f] \in Conn \/ (cancelled /\ fdt[f] = Free)
        /\ \A f, g \in Fd : fdt[f] \in Conn /\ fdt[f] = fdt[g] => f = g
        /\ \A t \in Threads : hold[t] # NoFd =>
              /\ pc[t] \in FilePcs \union {"join", "close"}
              /\ hold[t] \notin bigfs
              /\ pc[t] \in FilePcs => fdt[hold[t]] = File
              /\ pc[t] \in {"join", "close"} => fdt[hold[t]] \in Conn
              /\ \A u \in Threads : hold[u] = hold[t] => u = t
        /\ NoLeak

\* A connection that waits is on no descriptor and waits once, and one that has
\* not been made is nowhere.
Fresh ==
    /\ \A i \in 1 .. Len(backlog) :
          /\ peer[backlog[i]] # "none" /\ join[backlog[i]] = NeverJoined
          /\ \A f \in Fd : fdt[f] # backlog[i]
          /\ \A j \in 1 .. Len(backlog) : backlog[j] = backlog[i] => j = i
    /\ \A f \in Fd : fdt[f] \in Conn => peer[fdt[f]] # "none"
    /\ \A c \in Conn : peer[c] = "none" => join[c] = NeverJoined
    /\ pc["acc"] = "join" => join[fdt[hold["acc"]]] = NeverJoined

\* A free descriptor, a file and a connection are different things.
LEMMA Kinds ==
    /\ Free \notin Conn /\ File \notin Conn /\ File # Free
    /\ NoFd \notin Fd
    /\ "join" \notin FilePcs /\ "close" \notin FilePcs
    /\ Senders = {"cap", "stat"} /\ Threads = {"cap", "stat", "acc"}
  BY PcapperAssumption
  DEF Free, File, Conn, NoFd, Fd, FilePcs, Senders, Threads

\* What threads and descriptors are, for the lemmas below.
LEMMA TypedOwners ==
    ASSUME Types
    PROVE  /\ pc \in [Threads -> Pcs] /\ hold \in [Threads -> Fd \union {NoFd}]
           /\ bigfs \subseteq Fd /\ fdt \in [Fd -> Conn \union {Free, File}]
  BY TypeParts DEF Types, Data

\* A thread that holds no descriptor goes on.
LEMMA OwnedMove ==
    ASSUME Types, Owned, NEW t \in Threads, NEW q, hold[t] = NoFd,
           pc' = [pc EXCEPT ![t] = q], cancelled => cancelled',
           UNCHANGED <<hold, bigfs, fdt>>, pc["cap"] # "ended"
    PROVE  Owned'
  <1>1. \A u \in Threads : hold[u] # NoFd => pc'[u] = pc[u]
    BY TypedOwners
  <1> QED BY <1>1 DEF Owned, NoLeak

\* open() or accept() gives thread t a descriptor that was free.
LEMMA OwnedTake ==
    ASSUME Types, Owned, NEW t \in Threads, hold[t] = NoFd, Unused # {}, ~ cancelled,
           NEW v \in Conn \union {File}, NEW q, pc["cap"] # "ended",
           v \in Conn => q = "join" /\ \A f \in Fd : fdt[f] # v,
           v = File => q \in FilePcs,
           fdt' = [fdt EXCEPT ![LowestUnused] = v],
           hold' = [hold EXCEPT ![t] = LowestUnused],
           pc' = [pc EXCEPT ![t] = q],
           UNCHANGED <<cancelled, bigfs>>
    PROVE  Owned'
  <1> DEFINE f == LowestUnused
  <1>1. f \in Fd /\ fdt[f] = Free /\ f # NoFd
    BY LowestIsUnused, Kinds DEF Unused
  <1> HIDE DEF f
  <1>2. f \notin bigfs /\ \A u \in Threads : hold[u] # f
    BY <1>1, Kinds DEF Owned
  <1>3. /\ fdt'[f] = v /\ \A g \in Fd : g # f => fdt'[g] = fdt[g]
        /\ hold'[t] = f /\ pc'[t] = q
        /\ \A u \in Threads : u # t => hold'[u] = hold[u] /\ pc'[u] = pc[u]
    BY <1>1, TypedOwners DEF f
  <1>4. \A g \in bigfs : fdt'[g] \in Conn
    BY <1>2, <1>3, TypedOwners DEF Owned
  <1>5. \A g, h \in Fd : fdt'[g] \in Conn /\ fdt'[g] = fdt'[h] => g = h
    BY <1>1, <1>3, Kinds DEF Owned
  <1>6. ASSUME NEW u \in Threads, hold'[u] # NoFd
        PROVE  /\ pc'[u] \in FilePcs \union {"join", "close"}
               /\ hold'[u] \notin bigfs
               /\ pc'[u] \in FilePcs => fdt'[hold'[u]] = File
               /\ pc'[u] \in {"join", "close"} => fdt'[hold'[u]] \in Conn
               /\ \A w \in Threads : hold'[w] = hold'[u] => w = u
    <2>1. CASE u = t
      BY <1>2, <1>3, <2>1, Kinds
    <2>2. CASE u # t
      <3>1. hold[u] \in Fd /\ hold'[u] = hold[u] /\ pc'[u] = pc[u] /\ hold[u] # f
        BY <1>2, <1>3, <1>6, <2>2, TypedOwners
      <3>2. fdt'[hold[u]] = fdt[hold[u]]
        BY <1>3, <3>1
      <3>3. /\ pc[u] \in FilePcs \union {"join", "close"}
            /\ hold[u] \notin bigfs
            /\ pc[u] \in FilePcs => fdt[hold[u]] = File
            /\ pc[u] \in {"join", "close"} => fdt[hold[u]] \in Conn
            /\ \A w \in Threads : hold[w] = hold[u] => w = u
        BY <1>6, <3>1 DEF Owned
      <3>4. \A w \in Threads : hold'[w] = hold'[u] => w = u
        BY <1>3, <3>1, <3>3
      <3> QED BY <3>1, <3>2, <3>3, <3>4
    <2> QED BY <2>1, <2>2
  <1>7. NoLeak'
    <2> SUFFICES ASSUME NEW g \in Fd
                 PROVE  fdt'[g] = Free \/ g \in bigfs' \/ \E u \in Threads : hold'[u] = g
      BY DEF NoLeak
    <2>1. CASE g = f
      BY <1>3, <2>1
    <2>2. CASE g # f
      <3>1. fdt[g] = Free \/ g \in bigfs \/ \E u \in Threads : hold[u] = g
        BY DEF Owned, NoLeak
      <3>2. ASSUME NEW u \in Threads, hold[u] = g PROVE hold'[u] = g
        BY <1>3, <3>2, Kinds
      <3> QED BY <1>3, <2>2, <3>1, <3>2
    <2> QED BY <2>1, <2>2
  <1> QED BY <1>4, <1>5, <1>6, <1>7 DEF Owned

\* close() of what thread t holds.
LEMMA OwnedClose ==
    ASSUME Types, Owned, NEW t \in Threads, hold[t] # NoFd, NEW q, pc["cap"] # "ended",
           fdt' = [fdt EXCEPT ![hold[t]] = Free],
           hold' = [hold EXCEPT ![t] = NoFd],
           pc' = [pc EXCEPT ![t] = q],
           UNCHANGED <<cancelled, bigfs>>
    PROVE  Owned'
  <1> DEFINE f == hold[t]
  <1>1. f \in Fd /\ f \notin bigfs /\ \A u \in Threads : hold[u] = f => u = t
    BY TypedOwners DEF Owned
  <1>2. /\ fdt'[f] = Free /\ \A g \in Fd : g # f => fdt'[g] = fdt[g]
        /\ hold'[t] = NoFd
        /\ \A u \in Threads : u # t => hold'[u] = hold[u] /\ pc'[u] = pc[u]
    BY <1>1, TypedOwners
  <1> HIDE DEF f
  <1>3. \A g \in bigfs : fdt'[g] \in Conn \/ (cancelled /\ fdt'[g] = Free)
    BY <1>1, <1>2, TypedOwners DEF Owned
  <1>4. \A g, h \in Fd : fdt'[g] \in Conn /\ fdt'[g] = fdt'[h] => g = h
    BY <1>1, <1>2, Kinds DEF Owned
  <1>5. ASSUME NEW u \in Threads, hold'[u] # NoFd
        PROVE  /\ pc'[u] \in FilePcs \union {"join", "close"}
               /\ hold'[u] \notin bigfs
               /\ pc'[u] \in FilePcs => fdt'[hold'[u]] = File
               /\ pc'[u] \in {"join", "close"} => fdt'[hold'[u]] \in Conn
               /\ \A w \in Threads : hold'[w] = hold'[u] => w = u
    <2>1. u # t
      BY <1>2, <1>5
    <2>2. hold[u] \in Fd /\ hold'[u] = hold[u] /\ pc'[u] = pc[u] /\ hold[u] # f
      BY <1>1, <1>2, <1>5, <2>1, TypedOwners
    <2>3. fdt'[hold[u]] = fdt[hold[u]]
      BY <1>2, <2>2
    <2>4. /\ pc[u] \in FilePcs \union {"join", "close"}
          /\ hold[u] \notin bigfs
          /\ pc[u] \in FilePcs => fdt[hold[u]] = File
          /\ pc[u] \in {"join", "close"} => fdt[hold[u]] \in Conn
          /\ \A w \in Threads : hold[w] = hold[u] => w = u
      BY <1>5, <2>2 DEF Owned
    <2>5. \A w \in Threads : hold'[w] = hold'[u] => w = u
      BY <1>2, <1>5, <2>2, <2>4
    <2> QED BY <2>2, <2>3, <2>4, <2>5
  <1>6. NoLeak'
    <2> SUFFICES ASSUME ~ cancelled, NEW g \in Fd, g # f
                 PROVE  fdt'[g] = Free \/ g \in bigfs' \/ \E u \in Threads : hold'[u] = g
      BY <1>2 DEF NoLeak
    <2>1. fdt[g] = Free \/ g \in bigfs \/ \E u \in Threads : hold[u] = g
      BY DEF Owned, NoLeak
    <2>2. ASSUME NEW u \in Threads, hold[u] = g PROVE hold'[u] = g
      BY <1>2, <2>2 DEF f
    <2> QED BY <1>2, <2>1, <2>2
  <1> QED BY <1>3, <1>4, <1>5, <1>6 DEF Owned


\* FD_SET of what the acceptor has accepted.
LEMMA OwnedJoin ==
    ASSUME Types, Owned, Join PROVE Owned'
  <1> DEFINE f == hold["acc"]
  <1>1. /\ pc["acc"] = "join" /\ bigfs' = bigfs \union {f}
        /\ hold' = [hold EXCEPT !["acc"] = NoFd]
        /\ pc' = [pc EXCEPT !["acc"] = "select"] /\ UNCHANGED <<fdt, cancelled>>
    BY DEF Join, MayJoin
  <1>2. pc["cap"] # "ended" /\ f # NoFd
    BY <1>1, Kinds DEF Types, Control
  <1>3. f \in Fd /\ fdt[f] \in Conn /\ \A u \in Threads : hold[u] = f => u = "acc"
    BY <1>1, <1>2, TypedOwners, Kinds DEF Owned
  <1>4. hold'["acc"] = NoFd /\ \A u \in Threads : u # "acc" => hold'[u] = hold[u] /\ pc'[u] = pc[u]
    BY <1>1, TypedOwners, Kinds
  <1> HIDE DEF f
  <1>5. \A u \in Threads : hold'[u] # NoFd => u # "acc" /\ hold[u] # f
    BY <1>3, <1>4
  <1>6. NoLeak'
    <2> SUFFICES ASSUME ~ cancelled, NEW g \in Fd
                 PROVE  fdt[g] = Free \/ g \in bigfs' \/ \E u \in Threads : hold'[u] = g
      BY <1>1 DEF NoLeak
    <2>1. fdt[g] = Free \/ g \in bigfs \/ \E u \in Threads : hold[u] = g
      BY <1>2 DEF Owned, NoLeak
    <2>2. ASSUME NEW u \in Threads, hold[u] = g, u # "acc" PROVE hold'[u] = g
      BY <1>4, <2>2
    <2> QED BY <1>1, <2>1, <2>2 DEF f
  <1> QED BY <1>1, <1>2, <1>3, <1>4, <1>5, <1>6 DEF Owned

\* FD_CLR of a descriptor that send() failed for.
LEMMA OwnedFails ==
    ASSUME Types, Owned, NEW t \in Senders, NEW f \in Fd, SendFails(t, f)
    PROVE  Owned' /\ fdt[f] \in Conn
  <1>1. /\ pc[t] = "send" /\ f \in bigfs /\ bigfs' = bigfs \ {f} /\ Runs(t)
        /\ hold' = [hold EXCEPT ![t] = f] /\ pc' = [pc EXCEPT ![t] = "close"]
        /\ UNCHANGED <<fdt, cancelled>>
    BY DEF SendFails, Due, Clear
  <1>2. pc["cap"] # "ended" /\ ~ cancelled /\ t \in Threads
    BY <1>1, Kinds DEF Types, Control, Runs
  <1>3. fdt[f] \in Conn /\ f # NoFd /\ \A u \in Threads : hold[u] # f
    BY <1>1, <1>2, Kinds DEF Owned
  <1>4. /\ hold[t] = NoFd
        /\ hold'[t] = f /\ pc'[t] = "close"
        /\ \A u \in Threads : u # t => hold'[u] = hold[u] /\ pc'[u] = pc[u]
    BY <1>1, <1>2, TypedOwners DEF Owned, FilePcs
  <1>5. NoLeak'
    <2> SUFFICES ASSUME NEW g \in Fd
                 PROVE  fdt[g] = Free \/ g \in bigfs' \/ \E u \in Threads : hold'[u] = g
      BY <1>1 DEF NoLeak
    <2>1. fdt[g] = Free \/ g \in bigfs \/ \E u \in Threads : hold[u] = g
      BY <1>2 DEF Owned, NoLeak
    <2>2. ASSUME NEW u \in Threads, hold[u] = g PROVE hold'[u] = g
      BY <1>4, <2>2, Kinds
    <2> QED BY <1>1, <1>2, <1>4, <2>1, <2>2
  <1>6. ASSUME NEW u \in Threads, hold'[u] # NoFd
        PROVE  /\ pc'[u] \in FilePcs \union {"join", "close"}
               /\ hold'[u] \notin bigfs'
               /\ pc'[u] \in FilePcs => fdt[hold'[u]] = File
               /\ pc'[u] \in {"join", "close"} => fdt[hold'[u]] \in Conn
               /\ \A w \in Threads : hold'[w] = hold'[u] => w = u
    <2>1. CASE u = t
      BY <1>1, <1>3, <1>4, <2>1, Kinds
    <2>2. CASE u # t
      BY <1>1, <1>2, <1>3, <1>4, <1>6, <2>2 DEF Owned
    <2> QED BY <2>1, <2>2
  <1>7. /\ \A g \in bigfs' : fdt'[g] \in Conn
        /\ \A g, h \in Fd : fdt'[g] \in Conn /\ fdt'[g] = fdt'[h] => g = h
    BY <1>1, <1>2 DEF Owned
  <1> QED BY <1>1, <1>3, <1>5, <1>6, <1>7 DEF Owned

\* Every step keeps the owners of the descriptors.
LEMMA OwnedStep == Types /\ Owned /\ Fresh /\ [Next]_vars => Owned'
  <1> SUFFICES ASSUME Types, Owned, Fresh, [Next]_vars PROVE Owned'
    OBVIOUS
  <1>1. ASSUME NEW t \in Senders, pc[t] \in FilePcs \union {"idle", "lock", "send", "close"},
               Runs(t)
        PROVE  t \in Threads /\ pc["cap"] # "ended" /\ ~ cancelled
    BY <1>1, Kinds DEF Types, Control, Runs, FilePcs
  <1>2. CASE Accept
    <2>1. pc["acc"] = "select" /\ ~ cancelled /\ backlog # <<>> /\ Unused # {}
      BY <1>2 DEF Accept, Runs
    <2>2. pc["cap"] # "ended" /\ hold["acc"] = NoFd
      BY <2>1, Kinds DEF Types, Control, Owned, FilePcs
    <2>3. Head(backlog) \in Conn /\ \A f \in Fd : fdt[f] # Head(backlog)
      <3>1. backlog \in Seq(Conn)
        BY TypeParts DEF Types, Data
      <3>2. 1 \in 1 .. Len(backlog) /\ Head(backlog) = backlog[1]
        BY <2>1, <3>1
      <3> QED BY <3>1, <3>2 DEF Fresh
    <2>4. /\ fdt' = [fdt EXCEPT ![LowestUnused] = Head(backlog)]
          /\ hold' = [hold EXCEPT !["acc"] = LowestUnused]
          /\ pc' = [pc EXCEPT !["acc"] = "join"] /\ UNCHANGED <<cancelled, bigfs>>
      BY <1>2 DEF Accept
    <2> QED BY <2>1, <2>2, <2>3, <2>4, OwnedTake, Kinds
  <1>3. CASE Join
    BY <1>3, OwnedJoin
  <1>4. ASSUME NEW p, Capture(p) PROVE Owned'
    <2>1. pc["cap"] = "idle" /\ pc' = [pc EXCEPT !["cap"] = "log"]
          /\ UNCHANGED <<hold, bigfs, fdt, cancelled>>
      BY <1>4 DEF Capture
    <2>2. pc["cap"] # "ended" /\ hold["cap"] = NoFd
      BY <2>1, Kinds DEF Owned, FilePcs
    <2> QED BY <2>1, <2>2, OwnedMove, Kinds
  <1>5. CASE Tick
    <2>1. pc["stat"] = "idle" /\ pc' = [pc EXCEPT !["stat"] = "readstat"]
          /\ UNCHANGED <<hold, bigfs, fdt, cancelled>>
      BY <1>5 DEF Tick
    <2>2. pc["cap"] # "ended" /\ hold["stat"] = NoFd
      BY <2>1, Kinds DEF Owned, FilePcs, Types, Control
    <2> QED BY <2>1, <2>2, OwnedMove, Kinds
  <1>6. ASSUME NEW t \in Senders, OpenFile(t) PROVE Owned'
    <2>1. /\ pc[t] \in FilePcs /\ hold[t] = NoFd /\ Runs(t) /\ Unused # {}
          /\ fdt' = [fdt EXCEPT ![LowestUnused] = File]
          /\ hold' = [hold EXCEPT ![t] = LowestUnused]
          /\ UNCHANGED <<pc, cancelled, bigfs>>
      BY <1>6 DEF OpenFile
    <2>2. pc' = [pc EXCEPT ![t] = pc[t]]
      BY <2>1, TypedOwners, Kinds
    <2> QED BY <1>1, <2>1, <2>2, OwnedTake, Kinds
  <1>7. ASSUME NEW t \in Senders, CloseFile(t) PROVE Owned'
    <2>1. /\ pc[t] \in FilePcs /\ hold[t] # NoFd /\ Runs(t)
          /\ fdt' = [fdt EXCEPT ![hold[t]] = Free] /\ hold' = [hold EXCEPT ![t] = NoFd]
          /\ pc' = [pc EXCEPT ![t] = AfterFile(pc[t], TRUE)]
          /\ UNCHANGED <<cancelled, bigfs>>
      BY <1>7 DEF CloseFile
    <2> QED BY <1>1, <2>1, OwnedClose
  <1>8. ASSUME NEW t \in Senders, OpenFails(t) PROVE Owned'
    <2>1. /\ pc[t] \in FilePcs /\ hold[t] = NoFd /\ Runs(t)
          /\ pc' = [pc EXCEPT ![t] = AfterFile(pc[t], FALSE)]
          /\ UNCHANGED <<hold, bigfs, fdt, cancelled>>
      BY <1>8 DEF OpenFails
    <2> QED BY <1>1, <2>1, OwnedMove
  <1>9. ASSUME NEW t \in Senders, Lock(t) \/ Unlock(t) PROVE Owned'
    <2>1. pc[t] \in {"lock", "send"} /\ UNCHANGED <<hold, bigfs, fdt, cancelled>>
      BY <1>9 DEF Lock, MayLock, Unlock
    <2>2. \E q : pc' = [pc EXCEPT ![t] = q]
      BY <1>9 DEF Lock, Unlock
    <2>3. pc["cap"] # "ended" /\ hold[t] = NoFd /\ t \in Threads
      BY <2>1, Kinds DEF Types, Control, Owned, FilePcs
    <2> QED BY <2>1, <2>2, <2>3, OwnedMove
  <1>10. ASSUME NEW t \in Senders, NEW f \in Fd, SendOk(t, f) PROVE Owned'
    <2>1. UNCHANGED <<pc, hold, bigfs, fdt, cancelled>>
      BY <1>10 DEF SendOk
    <2> QED BY <2>1 DEF Owned, NoLeak
  <1>11. ASSUME NEW t \in Senders, NEW f \in Fd, SendFails(t, f) PROVE Owned'
    BY <1>11, OwnedFails
  <1>12. ASSUME NEW t \in Senders, CloseConn(t) PROVE Owned'
    <2>1. /\ pc[t] = "close" /\ Runs(t)
          /\ fdt' = [fdt EXCEPT ![hold[t]] = Free] /\ hold' = [hold EXCEPT ![t] = NoFd]
          /\ pc' = [pc EXCEPT ![t] = "send"] /\ UNCHANGED <<cancelled, bigfs>>
      BY <1>12 DEF CloseConn, Closed
    <2>2. hold[t] # NoFd
      BY <1>1, <2>1 DEF Types, Control
    <2> QED BY <1>1, <2>1, <2>2, OwnedClose
  <1>13. CASE CaptureEnds
    <2>1. pc["cap"] = "idle" /\ pc' = [pc EXCEPT !["cap"] = "shut"] /\ cancelled'
          /\ UNCHANGED <<hold, bigfs, fdt>>
      BY <1>13 DEF CaptureEnds
    <2>2. pc["cap"] # "ended" /\ hold["cap"] = NoFd
      BY <2>1, Kinds DEF Owned, FilePcs
    <2> QED BY <2>1, <2>2, OwnedMove, Kinds
  <1>14. ASSUME NEW f \in Fd, ShutDown(f) PROVE Owned'
    <2>1. /\ pc["cap"] = "shut" /\ f \in bigfs /\ fdt' = [fdt EXCEPT ![f] = Free]
          /\ UNCHANGED <<pc, hold, bigfs, cancelled>>
      BY <1>14 DEF ShutDown, threadVars
    <2>2. cancelled /\ cancelled'
      BY <2>1 DEF Types, Control
    <2>3. fdt'[f] = Free /\ \A g \in Fd : g # f => fdt'[g] = fdt[g]
      BY <2>1, TypedOwners
    <2>4. NoLeak'
      BY <2>2 DEF NoLeak
    <2>5. \A u \in Threads : hold[u] # NoFd => hold[u] # f /\ hold[u] \in Fd
      BY <2>1, TypedOwners DEF Owned
    <2> QED BY <2>1, <2>2, <2>3, <2>4, <2>5, TypedOwners, Kinds DEF Owned
  <1>15. CASE Exit
    <2>1. pc'["cap"] = "ended"
      BY <1>15, Kinds DEF Exit
    <2> QED BY <2>1 DEF Owned
  <1>16. CASE UNCHANGED <<threadVars, bigfs, fdt>>
    BY <1>16 DEF threadVars, Owned, NoLeak
  <1>17. ASSUME \/ AcceptFails \/ Environment \/ UNCHANGED vars
                \/ \E p \in Packets : Ignore(p)
         PROVE  UNCHANGED <<threadVars, bigfs, fdt>>
    BY <1>17 DEF AcceptFails, Environment, CollectorJoins, CollectorReads, CollectorLeaves,
                 Ignore, vars
  <1> QED
    BY <1>2, <1>3, <1>4, <1>5, <1>6, <1>7, <1>8, <1>9, <1>10, <1>11, <1>12, <1>13, <1>14,
       <1>15, <1>16, <1>17
    DEF Next, SenderStep

\* A step that enters, accepts and makes no connection.
LEMMA FreshSame ==
    ASSUME Types, Fresh, UNCHANGED <<backlog, join>>,
           \A f \in Fd : fdt'[f] \in Conn => fdt'[f] = fdt[f],
           \A c \in Conn : peer'[c] = "none" <=> peer[c] = "none",
           pc'["acc"] = "join" => /\ pc["acc"] = "join"
                                  /\ fdt'[hold'["acc"]] = fdt[hold["acc"]]
    PROVE  Fresh'
  <1>1. backlog \in Seq(Conn)
    BY TypeParts DEF Types, Data
  <1>2. \A i \in 1 .. Len(backlog) : backlog[i] \in Conn
    BY <1>1
  <1>3. ASSUME NEW i \in 1 .. Len(backlog)
        PROVE  /\ peer'[backlog[i]] # "none" /\ join[backlog[i]] = NeverJoined
               /\ \A f \in Fd : fdt'[f] # backlog[i]
               /\ \A j \in 1 .. Len(backlog) : backlog[j] = backlog[i] => j = i
    BY <1>2 DEF Fresh
  <1>4. \A f \in Fd : fdt'[f] \in Conn => peer'[fdt'[f]] # "none"
    BY DEF Fresh
  <1>5. \A c \in Conn : peer'[c] = "none" => join[c] = NeverJoined
    BY DEF Fresh
  <1>6. pc'["acc"] = "join" => join'[fdt'[hold'["acc"]]] = NeverJoined
    BY DEF Fresh
  <1> QED BY <1>3, <1>4, <1>5, <1>6 DEF Fresh

\* Every step keeps connections from being entered twice.
LEMMA FreshStep == Types /\ Owned /\ Fresh /\ [Next]_vars => Fresh'
  <1> SUFFICES ASSUME Types, Owned, Fresh, [Next]_vars PROVE Fresh'
    OBVIOUS
  <1>0. /\ backlog \in Seq(Conn) /\ join \in [Conn -> Nat \union {NeverJoined}]
        /\ peer \in [Conn -> {"none", "up", "closed", "reset"}]
        /\ hold \in [Threads -> Fd \union {NoFd}] /\ pc \in [Threads -> Pcs]
        /\ fdt \in [Fd -> Conn \union {Free, File}]
        /\ hist \in Seq(Records)
    BY TypeParts DEF Types, Data
  <1>j. ASSUME pc["acc"] = "join"
        PROVE  /\ pc["cap"] # "ended" /\ hold["acc"] # NoFd /\ hold["acc"] \in Fd
               /\ hold["acc"] \notin bigfs /\ fdt[hold["acc"]] \in Conn
               /\ \A u \in Threads : hold[u] = hold["acc"] => u = "acc"
    <2>1. pc["cap"] # "ended" /\ hold["acc"] # NoFd
      BY <1>j, Kinds DEF Types, Control
    <2> QED BY <1>j, <1>0, <2>1, Kinds DEF Owned
  <1>2. CASE Accept
    <2> DEFINE f == LowestUnused
               c == Head(backlog)
    <2>1. /\ backlog # <<>> /\ Unused # {} /\ fdt' = [fdt EXCEPT ![f] = c]
          /\ hold' = [hold EXCEPT !["acc"] = f] /\ backlog' = Tail(backlog)
          /\ UNCHANGED <<peer, join>>
      BY <1>2 DEF Accept, feedVars
    <2>2. f \in Fd
      BY <2>1, LowestIsUnused DEF Unused
    <2>3. /\ c = backlog[1] /\ 1 \in 1 .. Len(backlog) /\ c \in Conn
          /\ backlog' \in Seq(Conn) /\ Len(backlog') = Len(backlog) - 1
          /\ \A i \in 1 .. Len(backlog') : backlog'[i] = backlog[i + 1]
      BY <1>0, <2>1
    <2>4. \A i \in 1 .. Len(backlog') : i + 1 \in 1 .. Len(backlog) /\ i + 1 # 1
      BY <1>0, <2>3
    <2> HIDE DEF f, c
    <2>5. fdt'[f] = c /\ \A g \in Fd : g # f => fdt'[g] = fdt[g]
      BY <1>0, <2>1, <2>2
    <2>6. ASSUME NEW i \in 1 .. Len(backlog')
          PROVE  /\ peer[backlog'[i]] # "none" /\ join[backlog'[i]] = NeverJoined
                 /\ \A g \in Fd : fdt'[g] # backlog'[i]
                 /\ \A j \in 1 .. Len(backlog') : backlog'[j] = backlog'[i] => j = i
      <3>1. backlog'[i] # c
        BY <2>3, <2>4 DEF Fresh
      <3>2. \A j \in 1 .. Len(backlog') : backlog'[j] = backlog'[i] => j + 1 = i + 1
        BY <2>3, <2>4 DEF Fresh
      <3>3. \A g \in Fd : fdt'[g] # backlog'[i]
        BY <2>3, <2>4, <2>5, <3>1 DEF Fresh
      <3> QED BY <2>3, <2>4, <3>2, <3>3 DEF Fresh
    <2>7. \A g \in Fd : fdt'[g] \in Conn => peer[fdt'[g]] # "none"
      BY <2>3, <2>5 DEF Fresh
    <2>8. join[fdt'[hold'["acc"]]] = NeverJoined
      BY <1>0, <2>1, <2>3, <2>5, Kinds DEF Fresh
    <2> QED BY <2>1, <2>6, <2>7, <2>8 DEF Fresh
  <1>3. CASE Join
    <2> DEFINE c == fdt[hold["acc"]]
    <2>1. /\ pc["acc"] = "join" /\ join' = [join EXCEPT ![c] = Len(hist)]
          /\ pc' = [pc EXCEPT !["acc"] = "select"] /\ UNCHANGED <<fdt, backlog, peer>>
      BY <1>3 DEF Join, MayJoin, netVars
    <2>2. c \in Conn /\ peer[c] # "none" /\ \A i \in 1 .. Len(backlog) : backlog[i] # c
      BY <1>j, <2>1 DEF Fresh
    <2> HIDE DEF c
    <2>3. /\ \A d \in Conn : d # c => join'[d] = join[d]
          /\ pc'["acc"] = "select"
      BY <1>0, <2>1, Kinds
    <2>4. \A i \in 1 .. Len(backlog) : backlog[i] \in Conn
      BY <1>0
    <2> QED BY <2>1, <2>2, <2>3, <2>4 DEF Fresh
  <1>4. ASSUME NEW t \in Senders, OpenFile(t) PROVE Fresh'
    <2>1. /\ Unused # {} /\ fdt' = [fdt EXCEPT ![LowestUnused] = File]
          /\ hold' = [hold EXCEPT ![t] = LowestUnused]
          /\ UNCHANGED <<pc, backlog, peer, join>>
      BY <1>4 DEF OpenFile, netVars, feedVars
    <2>2. LowestUnused \in Fd /\ fdt[LowestUnused] = Free
      BY <2>1, LowestIsUnused DEF Unused
    <2>3. \A f \in Fd : fdt'[f] \in Conn => fdt'[f] = fdt[f]
      BY <1>0, <2>1, <2>2, Kinds
    <2>4. pc["acc"] = "join" => fdt'[hold'["acc"]] = fdt[hold["acc"]]
      BY <1>0, <1>j, <2>1, <2>2, Kinds
    <2> QED BY <2>1, <2>3, <2>4, FreshSame
  <1>5. ASSUME NEW t \in Senders, CloseFile(t) \/ CloseConn(t) PROVE Fresh'
    <2>1. /\ fdt' = [fdt EXCEPT ![hold[t]] = Free]
          /\ hold' = [hold EXCEPT ![t] = NoFd]
          /\ UNCHANGED <<backlog, peer, join>>
      BY <1>5 DEF CloseFile, CloseConn, Closed, netVars, feedVars
    <2>2. pc'["acc"] = pc["acc"] /\ t # "acc" /\ t \in Threads
      BY <1>0, <1>5, Kinds DEF CloseFile, CloseConn
    <2>3. \A f \in Fd : fdt'[f] \in Conn => fdt'[f] = fdt[f]
      BY <1>0, <2>1, Kinds
    <2>4. pc["acc"] = "join" => fdt'[hold'["acc"]] = fdt[hold["acc"]]
      BY <1>0, <1>j, <2>1, <2>2, Kinds
    <2> QED BY <2>1, <2>2, <2>3, <2>4, FreshSame
  <1>6. ASSUME NEW t \in Senders, NEW f \in Fd, SendOk(t, f) PROVE Fresh'
    <2>1. UNCHANGED <<pc, hold, fdt, backlog, join>>
      BY <1>6 DEF SendOk, feedVars
    <2>2. \A c \in Conn : peer'[c] = "none" <=> peer[c] = "none"
      BY <1>0, <1>6 DEF SendOk
    <2> QED BY <2>1, <2>2, FreshSame
  <1>7. ASSUME NEW t \in Senders, NEW f \in Fd, SendFails(t, f) PROVE Fresh'
    <2>1. /\ hold' = [hold EXCEPT ![t] = f] /\ pc' = [pc EXCEPT ![t] = "close"]
          /\ UNCHANGED <<fdt, backlog, peer, join>>
      BY <1>7 DEF SendFails, netVars, feedVars
    <2>2. pc'["acc"] = pc["acc"] /\ hold'["acc"] = hold["acc"]
      BY <1>0, <2>1, Kinds
    <2> QED BY <2>1, <2>2, FreshSame
  <1>8. ASSUME NEW f \in Fd, ShutDown(f) PROVE Fresh'
    <2>1. /\ f \in bigfs /\ fdt' = [fdt EXCEPT ![f] = Free]
          /\ UNCHANGED <<pc, hold, backlog, peer, join>>
      BY <1>8 DEF ShutDown, threadVars, netVars, feedVars
    <2>2. \A g \in Fd : fdt'[g] \in Conn => fdt'[g] = fdt[g]
      BY <1>0, <2>1, Kinds
    <2>3. pc["acc"] = "join" => fdt'[hold["acc"]] = fdt[hold["acc"]]
      BY <1>0, <1>j, <2>1
    <2> QED BY <2>1, <2>2, <2>3, FreshSame
  <1>9. CASE Exit
    <2>1. /\ fdt' = [f \in Fd |-> Free] /\ pc'["acc"] = "ended"
          /\ UNCHANGED <<backlog, peer, join>>
      BY <1>9, Kinds DEF Exit, netVars, feedVars
    <2>2. \A g \in Fd : fdt'[g] \in Conn => fdt'[g] = fdt[g]
      BY <2>1, Kinds
    <2> QED BY <2>1, <2>2, FreshSame
  <1>10. ASSUME NEW c \in Conn, CollectorJoins(c) PROVE Fresh'
    <2>1. /\ peer[c] = "none" /\ peer' = [peer EXCEPT ![c] = "up"]
          /\ backlog' = Append(backlog, c) /\ UNCHANGED <<pc, hold, fdt, join>>
      BY <1>10 DEF CollectorJoins, threadVars, feedVars
    <2>2. /\ Len(backlog') = Len(backlog) + 1 /\ backlog'[Len(backlog) + 1] = c
          /\ \A i \in 1 .. Len(backlog) : backlog'[i] = backlog[i] /\ backlog[i] \in Conn
          /\ \A i \in 1 .. Len(backlog') : i \in 1 .. Len(backlog) \/ i = Len(backlog) + 1
      BY <1>0, <2>1
    <2>3. \A i \in 1 .. Len(backlog) : backlog[i] # c
      BY <2>1 DEF Fresh
    <2>4. join[c] = NeverJoined /\ \A f \in Fd : fdt[f] # c
      BY <2>1 DEF Fresh
    <2>5. peer'[c] = "up" /\ \A d \in Conn : d # c => peer'[d] = peer[d]
      BY <1>0, <2>1
    <2>6. ASSUME NEW i \in 1 .. Len(backlog')
          PROVE  /\ peer'[backlog'[i]] # "none" /\ join[backlog'[i]] = NeverJoined
                 /\ \A f \in Fd : fdt[f] # backlog'[i]
                 /\ \A j \in 1 .. Len(backlog') : backlog'[j] = backlog'[i] => j = i
      <3>1. CASE i \in 1 .. Len(backlog)
        BY <2>2, <2>3, <2>5, <3>1 DEF Fresh
      <3>2. CASE i = Len(backlog) + 1
        BY <2>2, <2>3, <2>4, <2>5, <3>2
      <3> QED BY <2>2, <3>1, <3>2
    <2>7. \A f \in Fd : fdt[f] \in Conn => peer'[fdt[f]] # "none"
      BY <2>4, <2>5 DEF Fresh
    <2>8. \A d \in Conn : peer'[d] = "none" => join[d] = NeverJoined
      BY <2>5 DEF Fresh
    <2> QED BY <2>1, <2>6, <2>7, <2>8 DEF Fresh
  <1>11. ASSUME NEW c \in Conn, CollectorLeaves(c) PROVE Fresh'
    <2>1. UNCHANGED <<pc, hold, fdt, backlog, join>>
      BY <1>11 DEF CollectorLeaves, threadVars, feedVars
    <2>2. \A d \in Conn : peer'[d] = "none" <=> peer[d] = "none"
      BY <1>0, <1>11 DEF CollectorLeaves
    <2> QED BY <2>1, <2>2, FreshSame
  <1>12. CASE /\ UNCHANGED <<hold, fdt, backlog, peer, join>>
              /\ pc'["acc"] = pc["acc"]
    BY <1>12, FreshSame
  <1>13. ASSUME \/ AcceptFails \/ Tick \/ CaptureEnds \/ UNCHANGED vars
                \/ \E p \in Packets : Capture(p) \/ Ignore(p)
                \/ \E c \in Conn : CollectorReads(c)
                \/ \E t \in Senders : OpenFails(t) \/ Lock(t) \/ Unlock(t)
         PROVE  /\ UNCHANGED <<hold, fdt, backlog, peer, join>>
                /\ pc'["acc"] = pc["acc"]
    <2>1. UNCHANGED <<hold, fdt, backlog, peer, join>>
      BY <1>13 DEF AcceptFails, Tick, CaptureEnds, Capture, Ignore, CollectorReads, OpenFails,
                   Lock, Unlock, vars, threadVars, netVars, feedVars
    <2>2. UNCHANGED pc \/ \E t \in Senders : \E q : pc' = [pc EXCEPT ![t] = q]
      BY <1>13, Kinds DEF AcceptFails, Tick, CaptureEnds, Capture, Ignore, CollectorReads,
                   OpenFails, Lock, Unlock, vars, threadVars
    <2> QED BY <1>0, <2>1, <2>2, Kinds
  <1> QED
    BY <1>2, <1>3, <1>4, <1>5, <1>6, <1>7, <1>8, <1>9, <1>10, <1>11, <1>12, <1>13
    DEF Next, SenderStep, Environment

-----------------------------------------------------------------------------
(* The order of the records.                                               *)

\* Collector c lacks records that were broadcast since it was entered.
Behind(c) == join[c] # NeverJoined /\ join[c] + Len(sent[c]) < Len(hist)

\* Collector c has been entered and its connection is not lost.
Live(c) == join[c] # NeverJoined /\ peer[c] = "up"

\* What each collector was sent is a part of the broadcasts.
Streams ==
    \A c \in Conn :
        /\ join[c] = NeverJoined => sent[c] = <<>>
        /\ join[c] # NeverJoined =>
             /\ join[c] + Len(sent[c]) <= Len(hist)
             /\ \A i \in 1 .. Len(sent[c]) : sent[c][i] = hist[join[c] + i]

\* While a sender is in its loop, the last broadcast is its record; a live
\* collector lacks this one at most, and does exactly when its descriptor is still
\* before the loop.  After pcap_loop() has returned the loop goes nowhere, and the
\* descriptor may be closed.
Lagging ==
    /\ \A t \in Senders : pc[t] \in InLoop =>
          /\ hist # <<>> /\ hist[Len(hist)] = rec[t]
          /\ \A c \in Conn : Live(c) /\ Behind(c) =>
                \E f \in bigfs : f >= cursor[t] /\ (fdt[f] = c \/ cancelled)
          /\ \A f \in bigfs : fdt[f] \in Conn /\ Live(fdt[f]) /\ f >= cursor[t] =>
                Behind(fdt[f])
    /\ \A t \in Senders : pc[t] = "close" =>
          /\ hold[t] >= cursor[t]
          /\ \A g \in bigfs : g >= cursor[t] => g > hold[t]
    /\ \A c \in Conn : Live(c) =>
          /\ \E f \in bigfs : fdt[f] = c \/ cancelled
          /\ Behind(c) => biglock # NoOne /\ Len(hist) = join[c] + Len(sent[c]) + 1
    /\ \A f \in bigfs : fdt[f] \in Conn => join[fdt[f]] # NeverJoined

\* Of thread t's records, the ones in the log are those broadcast and not
\* reported as unlogged; or the last one has not been broadcast yet, and is in
\* the log or reported.
Settled(t) == By(log, t) = By(hist, t) \ unlogged
Older(S, t) == \A r \in S : r.n < rec[t].n
Ahead(t) ==
    /\ rec[t] \in By(log, t) /\ rec[t] \notin unlogged
    /\ By(hist, t) \ unlogged = By(log, t) \ {rec[t]}
    /\ Older(By(hist, t), t)
Skipped(t) == Settled(t) /\ rec[t] \in unlogged /\ Older(By(hist, t), t)

\* What thread t has written, by its place: it makes a record, logs it and
\* broadcasts it.
Page(t) ==
    /\ rec[t].by = t /\ rec[t].n \in Nat
    /\ \A r \in By(log, t) \union By(hist, t) \union unlogged : r.by = t => r.n <= rec[t].n
    /\ pc[t] = "log" =>
          Older(By(log, t) \union By(hist, t) \union {r \in unlogged : r.by = t}, t)
    /\ pc[t] \notin {"lock", "ended"} => Settled(t)
    /\ pc[t] = "lock" => Ahead(t) \/ Skipped(t)
    /\ pc[t] = "ended" => Settled(t) \/ Ahead(t)

Logbook == InTurn(log) /\ InTurn(hist) /\ \A t \in Senders : Page(t)

IInv == Types /\ Owned /\ Fresh /\ Streams /\ Lagging /\ Logbook


\* The types the lemmas below need.
LEMMA TypedFeed ==
    ASSUME Types
    PROVE  /\ hist \in Seq(Records) /\ Len(hist) \in Nat
           /\ cursor \in [Senders -> 0 .. NFD] /\ bigfs \subseteq Fd /\ Fd \subseteq Nat
           /\ join \in [Conn -> Nat \union {NeverJoined}] /\ NeverJoined \notin Nat
           /\ sent \in [Conn -> Seq(Records)] /\ \A c \in Conn : Len(sent[c]) \in Nat
           /\ peer \in [Conn -> {"none", "up", "closed", "reset"}]
           /\ rec \in [Senders -> Records] /\ pc \in [Threads -> Pcs]
           /\ hold \in [Threads -> Fd \union {NoFd}]
           /\ fdt \in [Fd -> Conn \union {Free, File}]
           /\ \A t, u \in Senders : pc[t] \in InLoop /\ pc[u] \in InLoop => t = u
           /\ biglock = NoOne => \A t \in Senders : pc[t] \notin InLoop
  <1>1. Data /\ pc \in [Threads -> Pcs] /\ rec \in [Senders -> Records]
    BY TypeParts DEF Types
  <1>2. \A t \in Senders : pc[t] \in InLoop => biglock = t
    BY TypeParts DEF Types
  <1>3. Fd \subseteq Nat /\ NeverJoined \notin Nat /\ NoOne \notin Senders
    BY PcapperAssumption DEF Fd, NeverJoined, NoOne, Senders
  <1>4. \A c \in Conn : sent[c] \in Seq(Records)
    BY <1>1 DEF Data
  <1>5. Len(hist) \in Nat /\ \A c \in Conn : Len(sent[c]) \in Nat
    BY <1>1, <1>4 DEF Data
  <1> QED BY <1>1, <1>2, <1>3, <1>5 DEF Data

\* A step that neither sends nor broadcasts, and in which no sender that is in its
\* loop moves.
LEMMA LaggingSame ==
    ASSUME Types, Lagging, UNCHANGED <<hist, cursor, bigfs, join, sent, biglock>>,
           \A f \in bigfs : fdt'[f] = fdt[f] \/ (cancelled' /\ fdt'[f] \notin Conn),
           \A t \in Senders : pc'[t] \in InLoop =>
               pc'[t] = pc[t] /\ hold'[t] = hold[t] /\ rec'[t] = rec[t],
           \A c \in Conn : peer'[c] = "up" => peer[c] = "up" \/ join[c] = NeverJoined,
           cancelled => cancelled'
    PROVE  Lagging'
  <1>1. \A c \in Conn : Live(c)' => Live(c)
    BY DEF Live
  <1>2. \A c \in Conn : Behind(c)' <=> Behind(c)
    BY DEF Behind
  <1>3. "close" \in InLoop
    BY DEF InLoop
  <1>4. ASSUME NEW t \in Senders, pc'[t] \in InLoop
        PROVE  /\ hist' # <<>> /\ hist'[Len(hist')] = rec'[t]
               /\ \A c \in Conn : Live(c)' /\ Behind(c)' =>
                     \E f \in bigfs' : f >= cursor'[t] /\ (fdt'[f] = c \/ cancelled')
               /\ \A f \in bigfs' : fdt'[f] \in Conn /\ Live(fdt[f])' /\ f >= cursor'[t] =>
                     Behind(fdt[f])'
    <2>1. pc[t] \in InLoop /\ rec'[t] = rec[t]
      BY <1>4
    <2>2. hist' # <<>> /\ hist'[Len(hist')] = rec'[t]
      BY <2>1 DEF Lagging
    <2>3. ASSUME NEW c \in Conn, Live(c)', Behind(c)'
          PROVE  \E f \in bigfs' : f >= cursor'[t] /\ (fdt'[f] = c \/ cancelled')
      <3>1. \E f \in bigfs : f >= cursor[t] /\ (fdt[f] = c \/ cancelled)
        BY <1>1, <1>2, <2>1, <2>3 DEF Lagging
      <3> QED BY <3>1
    <2>4. ASSUME NEW f \in bigfs', fdt'[f] \in Conn, Live(fdt[f])', f >= cursor'[t]
          PROVE  Behind(fdt[f])'
      <3>1. fdt'[f] = fdt[f] /\ fdt[f] \in Conn
        BY <2>4
      <3> QED BY <1>1, <1>2, <2>1, <2>4, <3>1 DEF Lagging
    <2> QED BY <2>2, <2>3, <2>4
  <1>5. ASSUME NEW t \in Senders, pc'[t] = "close"
        PROVE  /\ hold'[t] >= cursor'[t]
               /\ \A g \in bigfs' : g >= cursor'[t] => g > hold'[t]
    BY <1>3, <1>5 DEF Lagging
  <1>6. ASSUME NEW c \in Conn, Live(c)'
        PROVE  /\ \E f \in bigfs' : fdt'[f] = c \/ cancelled'
               /\ Behind(c)' => biglock' # NoOne /\ Len(hist') = join'[c] + Len(sent'[c]) + 1
    BY <1>1, <1>2, <1>6 DEF Lagging
  <1>7. \A f \in bigfs' : fdt'[f] \in Conn => join'[fdt'[f]] # NeverJoined
    BY DEF Lagging
  <1> QED BY <1>4, <1>5, <1>6, <1>7 DEF Lagging, Live, Behind


\* A collector that is entered between two broadcasts has missed none.
LEMMA JoinOrder ==
    ASSUME Types, Owned, Fresh, Streams, Lagging, Join
    PROVE  Streams' /\ Lagging'
  <1> DEFINE h == hold["acc"]
             c == fdt[h]
  <1>1. /\ pc["acc"] = "join" /\ biglock = NoOne /\ bigfs' = bigfs \union {h}
        /\ join' = [join EXCEPT ![c] = Len(hist)]
        /\ pc' = [pc EXCEPT !["acc"] = "select"]
        /\ UNCHANGED <<rec, biglock, fdt, peer, sent, hist, cancelled>>
    BY DEF Join, MayJoin, netVars
  <1>2. h \in Fd /\ c \in Conn /\ join[c] = NeverJoined
    <2>1. pc["cap"] # "ended" /\ h # NoFd
      BY <1>1, Kinds DEF Types, Control
    <2> QED BY <1>1, <2>1, TypedOwners, Kinds DEF Owned, Fresh
  <1>3. \A t \in Senders : pc'[t] \notin InLoop
    BY <1>1, TypedFeed, Kinds
  <1>4. sent[c] = <<>> /\ Len(sent[c]) = 0
    BY <1>2 DEF Streams
  <1>5. join'[c] = Len(hist) /\ \A d \in Conn : d # c => join'[d] = join[d]
    BY <1>1, <1>2, TypedFeed
  <1> HIDE DEF h
  <1>6. Streams'
    BY <1>1, <1>4, <1>5, TypedFeed DEF Streams
  <1>7. ASSUME NEW d \in Conn, Live(d)'
        PROVE  /\ \E f \in bigfs' : fdt'[f] = d \/ cancelled'
               /\ ~ Behind(d)'
    <2>1. CASE d = c
      BY <1>1, <1>2, <1>4, <1>5, <2>1, TypedFeed DEF Behind
    <2>2. CASE d # c
      <3>1. Live(d) /\ join'[d] = join[d]
        BY <1>1, <1>5, <1>7, <2>2 DEF Live
      <3>2. ~ Behind(d) /\ \E f \in bigfs : fdt[f] = d \/ cancelled
        BY <1>1, <3>1 DEF Lagging
      <3> QED BY <1>1, <3>1, <3>2 DEF Behind
    <2> QED BY <2>1, <2>2
  <1>8. \A f \in bigfs' : fdt'[f] \in Conn => join'[fdt'[f]] # NeverJoined
    BY <1>1, <1>5, TypedFeed DEF Lagging
  <1>9. \A t \in Senders : pc'[t] # "close"
    BY <1>3 DEF InLoop
  <1>10. Lagging'
    BY <1>3, <1>7, <1>8, <1>9 DEF Lagging
  <1> QED BY <1>6, <1>10

\* A new broadcast: all live collectors had the one before.
LEMMA LockOrder ==
    ASSUME Types, Streams, Lagging, NEW t \in Senders, Lock(t)
    PROVE  Streams' /\ Lagging'
  <1>1. /\ pc[t] = "lock" /\ biglock = NoOne /\ biglock' = t
        /\ cursor' = [cursor EXCEPT ![t] = 0] /\ hist' = Append(hist, rec[t])
        /\ pc' = [pc EXCEPT ![t] = "send"]
        /\ UNCHANGED <<rec, bigfs, fdt, peer, sent, join, cancelled, hold>>
    BY DEF Lock, MayLock, netVars
  <1>2. /\ hist' # <<>> /\ Len(hist') = Len(hist) + 1 /\ hist'[Len(hist')] = rec[t]
        /\ \A i \in 1 .. Len(hist) : hist'[i] = hist[i]
    <2>1. hist \in Seq(Records) /\ rec[t] \in Records
      BY TypedFeed
    <2> QED BY <1>1, <2>1
  <1>3. /\ cursor'[t] = 0 /\ pc'[t] = "send"
        /\ \A u \in Senders : u # t => pc'[u] \notin InLoop
    BY <1>1, TypedFeed, Kinds
  <1>4. Streams'
    <2> SUFFICES ASSUME NEW c \in Conn, join[c] # NeverJoined
                 PROVE  /\ join[c] + Len(sent[c]) <= Len(hist')
                        /\ \A i \in 1 .. Len(sent[c]) : sent[c][i] = hist'[join[c] + i]
      BY <1>1 DEF Streams
    <2>1. /\ join[c] + Len(sent[c]) <= Len(hist) /\ join[c] \in Nat
          /\ \A i \in 1 .. Len(sent[c]) : sent[c][i] = hist[join[c] + i]
      BY TypedFeed DEF Streams
    <2>2. \A i \in 1 .. Len(sent[c]) : join[c] + i \in 1 .. Len(hist)
      BY <2>1, TypedFeed
    <2>3. \A i \in 1 .. Len(sent[c]) : sent[c][i] = hist'[join[c] + i]
      BY <1>2, <2>1, <2>2
    <2>4. Len(hist) \in Nat /\ Len(sent[c]) \in Nat
      BY TypedFeed
    <2>5. join[c] + Len(sent[c]) <= Len(hist')
      BY <1>2, <2>1, <2>4
    <2> QED BY <2>3, <2>5
  <1>5. ASSUME NEW c \in Conn, Live(c)'
        PROVE  /\ Behind(c)' /\ Len(hist') = join'[c] + Len(sent'[c]) + 1
               /\ \E f \in bigfs : fdt[f] = c \/ cancelled
    <2>1. Live(c) /\ join[c] \in Nat
      BY <1>1, <1>5, TypedFeed DEF Live
    <2>2. ~ Behind(c) /\ \E f \in bigfs : fdt[f] = c \/ cancelled
      BY <1>1, <2>1 DEF Lagging
    <2>3. join[c] + Len(sent[c]) = Len(hist)
      BY <2>1, <2>2, TypedFeed DEF Behind, Live, Streams
    <2>4. Len(hist') = join'[c] + Len(sent'[c]) + 1 /\ join'[c] + Len(sent'[c]) < Len(hist')
      BY <1>1, <1>2, <2>1, <2>3, TypedFeed
    <2> QED BY <1>1, <2>1, <2>2, <2>4 DEF Behind, Live
  <1>6. \A f \in bigfs : f >= 0
    BY TypedFeed
  <1>7. t # NoOne
    BY DEF NoOne, Senders
  <1>8. ASSUME NEW u \in Senders, pc'[u] \in InLoop
        PROVE  /\ hist' # <<>> /\ hist'[Len(hist')] = rec'[u]
               /\ \A c \in Conn : Live(c)' /\ Behind(c)' =>
                     \E f \in bigfs' : f >= cursor'[u] /\ (fdt'[f] = c \/ cancelled')
               /\ \A f \in bigfs' : fdt'[f] \in Conn /\ Live(fdt[f])' /\ f >= cursor'[u] =>
                     Behind(fdt[f])'
    <2>1. u = t
      BY <1>3, <1>8
    <2>2. \A c \in Conn : Live(c)' =>
              \E f \in bigfs' : f >= cursor'[u] /\ (fdt'[f] = c \/ cancelled')
      BY <1>1, <1>3, <1>5, <1>6, <2>1
    <2>3. \A f \in bigfs' : fdt'[f] \in Conn /\ Live(fdt[f])' => Behind(fdt[f])'
      BY <1>1, <1>5
    <2> QED BY <1>1, <1>2, <2>1, <2>2, <2>3
  <1>9. \A u \in Senders : pc'[u] # "close"
    BY <1>3 DEF InLoop
  <1>10. \A f \in bigfs' : fdt'[f] \in Conn => join'[fdt'[f]] # NeverJoined
    BY <1>1 DEF Lagging
  <1>11. Lagging'
    BY <1>1, <1>5, <1>7, <1>8, <1>9, <1>10 DEF Lagging
  <1> QED BY <1>4, <1>11


\* What is true of a sender that is about to send to descriptor f.
LEMMA DueFacts ==
    ASSUME Types, Owned, Lagging, NEW t \in Senders, NEW f \in Fd, Due(t, f), Runs(t)
    PROVE  /\ pc["cap"] # "ended" /\ ~ cancelled /\ t \in Threads
           /\ pc[t] = "send" /\ pc[t] \in InLoop /\ f \in bigfs /\ f \in Nat /\ f >= cursor[t]
           /\ \A g \in bigfs : g >= cursor[t] /\ g # f => g >= f + 1 /\ g > f
           /\ cursor[t] \in Nat
           /\ fdt[f] \in Conn /\ join[fdt[f]] \in Nat
           /\ \A g \in bigfs : fdt[g] = fdt[f] => g = f
  <1>1. pc[t] = "send" /\ f \in bigfs /\ f >= cursor[t]
        /\ \A g \in bigfs : g >= cursor[t] => f <= g
    BY DEF Due
  <1>2. pc["cap"] # "ended" /\ ~ cancelled /\ t \in Threads
    BY <1>1, Kinds DEF Types, Control, Runs
  <1>3. fdt[f] \in Conn /\ \A g \in bigfs : fdt[g] = fdt[f] => g = f
    BY <1>1, <1>2, TypedOwners DEF Owned
  <1>4. join[fdt[f]] \in Nat
    BY <1>1, <1>3, TypedFeed DEF Lagging
  <1>5. /\ bigfs \subseteq Nat /\ f \in Nat /\ cursor[t] \in 0 .. NFD
        /\ NFD \in Nat
    BY TypedFeed, PcapperAssumption
  <1>6. ASSUME NEW g \in bigfs, g >= cursor[t], g # f
        PROVE  g >= f + 1 /\ g > f
    <2>1. g \in Nat /\ f \in Nat
      BY <1>5
    <2>2. f <= g
      BY <1>1, <1>6
    <2> QED BY <1>6, <2>1, <2>2
  <1>7. f \in Nat /\ cursor[t] \in Nat
    BY <1>5
  <1>8. pc[t] \in InLoop
    BY <1>1 DEF InLoop
  <1> QED BY <1>1, <1>2, <1>3, <1>4, <1>6, <1>7, <1>8

\* A record that send() takes is the one the collector lacks.
LEMMA SendOkOrder ==
    ASSUME Types, Owned, Streams, Lagging, NEW t \in Senders, NEW f \in Fd, SendOk(t, f)
    PROVE  /\ Streams' /\ Lagging'
           /\ LET c == fdt[f]
              IN  \/ UNCHANGED sent /\ \A d \in Conn : peer'[d] = "up" <=> peer[d] = "up"
                  \/ /\ UNCHANGED peer /\ peer[c] = "up" /\ Behind(c)
                     /\ sent' = [sent EXCEPT ![c] =
                                    Append(@, hist[join[c] + Len(@) + 1])]
  <1> DEFINE c == fdt[f]
  <1>1. /\ Due(t, f) /\ Runs(t)
        /\ \/ /\ peer[c] = "up" /\ sent' = [sent EXCEPT ![c] = Append(@, rec[t])]
              /\ peer' = peer
           \/ /\ peer[c] = "closed" /\ peer' = [peer EXCEPT ![c] = "reset"]
              /\ sent' = sent
        /\ cursor' = [cursor EXCEPT ![t] = f + 1]
        /\ UNCHANGED <<pc, hold, rec, cancelled, bigfs, biglock, fdt, hist, join>>
    BY DEF SendOk, feedVars
  <1>2. /\ pc["cap"] # "ended" /\ ~ cancelled
        /\ pc[t] = "send" /\ pc[t] \in InLoop /\ f \in bigfs /\ f \in Nat /\ f >= cursor[t]
        /\ \A g \in bigfs : g >= cursor[t] /\ g # f => g >= f + 1 /\ g > f
        /\ cursor[t] \in Nat
        /\ c \in Conn /\ join[c] \in Nat
        /\ \A g \in bigfs : fdt[g] = c => g = f
    BY <1>1, DueFacts
  <1> HIDE DEF c
  <1>3. /\ cursor'[t] = f + 1
        /\ \A u \in Senders : pc[u] \in InLoop => u = t
        /\ \A d \in Conn : d # c => sent'[d] = sent[d] /\ peer'[d] = peer[d]
        /\ \A d \in Conn : peer'[d] = "up" <=> peer[d] = "up"
    BY <1>1, <1>2, TypedFeed
  <1>4. \A d \in Conn : Live(d)' <=> Live(d)
    BY <1>1, <1>3 DEF Live
  <1>5. \A d \in Conn : d # c => (Behind(d)' <=> Behind(d))
    BY <1>1, <1>3 DEF Behind
  <1>6. ASSUME peer[c] = "up"
        PROVE  /\ Behind(c) /\ Len(hist) = join[c] + Len(sent[c]) + 1
               /\ hist[Len(hist)] = rec[t] /\ sent' = [sent EXCEPT ![c] = Append(@, rec[t])]
               /\ sent'[c] = Append(sent[c], rec[t]) /\ UNCHANGED peer
    <2>1. Live(c)
      BY <1>2, <1>6, TypedFeed DEF Live
    <2>2. Behind(c) /\ hist[Len(hist)] = rec[t]
      BY <1>2, <2>1 DEF Lagging, c
    <2>3. Len(hist) = join[c] + Len(sent[c]) + 1
      BY <1>2, <2>1, <2>2 DEF Lagging
    <2>4. sent' = [sent EXCEPT ![c] = Append(@, rec[t])] /\ UNCHANGED peer
      BY <1>1, <1>6
    <2> QED BY <1>2, <2>2, <2>3, <2>4, TypedFeed
  <1>7. Streams'
    <2> SUFFICES ASSUME NEW d \in Conn
                 PROVE  /\ join[d] = NeverJoined => sent'[d] = <<>>
                        /\ join[d] # NeverJoined =>
                             /\ join[d] + Len(sent'[d]) <= Len(hist)
                             /\ \A i \in 1 .. Len(sent'[d]) : sent'[d][i] = hist[join[d] + i]
      BY <1>1 DEF Streams
    <2>1. CASE sent'[d] = sent[d]
      BY <2>1 DEF Streams
    <2>2. CASE d = c /\ peer[c] = "up"
      <3>1. sent[c] \in Seq(Records) /\ rec[t] \in Records /\ Len(sent[c]) \in Nat
        BY <1>2, TypedFeed
      <3>2. /\ Len(sent'[c]) = Len(sent[c]) + 1
            /\ sent'[c][Len(sent[c]) + 1] = rec[t]
            /\ \A i \in 1 .. Len(sent[c]) : sent'[c][i] = sent[c][i]
        BY <1>6, <2>2, <3>1
      <3>3. rec[t] = hist[join[c] + (Len(sent[c]) + 1)]
        <4>1. join[c] + (Len(sent[c]) + 1) = Len(hist)
          BY <1>2, <1>6, <2>2, <3>1
        <4> QED BY <1>6, <2>2, <4>1
      <3>4. join[c] + Len(sent'[c]) <= Len(hist)
        BY <1>2, <1>6, <2>2, <3>1, <3>2
      <3>5. ASSUME NEW i \in 1 .. Len(sent'[c]) PROVE sent'[c][i] = hist[join[c] + i]
        <4>1. CASE i \in 1 .. Len(sent[c])
          BY <1>2, <3>2, <4>1, TypedFeed DEF Streams
        <4>2. CASE i = Len(sent[c]) + 1
          BY <3>2, <3>3, <4>2
        <4> QED BY <3>1, <3>2, <4>1, <4>2
      <3> QED BY <1>2, <2>2, <3>4, <3>5, TypedFeed
    <2> QED BY <1>1, <1>3, <2>1, <2>2
  <1>8. ASSUME NEW d \in Conn, d = c PROVE ~ (Live(d)' /\ Behind(d)')
    <2>1. CASE peer[c] = "up"
      <3>1. sent[c] \in Seq(Records) /\ rec[t] \in Records /\ Len(sent[c]) \in Nat
        BY <1>2, TypedFeed
      <3>2. Len(sent'[c]) = Len(sent[c]) + 1
        BY <1>6, <2>1, <3>1
      <3>3. join[c] + Len(sent'[c]) = Len(hist)
        BY <1>2, <1>6, <2>1, <3>1, <3>2
      <3>4. Len(hist) \in Nat
        BY TypedFeed
      <3> QED BY <1>1, <1>8, <3>3, <3>4 DEF Behind
    <2>2. CASE peer[c] # "up"
      BY <1>3, <1>8, <2>2 DEF Live
    <2> QED BY <2>1, <2>2
  <1>9. ASSUME NEW u \in Senders, pc'[u] \in InLoop
        PROVE  /\ hist' # <<>> /\ hist'[Len(hist')] = rec'[u]
               /\ \A d \in Conn : Live(d)' /\ Behind(d)' =>
                     \E g \in bigfs' : g >= cursor'[u] /\ (fdt'[g] = d \/ cancelled')
               /\ \A g \in bigfs' : fdt'[g] \in Conn /\ Live(fdt[g])' /\ g >= cursor'[u] =>
                     Behind(fdt[g])'
    <2>1. u = t
      BY <1>1, <1>3, <1>9
    <2>2. ASSUME NEW d \in Conn, Live(d)', Behind(d)'
          PROVE  \E g \in bigfs' : g >= cursor'[u] /\ (fdt'[g] = d \/ cancelled')
      <3>1. d # c
        BY <1>8, <2>2
      <3>2. PICK g \in bigfs : g >= cursor[t] /\ fdt[g] = d
        BY <1>2, <1>4, <1>5, <2>2, <3>1 DEF Lagging
      <3>3. g >= f + 1
        BY <1>2, <3>1, <3>2 DEF c
      <3> QED BY <1>1, <1>3, <2>1, <3>2, <3>3
    <2>3. ASSUME NEW g \in bigfs', fdt'[g] \in Conn, Live(fdt[g])', g >= cursor'[u]
          PROVE  Behind(fdt[g])'
      <3>1. g \in bigfs /\ g >= f + 1 /\ g \in Nat /\ fdt'[g] = fdt[g] /\ fdt[g] \in Conn
        BY <1>1, <1>3, <2>1, <2>3, TypedFeed
      <3>2. g # f /\ g >= cursor[t]
        BY <1>2, <3>1
      <3>3. fdt[g] # c
        BY <1>2, <3>1, <3>2
      <3>4. Live(fdt[g])
        BY <1>1, <1>4, <2>3, <3>1 DEF Live
      <3>5. Behind(fdt[g])
        BY <1>2, <3>1, <3>2, <3>4 DEF Lagging
      <3> QED BY <1>1, <1>3, <3>1, <3>3, <3>5 DEF Behind
    <2>4. hist' # <<>> /\ hist'[Len(hist')] = rec'[u]
      BY <1>1, <1>2, <2>1 DEF Lagging
    <2> QED BY <2>2, <2>3, <2>4
  <1>10. \A u \in Senders : pc'[u] # "close"
    BY <1>1, <1>2, <1>3 DEF InLoop
  <1>11. ASSUME NEW d \in Conn, Live(d)'
         PROVE  /\ \E g \in bigfs' : fdt'[g] = d \/ cancelled'
                /\ Behind(d)' => biglock' # NoOne /\ Len(hist') = join'[d] + Len(sent'[d]) + 1
    <2>1. Live(d) /\ (Behind(d)' => d # c)
      BY <1>4, <1>8, <1>11
    <2>2. \E g \in bigfs' : fdt'[g] = d \/ cancelled'
      BY <1>1, <2>1 DEF Lagging
    <2>3. ASSUME Behind(d)'
          PROVE  biglock' # NoOne /\ Len(hist') = join'[d] + Len(sent'[d]) + 1
      <3>1. Behind(d) /\ sent'[d] = sent[d]
        BY <1>3, <1>5, <2>1, <2>3
      <3> QED BY <1>1, <2>1, <3>1 DEF Lagging
    <2> QED BY <2>2, <2>3
  <1>12. \A g \in bigfs' : fdt'[g] \in Conn => join'[fdt'[g]] # NeverJoined
    BY <1>1 DEF Lagging
  <1>13. Lagging'
    BY <1>9, <1>10, <1>11, <1>12 DEF Lagging
  <1>14. \/ UNCHANGED sent /\ \A d \in Conn : peer'[d] = "up" <=> peer[d] = "up"
         \/ /\ UNCHANGED peer /\ peer[c] = "up" /\ Behind(c)
            /\ sent' = [sent EXCEPT ![c] = Append(@, hist[join[c] + Len(@) + 1])]
    <2>1. CASE peer[c] = "up"
      <3>1. rec[t] = hist[join[c] + Len(sent[c]) + 1]
        BY <1>6, <2>1
      <3> QED BY <1>6, <2>1, <3>1
    <2>2. CASE peer[c] # "up"
      BY <1>1, <1>3, <2>2
    <2> QED BY <2>1, <2>2
  <1> QED BY <1>7, <1>13, <1>14 DEF c


\* A descriptor that send() fails for is of a collector that is lost.
LEMMA SendFailsOrder ==
    ASSUME Types, Owned, Lagging, NEW t \in Senders, NEW f \in Fd, SendFails(t, f)
    PROVE  Lagging'
  <1> DEFINE c == fdt[f]
  <1>1. /\ Due(t, f) /\ Runs(t) /\ (c \in Conn => peer[c] = "reset")
        /\ bigfs' = bigfs \ {f} /\ hold' = [hold EXCEPT ![t] = f]
        /\ pc' = [pc EXCEPT ![t] = "close"]
        /\ UNCHANGED <<cursor, rec, cancelled, biglock, fdt, peer, sent, hist, join>>
    BY DEF SendFails, Clear, netVars, feedVars
  <1>2. /\ pc["cap"] # "ended" /\ ~ cancelled /\ t \in Threads
        /\ pc[t] = "send" /\ pc[t] \in InLoop /\ f \in bigfs /\ f \in Nat /\ f >= cursor[t]
        /\ \A g \in bigfs : g >= cursor[t] /\ g # f => g >= f + 1 /\ g > f
        /\ cursor[t] \in Nat /\ c \in Conn
    BY <1>1, DueFacts
  <1>3. peer[c] = "reset"
    BY <1>1, <1>2
  <1> HIDE DEF c
  <1>4. /\ pc'[t] = "close" /\ hold'[t] = f
        /\ \A u \in Senders : pc'[u] \in InLoop => u = t
    BY <1>1, <1>2, TypedFeed, Kinds
  <1>5. \A d \in Conn : (Live(d)' <=> Live(d)) /\ (Behind(d)' <=> Behind(d))
    BY <1>1 DEF Live, Behind
  <1>6. \A d \in Conn : Live(d) => d # c
    BY <1>3 DEF Live
  <1>7. ASSUME NEW u \in Senders, pc'[u] \in InLoop
        PROVE  /\ hist' # <<>> /\ hist'[Len(hist')] = rec'[u]
               /\ \A d \in Conn : Live(d)' /\ Behind(d)' =>
                     \E g \in bigfs' : g >= cursor'[u] /\ (fdt'[g] = d \/ cancelled')
               /\ \A g \in bigfs' : fdt'[g] \in Conn /\ Live(fdt[g])' /\ g >= cursor'[u] =>
                     Behind(fdt[g])'
    <2>1. u = t
      BY <1>4, <1>7
    <2>2. ASSUME NEW d \in Conn, Live(d)', Behind(d)'
          PROVE  \E g \in bigfs' : g >= cursor'[u] /\ (fdt'[g] = d \/ cancelled')
      <3>1. Live(d) /\ Behind(d) /\ d # c
        BY <1>5, <1>6, <2>2
      <3>2. PICK g \in bigfs : g >= cursor[t] /\ fdt[g] = d
        BY <1>2, <3>1 DEF Lagging
      <3> QED BY <1>1, <2>1, <3>1, <3>2 DEF c
    <2>3. ASSUME NEW g \in bigfs', fdt'[g] \in Conn, Live(fdt[g])', g >= cursor'[u]
          PROVE  Behind(fdt[g])'
      <3>1. g \in bigfs /\ g >= cursor[t] /\ fdt[g] \in Conn /\ Live(fdt[g])
        BY <1>1, <2>1, <2>3 DEF Live
      <3>2. Behind(fdt[g])
        BY <1>2, <3>1 DEF Lagging
      <3> QED BY <1>1, <3>2 DEF Behind
    <2>4. hist' # <<>> /\ hist'[Len(hist')] = rec'[u]
      BY <1>1, <1>2, <2>1 DEF Lagging
    <2> QED BY <2>2, <2>3, <2>4
  <1>8. ASSUME NEW u \in Senders, pc'[u] = "close"
        PROVE  /\ hold'[u] >= cursor'[u]
               /\ \A g \in bigfs' : g >= cursor'[u] => g > hold'[u]
    <2>1. u = t
      BY <1>4, <1>8 DEF InLoop
    <2> QED BY <1>1, <1>2, <1>4, <2>1
  <1>9. ASSUME NEW d \in Conn, Live(d)'
        PROVE  /\ \E g \in bigfs' : fdt'[g] = d \/ cancelled'
               /\ Behind(d)' => biglock' # NoOne /\ Len(hist') = join'[d] + Len(sent'[d]) + 1
    <2>1. Live(d) /\ d # c
      BY <1>5, <1>6, <1>9
    <2>2. PICK g \in bigfs : fdt[g] = d
      BY <1>2, <2>1 DEF Lagging
    <2>3. g \in bigfs' /\ fdt'[g] = d
      BY <1>1, <2>1, <2>2 DEF c
    <2>4. Behind(d)' => biglock' # NoOne /\ Len(hist') = join'[d] + Len(sent'[d]) + 1
      BY <1>1, <1>5, <2>1 DEF Lagging
    <2> QED BY <2>3, <2>4
  <1>10. \A g \in bigfs' : fdt'[g] \in Conn => join'[fdt'[g]] # NeverJoined
    BY <1>1 DEF Lagging
  <1> QED BY <1>7, <1>8, <1>9, <1>10 DEF Lagging

\* After close() the loop goes on behind the descriptor.
LEMMA CloseConnOrder ==
    ASSUME Types, Owned, Lagging, NEW t \in Senders, CloseConn(t)
    PROVE  Lagging'
  <1> DEFINE f == hold[t]
  <1>1. /\ pc[t] = "close" /\ Runs(t)
        /\ fdt' = [fdt EXCEPT ![f] = Free]
        /\ cursor' = [cursor EXCEPT ![t] = f + 1]
        /\ pc' = [pc EXCEPT ![t] = "send"]
        /\ UNCHANGED <<rec, cancelled, bigfs, biglock, peer, sent, hist, join>>
    BY DEF CloseConn, Closed, Past, netVars, feedVars
  <1>2. /\ t \in Threads /\ pc["cap"] # "ended" /\ ~ cancelled /\ pc[t] \in InLoop
        /\ f # NoFd
    BY <1>1, Kinds DEF Types, Control, Runs, InLoop
  <1>3. f \in Fd /\ f \in Nat /\ f \notin bigfs /\ bigfs \subseteq Nat /\ cursor[t] \in Nat
    <2>1. cursor[t] \in 0 .. NFD /\ NFD \in Nat
      BY TypedFeed, PcapperAssumption
    <2> QED BY <1>2, <2>1, TypedOwners, TypedFeed DEF Owned
  <1>4. f >= cursor[t] /\ \A g \in bigfs : g >= cursor[t] => g > f
    BY <1>1 DEF Lagging
  <1>5. \A g \in bigfs : fdt'[g] = fdt[g] /\ (g >= f + 1 <=> g >= cursor[t])
    <2>1. \A g \in bigfs : fdt'[g] = fdt[g]
      BY <1>1, <1>3, TypedFeed
    <2>2. \A g \in bigfs : g >= f + 1 <=> g >= cursor[t]
      BY <1>3, <1>4
    <2> QED BY <2>1, <2>2
  <1> HIDE DEF f
  <1>6. /\ pc'[t] = "send" /\ cursor'[t] = f + 1
        /\ \A u \in Senders : pc'[u] \in InLoop => u = t
    BY <1>1, <1>2, TypedFeed, Kinds
  <1>7. \A d \in Conn : (Live(d)' <=> Live(d)) /\ (Behind(d)' <=> Behind(d))
    BY <1>1 DEF Live, Behind
  <1>8. ASSUME NEW u \in Senders, pc'[u] \in InLoop
        PROVE  /\ hist' # <<>> /\ hist'[Len(hist')] = rec'[u]
               /\ \A d \in Conn : Live(d)' /\ Behind(d)' =>
                     \E g \in bigfs' : g >= cursor'[u] /\ (fdt'[g] = d \/ cancelled')
               /\ \A g \in bigfs' : fdt'[g] \in Conn /\ Live(fdt[g])' /\ g >= cursor'[u] =>
                     Behind(fdt[g])'
    <2>1. u = t
      BY <1>6, <1>8
    <2>2. ASSUME NEW d \in Conn, Live(d)', Behind(d)'
          PROVE  \E g \in bigfs' : g >= cursor'[u] /\ (fdt'[g] = d \/ cancelled')
      <3>1. PICK g \in bigfs : g >= cursor[t] /\ fdt[g] = d
        BY <1>2, <1>7, <2>2 DEF Lagging
      <3> QED BY <1>1, <1>5, <1>6, <2>1, <3>1
    <2>3. ASSUME NEW g \in bigfs', fdt'[g] \in Conn, Live(fdt[g])', g >= cursor'[u]
          PROVE  Behind(fdt[g])'
      <3>1. g \in bigfs /\ fdt'[g] = fdt[g] /\ g >= cursor[t] /\ fdt[g] \in Conn
        BY <1>1, <1>5, <1>6, <2>1, <2>3
      <3>2. Live(fdt[g])
        BY <1>1, <2>3, <3>1 DEF Live
      <3>3. Behind(fdt[g])
        BY <1>2, <3>1, <3>2 DEF Lagging
      <3> QED BY <1>1, <3>1, <3>3 DEF Behind
    <2>4. hist' # <<>> /\ hist'[Len(hist')] = rec'[u]
      BY <1>1, <1>2, <2>1 DEF Lagging
    <2> QED BY <2>2, <2>3, <2>4
  <1>9. \A u \in Senders : pc'[u] # "close"
    BY <1>6 DEF InLoop
  <1>10. ASSUME NEW d \in Conn, Live(d)'
         PROVE  /\ \E g \in bigfs' : fdt'[g] = d \/ cancelled'
                /\ Behind(d)' => biglock' # NoOne /\ Len(hist') = join'[d] + Len(sent'[d]) + 1
    BY <1>1, <1>5, <1>7, <1>10 DEF Lagging
  <1>11. \A g \in bigfs' : fdt'[g] \in Conn => join'[fdt'[g]] # NeverJoined
    BY <1>1, <1>5 DEF Lagging
  <1> QED BY <1>8, <1>9, <1>10, <1>11 DEF Lagging

\* When the loop is over, every live collector has the record.
LEMMA UnlockOrder ==
    ASSUME Types, Lagging, NEW t \in Senders, Unlock(t)
    PROVE  Lagging'
  <1>1. /\ pc[t] = "send" /\ ~ \E f \in Fd : Due(t, f)
        /\ pc' = [pc EXCEPT ![t] = IF rec[t].kind = "cpu" THEN "readmem" ELSE "idle"]
        /\ UNCHANGED <<hold, cursor, rec, cancelled, bigfs, fdt, peer, sent, hist, join>>
    BY DEF Unlock, netVars, feedVars
  <1>2. ~ \E f \in bigfs : f >= cursor[t]
    <2> SUFFICES ASSUME NEW h \in bigfs, h >= cursor[t] PROVE FALSE
      OBVIOUS
    <2> DEFINE S == {f \in bigfs : f >= cursor[t]}
    <2>1. S \subseteq Nat /\ S # {}
      BY TypedFeed
    <2>2. PICK f \in S : \A g \in S : ~ (<<g, f>> \in OpToRel(<, Nat))
      BY <2>1, WFMin, NatLessThanWellFounded
    <2>3. \A g \in S : ~ (g < f)
      BY <2>1, <2>2 DEF OpToRel
    <2>4. \A g \in S : f <= g
      BY <2>1, <2>3
    <2>5. f \in Fd /\ Due(t, f)
      BY <1>1, <2>4, TypedFeed DEF Due
    <2> QED BY <1>1, <2>5
  <1>3. \A u \in Senders : pc'[u] \notin InLoop /\ pc'[u] # "close"
    <2>1. \A u \in Senders : u # t => pc[u] \notin InLoop
      BY <1>1, TypedFeed DEF InLoop
    <2>2. pc'[t] \in {"readmem", "idle"} /\ \A u \in Senders : u # t => pc'[u] = pc[u]
      BY <1>1, TypedFeed, Kinds
    <2> QED BY <2>1, <2>2 DEF InLoop
  <1>4. ASSUME NEW d \in Conn, Live(d)'
        PROVE  (\E g \in bigfs' : fdt'[g] = d \/ cancelled') /\ ~ Behind(d)'
    <2>1. Live(d) /\ (Behind(d)' <=> Behind(d))
      BY <1>1, <1>4 DEF Live, Behind
    <2>2. ~ Behind(d)
      BY <1>1, <1>2, <2>1 DEF Lagging, InLoop
    <2> QED BY <1>1, <2>1, <2>2 DEF Lagging
  <1>5. \A g \in bigfs' : fdt'[g] \in Conn => join'[fdt'[g]] # NeverJoined
    BY <1>1 DEF Lagging
  <1> QED BY <1>3, <1>4, <1>5 DEF Lagging


\* Every step keeps the order of the records.
LEMMA OrderStep ==
    Types /\ Owned /\ Fresh /\ Streams /\ Lagging /\ [Next]_vars => Streams' /\ Lagging'
  <1> SUFFICES ASSUME Types, Owned, Fresh, Streams, Lagging, [Next]_vars
               PROVE  Streams' /\ Lagging'
    OBVIOUS
  <1>1. ASSUME UNCHANGED <<hist, join, sent>> PROVE Streams'
    BY <1>1 DEF Streams
  <1>2. ASSUME UNCHANGED <<hist, cursor, bigfs, join, sent, biglock, peer>>,
               \A f \in bigfs : fdt'[f] = fdt[f] \/ (cancelled' /\ fdt'[f] \notin Conn),
               \A t \in Senders : pc'[t] \in InLoop =>
                   pc'[t] = pc[t] /\ hold'[t] = hold[t] /\ rec'[t] = rec[t],
               cancelled => cancelled'
        PROVE  Streams' /\ Lagging'
    BY <1>1, <1>2, LaggingSame
  <1>3. /\ pc \in [Threads -> Pcs] /\ hold \in [Threads -> Fd \union {NoFd}]
        /\ bigfs \subseteq Fd /\ fdt \in [Fd -> Conn \union {Free, File}]
        /\ rec \in [Senders -> Records]
    BY TypedFeed
  <1>4. ASSUME Unused # {}, ~ cancelled
        PROVE  LowestUnused \in Fd /\ LowestUnused \notin bigfs
    <2>1. LowestUnused \in Fd /\ fdt[LowestUnused] = Free
      BY <1>4, LowestIsUnused DEF Unused
    <2>2. pc["cap"] # "ended"
      BY <1>4 DEF Types, Control
    <2> QED BY <1>4, <2>1, <2>2, Kinds DEF Owned
  <1>5. CASE Accept
    <2>1. /\ Unused # {} /\ ~ cancelled
          /\ fdt' = [fdt EXCEPT ![LowestUnused] = Head(backlog)]
          /\ hold' = [hold EXCEPT !["acc"] = LowestUnused]
          /\ pc' = [pc EXCEPT !["acc"] = "join"]
          /\ UNCHANGED <<cursor, rec, cancelled, bigfs, biglock, peer, sent, hist, join>>
      BY <1>5 DEF Accept, Runs, feedVars
    <2>2. \A f \in bigfs : fdt'[f] = fdt[f]
      BY <1>3, <1>4, <2>1
    <2>3. \A t \in Senders : pc'[t] = pc[t] /\ hold'[t] = hold[t]
      BY <1>3, <2>1, Kinds
    <2> QED BY <1>2, <2>1, <2>2, <2>3
  <1>6. ASSUME NEW t \in Senders, OpenFile(t) PROVE Streams' /\ Lagging'
    <2>1. /\ pc[t] \in FilePcs /\ Runs(t) /\ Unused # {}
          /\ fdt' = [fdt EXCEPT ![LowestUnused] = File]
          /\ hold' = [hold EXCEPT ![t] = LowestUnused]
          /\ UNCHANGED <<pc, cursor, rec, cancelled, bigfs, biglock, peer, sent, hist, join>>
      BY <1>6 DEF OpenFile, netVars, feedVars
    <2>2. ~ cancelled /\ pc[t] \notin InLoop
      BY <2>1 DEF Types, Control, Runs, FilePcs, InLoop
    <2>3. \A f \in bigfs : fdt'[f] = fdt[f]
      BY <1>3, <1>4, <2>1, <2>2
    <2>4. \A u \in Senders : pc'[u] \in InLoop => hold'[u] = hold[u]
      BY <1>3, <2>1, <2>2, Kinds
    <2> QED BY <1>2, <2>1, <2>3, <2>4
  <1>7. ASSUME NEW t \in Senders, CloseFile(t) \/ OpenFails(t) PROVE Streams' /\ Lagging'
    <2>1. PICK ok \in BOOLEAN :
             /\ pc[t] \in FilePcs /\ Runs(t)
             /\ pc' = [pc EXCEPT ![t] = AfterFile(pc[t], ok)]
             /\ rec' = [rec EXCEPT ![t] = Report(t)]
             /\ UNCHANGED <<cursor, cancelled, bigfs, biglock, peer, sent, hist, join>>
      BY <1>7 DEF CloseFile, OpenFails, netVars, feedVars
    <2>2. \/ UNCHANGED <<hold, fdt>>
          \/ /\ hold[t] # NoFd
             /\ hold' = [hold EXCEPT ![t] = NoFd] /\ fdt' = [fdt EXCEPT ![hold[t]] = Free]
      BY <1>7 DEF CloseFile, OpenFails
    <2>3. t \in Threads /\ pc["cap"] # "ended" /\ (hold[t] # NoFd => hold[t] \notin bigfs)
      <3>1. t \in Threads /\ pc["cap"] # "ended"
        BY <2>1, Kinds DEF Types, Control, Runs, FilePcs
      <3> QED BY <3>1 DEF Owned
    <2>4. \A f \in bigfs : fdt'[f] = fdt[f]
      BY <1>3, <2>2, <2>3
    <2>5. AfterFile(pc[t], ok) \notin InLoop
      BY <2>1, AfterFileIs DEF FilePcs, InLoop
    <2>6. \A u \in Senders : pc'[u] \in InLoop =>
             pc'[u] = pc[u] /\ hold'[u] = hold[u] /\ rec'[u] = rec[u]
      <3>1. \A u \in Senders : pc'[u] \in InLoop => u # t
        BY <1>3, <2>1, <2>3, <2>5
      <3> QED BY <1>3, <2>1, <2>2, <3>1, Kinds
    <2> QED BY <1>2, <2>1, <2>4, <2>6
  <1>8. ASSUME NEW f \in Fd, ShutDown(f) PROVE Streams' /\ Lagging'
    <2>1. /\ pc["cap"] = "shut" /\ fdt' = [fdt EXCEPT ![f] = Free]
          /\ UNCHANGED <<pc, hold, cursor, rec, cancelled, bigfs, biglock, peer, sent,
                         hist, join>>
      BY <1>8 DEF ShutDown, threadVars, netVars, feedVars
    <2>2. cancelled
      BY <2>1 DEF Types, Control
    <2>3. \A g \in bigfs : fdt'[g] = fdt[g] \/ fdt'[g] \notin Conn
      BY <1>3, <2>1, Kinds
    <2> QED BY <1>2, <2>1, <2>2, <2>3
  <1>9. CASE Exit
    <2>1. /\ pc["cap"] = "shut" /\ fdt' = [f \in Fd |-> Free]
          /\ pc' = [t \in Threads |-> "ended"]
          /\ UNCHANGED <<cursor, cancelled, bigfs, biglock, peer, sent, hist, join>>
      BY <1>9 DEF Exit, netVars, feedVars
    <2>2. cancelled
      BY <2>1 DEF Types, Control
    <2>3. \A g \in bigfs : fdt'[g] \notin Conn
      BY <1>3, <2>1, Kinds
    <2>4. \A t \in Senders : pc'[t] \notin InLoop
      BY <2>1, Kinds DEF InLoop
    <2> QED BY <1>2, <2>1, <2>2, <2>3, <2>4
  <1>10. CASE Environment
    <2>1. UNCHANGED <<hist, cursor, bigfs, join, sent, biglock, fdt, pc, hold, rec, cancelled>>
      BY <1>10 DEF Environment, CollectorJoins, CollectorReads, CollectorLeaves, threadVars,
                   feedVars
    <2>2. \A c \in Conn : peer'[c] = "up" => peer[c] = "up" \/ peer[c] = "none"
      BY <1>10, TypedFeed DEF Environment, CollectorJoins, CollectorReads, CollectorLeaves
    <2>3. \A c \in Conn : peer'[c] = "up" => peer[c] = "up" \/ join[c] = NeverJoined
      BY <2>2 DEF Fresh
    <2> QED BY <1>1, <2>1, <2>3, LaggingSame
  <1>11. ASSUME \/ AcceptFails \/ Tick \/ CaptureEnds \/ UNCHANGED vars
                \/ \E p \in Packets : Capture(p) \/ Ignore(p)
         PROVE  Streams' /\ Lagging'
    <2>1. /\ UNCHANGED <<hist, cursor, bigfs, join, sent, biglock, peer, fdt, hold>>
          /\ cancelled => cancelled'
      BY <1>11 DEF AcceptFails, Tick, CaptureEnds, Capture, Ignore, vars, threadVars, netVars,
                   feedVars
    <2>2. \/ UNCHANGED <<pc, rec>>
          \/ /\ pc' = [pc EXCEPT !["stat"] = "readstat"] /\ UNCHANGED rec
          \/ /\ pc' = [pc EXCEPT !["cap"] = "shut"] /\ UNCHANGED rec
          \/ /\ pc' = [pc EXCEPT !["cap"] = "log"]
             /\ rec' = [rec EXCEPT !["cap"] =
                          [by |-> "cap", kind |-> "pkt", n |-> rec["cap"].n + 1]]
      BY <1>11 DEF AcceptFails, Tick, CaptureEnds, Capture, Ignore, vars, threadVars
    <2>3. \A u \in Senders : pc'[u] \in InLoop => pc'[u] = pc[u] /\ rec'[u] = rec[u]
      BY <1>3, <2>2, Kinds DEF InLoop
    <2> QED BY <1>2, <2>1, <2>3
  <1>12. ASSUME NEW t \in Senders, CloseConn(t) \/ Unlock(t) PROVE Streams' /\ Lagging'
    BY <1>1, <1>12, CloseConnOrder, UnlockOrder DEF CloseConn, Unlock, netVars, feedVars
  <1>13. ASSUME NEW t \in Senders, NEW f \in Fd, SendFails(t, f) PROVE Streams' /\ Lagging'
    BY <1>1, <1>13, SendFailsOrder DEF SendFails, netVars, feedVars
  <1>14. ASSUME NEW t \in Senders, NEW f \in Fd, SendOk(t, f) PROVE Streams' /\ Lagging'
    BY <1>14, SendOkOrder
  <1>15. ASSUME NEW t \in Senders, Lock(t) PROVE Streams' /\ Lagging'
    BY <1>15, LockOrder
  <1>16. CASE Join
    BY <1>16, JoinOrder
  <1> QED
    BY <1>5, <1>6, <1>7, <1>8, <1>9, <1>10, <1>11, <1>12, <1>13, <1>14, <1>15, <1>16
    DEF Next, SenderStep

-----------------------------------------------------------------------------
(* The log.                                                                *)

\* A sequence to which a thread's next record is added.
LEMMA Added ==
    ASSUME NEW s \in Seq(Records), NEW e \in Records
    PROVE  /\ By(Append(s, e), e.by) = By(s, e.by) \union {e}
           /\ \A t : t # e.by => By(Append(s, e), t) = By(s, t)
           /\ /\ InTurn(s) /\ \A r \in By(s, e.by) : r.n < e.n
              => InTurn(Append(s, e))
  <1> DEFINE z == Append(s, e)
             n == Len(s)
  <1>1. /\ n \in Nat /\ Len(z) = n + 1 /\ z[n + 1] = e
        /\ \A i \in 1 .. n : z[i] = s[i]
    OBVIOUS
  <1> HIDE DEF z
  <1>2. \A i \in 1 .. Len(z) : i \in 1 .. n \/ i = n + 1
    BY <1>1
  <1>3. 1 .. n \subseteq 1 .. Len(z) /\ n + 1 \in 1 .. Len(z)
    BY <1>1
  <1>4. {z[i] : i \in 1 .. Len(z)} = {s[i] : i \in 1 .. n} \union {e}
    BY <1>1, <1>2, <1>3
  <1>5. By(z, e.by) = By(s, e.by) \union {e}
    BY <1>4 DEF By
  <1>6. \A t : t # e.by => By(z, t) = By(s, t)
    BY <1>4 DEF By
  <1>7. ASSUME InTurn(s), \A r \in By(s, e.by) : r.n < e.n
        PROVE  InTurn(z)
    <2> SUFFICES ASSUME NEW i \in 1 .. Len(z), NEW j \in 1 .. Len(z), i < j,
                        z[i].by = z[j].by
                 PROVE  z[i].n < z[j].n
      BY DEF InTurn
    <2>1. i \in 1 .. n
      BY <1>1
    <2>2. CASE j \in 1 .. n
      BY <1>1, <1>7, <2>1, <2>2 DEF InTurn
    <2>3. CASE j = n + 1
      <3>1. s[i] \in By(s, e.by)
        BY <1>1, <2>1, <2>3 DEF By
      <3> QED BY <1>1, <1>7, <2>1, <2>3, <3>1
    <2> QED BY <1>2, <2>2, <2>3
  <1> QED BY <1>5, <1>6, <1>7 DEF z

\* A page stays while the thread's place and record and what it has written do.
LEMMA PageSame ==
    ASSUME NEW t \in Senders, Page(t), rec'[t] = rec[t],
           By(log', t) = By(log, t), By(hist', t) = By(hist, t),
           \A r : r.by = t => (r \in unlogged' <=> r \in unlogged),
           \/ pc'[t] = pc[t]
           \/ pc'[t] \notin {"log", "lock"} /\ pc[t] \notin {"lock", "ended"}
           \/ pc'[t] = "ended"
    PROVE  Page(t)'
  <1>1. \A r \in By(log, t) \union By(hist, t) : r.by = t
    BY DEF By
  <1>2. By(hist', t) \ unlogged' = By(hist, t) \ unlogged
    BY <1>1
  <1>3. {r \in unlogged' : r.by = t} = {r \in unlogged : r.by = t}
    OBVIOUS
  <1>4. (Settled(t)' <=> Settled(t))
    BY <1>2 DEF Settled
  <1>5. rec[t].by = t
    BY DEF Page
  <1>6. (Ahead(t)' <=> Ahead(t)) /\ (Skipped(t)' <=> Skipped(t))
    BY <1>2, <1>4, <1>5 DEF Ahead, Skipped, Older
  <1>7. /\ rec'[t].by = t /\ rec'[t].n \in Nat
        /\ \A r \in By(log', t) \union By(hist', t) \union unlogged' :
              r.by = t => r.n <= rec'[t].n
    BY DEF Page
  <1>8. pc'[t] = "log" =>
          Older(By(log, t) \union By(hist, t) \union {r \in unlogged : r.by = t}, t)'
    BY <1>3 DEF Page, Older
  <1>9. pc'[t] \notin {"lock", "ended"} => Settled(t)'
    BY <1>4, <1>6 DEF Page
  <1>10. pc'[t] = "lock" => Ahead(t)' \/ Skipped(t)'
    BY <1>6 DEF Page
  <1>11. pc'[t] = "ended" => Settled(t)' \/ Ahead(t)'
    BY <1>4, <1>6 DEF Page, Skipped
  <1> QED BY <1>7, <1>8, <1>9, <1>10, <1>11 DEF Page

\* The numbers of records.
LEMMA RecordNumbers ==
    ASSUME Types, NEW t \in Senders
    PROVE  /\ rec[t] \in Records /\ log \in Seq(Records) /\ hist \in Seq(Records)
           /\ \A r \in Records : r.n \in Nat
           /\ By(log, t) \subseteq Records /\ By(hist, t) \subseteq Records
           /\ unlogged \subseteq Records
           /\ \A r \in By(log, t) \union By(hist, t) : r.by = t
  <1>1. /\ rec[t] \in Records /\ log \in Seq(Records) /\ hist \in Seq(Records)
        /\ unlogged \subseteq Records
    BY DEF Types, TypeOK
  <1>2. \A r \in Records : r.n \in Nat
    BY PcapperAssumption DEF Records, NoRec
  <1>3. \A i \in 1 .. Len(log) : log[i] \in Records
    BY <1>1, ElementOfSeq
  <1>4. \A i \in 1 .. Len(hist) : hist[i] \in Records
    BY <1>1, ElementOfSeq
  <1> QED BY <1>1, <1>2, <1>3, <1>4 DEF By

\* A thread makes a record, which it is going to log.
LEMMA PageMade ==
    ASSUME Types, NEW t \in Senders, Page(t), pc[t] \notin {"log", "lock", "ended"},
           rec'[t].by = t, rec'[t].n = rec[t].n + 1, pc'[t] = "log",
           UNCHANGED <<log, hist, unlogged>>
    PROVE  Page(t)'
  <1> DEFINE S == By(log, t) \union By(hist, t) \union {r \in unlogged : r.by = t}
             n == rec[t].n
  <1>1. n \in Nat /\ rec'[t].n = n + 1 /\ Settled(t)
    BY DEF Page
  <1>2. \A r \in S : r.n \in Nat /\ r.n <= n
    BY RecordNumbers DEF Page
  <1>3. Settled(t)'
    BY <1>1 DEF Settled
  <1> HIDE DEF n
  <1>4. \A r \in S : r.n < rec'[t].n /\ r.n <= rec'[t].n
    BY <1>1, <1>2
  <1>5. Older(S, t)'
    BY <1>4 DEF Older
  <1>6. \A r \in By(log', t) \union By(hist', t) \union unlogged' :
          r.by = t => r.n <= rec'[t].n
    BY <1>4
  <1>7. rec'[t].n \in Nat
    BY <1>1
  <1> QED BY <1>3, <1>5, <1>6, <1>7 DEF Page

\* The record is in the log, or is reported as unlogged.
LEMMA PageLogged ==
    ASSUME Types, NEW t \in Senders, Page(t), pc[t] = "log", pc'[t] = "lock",
           rec'[t] = rec[t], UNCHANGED hist,
           \/ log' = Append(log, rec[t]) /\ UNCHANGED unlogged
           \/ unlogged' = unlogged \union {rec[t]} /\ UNCHANGED log
    PROVE  Page(t)'
  <1> DEFINE S == By(log, t) \union By(hist, t) \union {r \in unlogged : r.by = t}
             e == rec[t]
  <1>1. /\ e.by = t /\ e.n \in Nat /\ Settled(t) /\ \A r \in S : r.n < e.n
        /\ \A r \in S : r.n <= e.n
    BY RecordNumbers DEF Page, Older
  <1>2. e \notin S
    BY <1>1
  <1>3. /\ e \notin By(log, t) /\ e \notin By(hist, t) /\ e \notin unlogged
        /\ \A r \in By(hist, t) : r.n < e.n
    BY <1>1, <1>2
  <1>4. \A r \in By(log, t) \union By(hist, t) : r.by = t
    BY RecordNumbers
  <1>5. CASE log' = Append(log, e) /\ UNCHANGED unlogged
    <2>1. By(log', t) = By(log, t) \union {e}
      BY <1>1, <1>5, RecordNumbers, Added
    <2>2. By(hist', t) \ unlogged' = By(log, t) /\ By(log, t) = By(log', t) \ {e}
      BY <1>1, <1>3, <1>5, <2>1 DEF Settled
    <2>3. Ahead(t)'
      BY <1>3, <1>5, <2>1, <2>2 DEF Ahead, Older
    <2>4. \A r \in By(log', t) \union By(hist', t) \union unlogged' :
            r.by = t => r.n <= rec'[t].n
      BY <1>1, <1>5, <2>1
    <2> QED BY <1>1, <2>3, <2>4 DEF Page
  <1>6. CASE unlogged' = unlogged \union {e} /\ UNCHANGED log
    <2>1. Skipped(t)'
      BY <1>1, <1>3, <1>6 DEF Skipped, Settled, Older
    <2>2. \A r \in By(log', t) \union By(hist', t) \union unlogged' :
            r.by = t => r.n <= rec'[t].n
      BY <1>1, <1>6
    <2> QED BY <1>1, <2>1, <2>2 DEF Page
  <1> QED BY <1>5, <1>6

\* The record is broadcast.
LEMMA PageSent ==
    ASSUME Types, NEW t \in Senders, Page(t), pc[t] = "lock", pc'[t] = "send",
           rec'[t] = rec[t], UNCHANGED <<log, unlogged>>, hist' = Append(hist, rec[t])
    PROVE  Page(t)'
  <1> DEFINE e == rec[t]
  <1>1. e.by = t /\ e.n \in Nat /\ (Ahead(t) \/ Skipped(t))
    BY DEF Page
  <1>2. By(hist', t) = By(hist, t) \union {e}
    BY <1>1, RecordNumbers, Added
  <1>3. Settled(t)'
    BY <1>1, <1>2 DEF Ahead, Skipped, Settled
  <1>4. \A r \in By(log', t) \union By(hist', t) \union unlogged' :
          r.by = t => r.n <= rec'[t].n
    BY <1>1, <1>2 DEF Page
  <1> QED BY <1>1, <1>3, <1>4 DEF Page

\* The pages of the others when thread t writes its record.
LEMMA PageOther ==
    ASSUME Types, NEW t \in Senders, NEW u \in Senders, u # t, Page(t), Page(u),
           rec'[u] = rec[u], pc'[u] = pc[u],
           log' = log \/ log' = Append(log, rec[t]),
           hist' = hist \/ hist' = Append(hist, rec[t]),
           unlogged' = unlogged \/ unlogged' = unlogged \union {rec[t]}
    PROVE  Page(u)'
  <1>1. rec[t].by = t /\ rec[t] \in Records
    BY RecordNumbers DEF Page
  <1>2. By(log', u) = By(log, u) /\ By(hist', u) = By(hist, u)
    <2>1. log \in Seq(Records) /\ hist \in Seq(Records)
      BY RecordNumbers
    <2>2. By(Append(log, rec[t]), u) = By(log, u) /\ By(Append(hist, rec[t]), u) = By(hist, u)
      BY <1>1, <2>1, Added
    <2>3. By(log', u) = By(log, u)
      BY <2>2
    <2>4. By(hist', u) = By(hist, u)
      BY <2>2
    <2> QED BY <2>3, <2>4
  <1>3. \A r : r.by = u => (r \in unlogged' <=> r \in unlogged)
    BY <1>1
  <1> QED BY <1>2, <1>3, PageSame

\* A file is done with: readstat() and readmem() make a record, logpkt() writes
\* it or fails.
LEMMA LogFile ==
    ASSUME Types, Logbook, NEW t \in Senders, CloseFile(t) \/ OpenFails(t)
    PROVE  Logbook'
  <1>1. PICK ok \in BOOLEAN : pc' = [pc EXCEPT ![t] = AfterFile(pc[t], ok)]
    BY DEF CloseFile, OpenFails
  <1>2. /\ pc[t] \in FilePcs /\ rec' = [rec EXCEPT ![t] = Report(t)] /\ UNCHANGED hist
        /\ \/ /\ UNCHANGED unlogged
              /\ log' = IF pc[t] = "log" THEN Append(log, rec[t]) ELSE log
           \/ /\ UNCHANGED log
              /\ unlogged' = IF pc[t] = "log" THEN unlogged \union {rec[t]} ELSE unlogged
    BY DEF CloseFile, OpenFails, feedVars
  <1>3. /\ pc'[t] = AfterFile(pc[t], ok) /\ rec'[t] = Report(t)
        /\ \A u \in Senders : u # t => pc'[u] = pc[u] /\ rec'[u] = rec[u]
    BY <1>1, <1>2 DEF Types, TypeOK, Threads
  <1>4. Page(t) /\ InTurn(log) /\ InTurn(hist) /\ \A u \in Senders : Page(u)
    BY DEF Logbook
  <1>5. ASSUME NEW u \in Senders, u # t PROVE Page(u)'
    BY <1>2, <1>3, <1>4, <1>5, PageOther
  <1>6. Page(t)' /\ InTurn(log')
    <2>1. CASE pc[t] = "init"
      <3>1. rec'[t] = rec[t] /\ pc'[t] \in {"idle", "ended"} /\ UNCHANGED <<log, unlogged>>
        BY <1>2, <1>3, <2>1, AfterFileIs, ReportIs
      <3> QED BY <1>2, <1>4, <2>1, <3>1, PageSame
    <2>2. CASE pc[t] \in {"readstat", "readmem"}
      <3>1. pc'[t] = "log" /\ UNCHANGED <<log, unlogged>>
        BY <1>2, <1>3, <2>2, AfterFileIs
      <3>2. Report(t).by = t /\ Report(t).n = rec[t].n + 1
        BY <2>2 DEF Report
      <3> QED BY <1>2, <1>3, <1>4, <2>2, <3>1, <3>2, PageMade
    <2>3. CASE pc[t] = "log"
      <3>1. rec'[t] = rec[t] /\ pc'[t] = "lock"
        BY <1>2, <1>3, <2>3, AfterFileIs, ReportIs
      <3>2. \/ log' = Append(log, rec[t]) /\ UNCHANGED unlogged
            \/ unlogged' = unlogged \union {rec[t]} /\ UNCHANGED log
        BY <1>2, <2>3
      <3>3. Page(t)'
        BY <1>2, <1>4, <2>3, <3>1, <3>2, PageLogged
      <3>4. rec[t].by = t /\ \A r \in By(log, t) : r.n < rec[t].n
        BY <1>4, <2>3 DEF Page, Older
      <3>5. InTurn(log')
        <4>1. log \in Seq(Records) /\ rec[t] \in Records
          BY RecordNumbers
        <4>2. InTurn(Append(log, rec[t]))
          BY <1>4, <3>4, <4>1, Added
        <4> QED BY <1>4, <3>2, <4>2
      <3> QED BY <3>3, <3>5
    <2> QED BY <1>2, <2>1, <2>2, <2>3 DEF FilePcs
  <1> QED BY <1>2, <1>4, <1>5, <1>6 DEF Logbook

\* The record of the thread that takes biglock is the next in the broadcasts.
LEMMA LogLock ==
    ASSUME Types, Logbook, NEW t \in Senders, Lock(t)
    PROVE  Logbook'
  <1>1. /\ pc[t] = "lock" /\ pc' = [pc EXCEPT ![t] = "send"] /\ hist' = Append(hist, rec[t])
        /\ UNCHANGED <<rec, log, unlogged>>
    BY DEF Lock, MayLock, logVars
  <1>2. pc'[t] = "send" /\ \A u \in Senders : u # t => pc'[u] = pc[u]
    BY <1>1 DEF Types, TypeOK, Threads
  <1>3. Page(t) /\ InTurn(log) /\ InTurn(hist) /\ \A u \in Senders : Page(u)
    BY DEF Logbook
  <1>4. ASSUME NEW u \in Senders, u # t PROVE Page(u)'
    BY <1>1, <1>2, <1>3, <1>4, PageOther
  <1>5. Page(t)'
    BY <1>1, <1>2, <1>3, PageSent
  <1>6. rec[t].by = t /\ \A r \in By(hist, t) : r.n < rec[t].n
    BY <1>1, <1>3 DEF Page, Ahead, Skipped, Older
  <1>7. InTurn(hist')
    BY <1>1, <1>3, <1>6, RecordNumbers, Added
  <1> QED BY <1>1, <1>3, <1>4, <1>5, <1>7 DEF Logbook

\* A packet is captured.
LEMMA LogCapture ==
    ASSUME Types, Logbook, NEW p \in Packets, Capture(p)
    PROVE  Logbook'
  <1>1. /\ pc["cap"] = "idle" /\ pc' = [pc EXCEPT !["cap"] = "log"]
        /\ rec' = [rec EXCEPT !["cap"] = [by |-> "cap", kind |-> "pkt", n |-> rec["cap"].n + 1]]
        /\ UNCHANGED <<log, unlogged, hist>>
    BY DEF Capture, logVars, feedVars
  <1>2. /\ pc'["cap"] = "log" /\ pc'["stat"] = pc["stat"] /\ rec'["stat"] = rec["stat"]
        /\ rec'["cap"].by = "cap" /\ rec'["cap"].n = rec["cap"].n + 1
    BY <1>1 DEF Types, TypeOK, Threads, Senders
  <1>3. Page("cap") /\ Page("stat") /\ "cap" \in Senders /\ "stat" \in Senders
    BY DEF Logbook, Senders
  <1>4. Page("cap")'
    BY <1>1, <1>2, <1>3, PageMade
  <1>5. Page("stat")'
    BY <1>1, <1>2, <1>3, PageSame
  <1> QED BY <1>1, <1>4, <1>5 DEF Logbook, Senders

LEMMA LogStep == Types /\ Logbook /\ [Next]_vars => Logbook'
  <1> SUFFICES ASSUME Types, Logbook, [Next]_vars PROVE Logbook'
    OBVIOUS
  <1>0. pc \in [Threads -> Pcs] /\ Senders \subseteq Threads /\ "acc" \notin Senders
    BY DEF Types, TypeOK, Pcs, Threads, Senders
  <1>1. CASE /\ UNCHANGED <<rec, log, unlogged, hist>>
             /\ \A t \in Senders :
                   \/ pc'[t] = pc[t]
                   \/ pc'[t] \notin {"log", "lock"} /\ pc[t] \notin {"lock", "ended"}
                   \/ pc'[t] = "ended"
    <2>1. ASSUME NEW t \in Senders PROVE Page(t)'
      BY <1>1, PageSame DEF Logbook
    <2> QED BY <1>1, <2>1 DEF Logbook
  <1>2. ASSUME \/ Accept \/ AcceptFails \/ Join \/ UNCHANGED vars
               \/ \E p \in Packets : Ignore(p)
               \/ \E t \in Senders : OpenFile(t) \/ \E f \in Fd : SendOk(t, f)
               \/ \E f \in Fd : ShutDown(f)
               \/ Environment
        PROVE  Logbook'
    <2>1. UNCHANGED <<rec, log, unlogged, hist>>
      BY <1>2 DEF Accept, AcceptFails, Join, Ignore, OpenFile, SendOk, ShutDown, Environment,
                  CollectorJoins, CollectorReads, CollectorLeaves, vars, threadVars, logVars,
                  feedVars
    <2>2. UNCHANGED pc \/ \E q : pc' = [pc EXCEPT !["acc"] = q]
      BY <1>2 DEF Accept, AcceptFails, Join, Ignore, OpenFile, SendOk, ShutDown, Environment,
                  CollectorJoins, CollectorReads, CollectorLeaves, vars, threadVars
    <2>3. \A t \in Senders : pc'[t] = pc[t]
      BY <1>0, <2>2
    <2> QED BY <1>1, <2>1, <2>3
  <1>3. ASSUME \/ Tick \/ CaptureEnds \/ Exit
               \/ \E t \in Senders : \/ CloseConn(t) \/ Unlock(t)
                                     \/ \E f \in Fd : SendFails(t, f)
        PROVE  Logbook'
    <2>1. UNCHANGED <<rec, log, unlogged, hist>>
      BY <1>3 DEF Tick, CaptureEnds, Exit, CloseConn, Unlock, SendFails, logVars, feedVars
    <2>2. \/ pc' = [t \in Threads |-> "ended"]
          \/ \E t \in Senders : \E q \in {"readstat", "shut", "send", "readmem", "idle", "close"} :
                /\ pc' = [pc EXCEPT ![t] = q]
                /\ pc[t] \in {"idle", "send", "close"}
      BY <1>3 DEF Tick, CaptureEnds, Exit, CloseConn, Unlock, SendFails, Due, Senders
    <2>3. \A t \in Senders :
             \/ pc'[t] = pc[t]
             \/ pc'[t] \notin {"log", "lock"} /\ pc[t] \notin {"lock", "ended"}
             \/ pc'[t] = "ended"
      BY <1>0, <2>2
    <2> QED BY <1>1, <2>1, <2>3
  <1> QED BY <1>2, <1>3, LogFile, LogLock, LogCapture DEF Next, SenderStep

-----------------------------------------------------------------------------
(* The theorems.                                                           *)

LEMMA InitIInv == Init => IInv
  <1> SUFFICES ASSUME Init PROVE IInv
    OBVIOUS
  <1>1. Types
    <2>1. Data
      <3>1. /\ hold \in [Threads -> Fd \union {NoFd}]
            /\ fdt \in [Fd -> Conn \union {Free, File}]
            /\ peer \in [Conn -> {"none", "up", "closed", "reset"}]
            /\ join \in [Conn -> Nat \union {NeverJoined}]
        BY DEF Init
      <3>2. cursor \in [Senders -> 0 .. NFD] /\ nread \in [Conn -> Nat]
        BY PcapperAssumption DEF Init
      <3>3. sent \in [Conn -> Seq(Records)]
        <4>1. <<>> \in Seq(Records)
          OBVIOUS
        <4> QED BY <4>1 DEF Init
      <3>4. /\ bigfs \subseteq Fd /\ biglock \in Senders \union {NoOne}
            /\ unlogged \subseteq Records /\ cancelled \in BOOLEAN
        BY DEF Init
      <3>5. backlog \in Seq(Conn) /\ log \in Seq(Records) /\ hist \in Seq(Records)
        BY DEF Init
      <3> QED BY <3>1, <3>2, <3>3, <3>4, <3>5 DEF Data
    <2>2. rec \in [Senders -> Records]
      BY DEF Init, Records
    <2>3. pc \in [Threads -> Pcs] /\ \A t \in Senders : pc[t] \notin InLoop
      BY Kinds DEF Init, Pcs, FilePcs, InLoop
    <2>4. TypeOK
      BY <2>1, <2>2, <2>3, TypeParts
    <2>5. Control
      BY Kinds DEF Init, Control, FilePcs
    <2>6. Numbered
      <3>1. /\ rec["cap"].kind = "none" /\ rec["cap"].n = 0
            /\ rec["stat"].kind = "none" /\ rec["stat"].n = 0
            /\ pc["stat"] = "init"
        BY DEF Init, NoRec, Senders
      <3>2. 0 \in 0 .. MaxTicks /\ 0 = 2 * 0
        BY PcapperAssumption
      <3> QED BY <3>1, <3>2 DEF Numbered
    <2> QED BY <2>4, <2>5, <2>6 DEF Types
  <1>2. Owned
    BY Kinds DEF Init, Owned, NoLeak
  <1>3. Fresh
    BY Kinds DEF Init, Fresh
  <1>4. Streams
    BY DEF Init, Streams
  <1>5. Lagging
    BY Kinds DEF Init, Lagging, Live, InLoop
  <1>6. Logbook
    <2>1. log = <<>> /\ hist = <<>> /\ unlogged = {} /\ Len(<<>>) = 0
      BY DEF Init
    <2>2. InTurn(log) /\ InTurn(hist)
      BY <2>1 DEF InTurn
    <2>3. ASSUME NEW t \in Senders PROVE Page(t)
      <3>1. By(log, t) = {} /\ By(hist, t) = {}
        BY <2>1 DEF By
      <3>2. rec[t].by = t /\ rec[t].n = 0
        BY DEF Init, NoRec
      <3>3. pc[t] \notin {"log", "lock", "ended"}
        BY DEF Init, Senders
      <3> QED BY <2>1, <3>1, <3>2, <3>3 DEF Page, Settled
    <2> QED BY <2>2, <2>3 DEF Logbook
  <1> QED BY <1>1, <1>2, <1>3, <1>4, <1>5, <1>6 DEF IInv

LEMMA NextIInv == IInv /\ [Next]_vars => IInv'
  BY TypesStep, OwnedStep, FreshStep, OrderStep, LogStep DEF IInv

\* The invariant holds for the three threads of pcapper.c, whatever collectors do.
THEOREM InductiveInvariant == Spec => []IInv
  BY InitIInv, NextIInv, PTL DEF Spec


\* The types, and that a sender is in its send loop only with biglock.
THEOREM TypesAlways == Spec => []TypeOK
  <1>1. IInv => TypeOK
    BY DEF IInv, Types
  <1> QED BY <1>1, InductiveInvariant, PTL

\* Descriptors are never confused, although close() under biglock races accept()
\* and fopen() outside it.
THEOREM SetIsOpenAlways == Spec => []SetIsOpen
  <1>1. IInv => SetIsOpen
    <2> SUFFICES ASSUME IInv, ~ cancelled PROVE SetIsOpen
      BY DEF SetIsOpen
    <2>1. pc["cap"] # "ended"
      BY DEF IInv, Types, Control
    <2>2. ASSUME NEW t \in Threads, hold[t] # NoFd
          PROVE  /\ hold[t] \notin bigfs
                 /\ fdt[hold[t]] = File <=> pc[t] \in FilePcs
                 /\ \A u \in Threads : hold[u] = hold[t] => u = t
      BY <2>1, <2>2, Kinds DEF IInv, Owned
    <2> QED BY <2>1, <2>2 DEF IInv, Owned, SetIsOpen
  <1> QED BY <1>1, InductiveInvariant, PTL

\* No descriptor leaks while the agent serves.
THEOREM NoLeakAlways == Spec => []NoLeak
  <1>1. IInv => NoLeak
    BY DEF IInv, Owned, Types, Control, NoLeak
  <1> QED BY <1>1, InductiveInvariant, PTL

\* All collectors see the records in the order of the broadcasts, without gaps.
THEOREM OneOrderAlways == Spec => []OneOrder
  <1>1. IInv => OneOrder
    <2> SUFFICES ASSUME IInv, NEW c \in Conn
                 PROVE  /\ join[c] = NeverJoined => sent[c] = <<>>
                        /\ join[c] # NeverJoined =>
                             /\ join[c] + Len(sent[c]) <= Len(hist)
                             /\ sent[c] = SubSeq(hist, join[c] + 1, join[c] + Len(sent[c]))
                             /\ biglock = NoOne /\ peer[c] = "up" =>
                                  join[c] + Len(sent[c]) = Len(hist)
      BY DEF OneOrder
    <2>1. join[c] = NeverJoined => sent[c] = <<>>
      BY DEF IInv, Streams
    <2> SUFFICES ASSUME join[c] # NeverJoined
                 PROVE  /\ join[c] + Len(sent[c]) <= Len(hist)
                        /\ sent[c] = SubSeq(hist, join[c] + 1, join[c] + Len(sent[c]))
                        /\ biglock = NoOne /\ peer[c] = "up" =>
                             join[c] + Len(sent[c]) = Len(hist)
      BY <2>1
    <2>2. /\ join[c] \in Nat /\ Len(sent[c]) \in Nat /\ Len(hist) \in Nat
          /\ sent[c] \in Seq(Records) /\ hist \in Seq(Records)
      BY TypedFeed DEF IInv
    <2>3. /\ join[c] + Len(sent[c]) <= Len(hist)
          /\ \A i \in 1 .. Len(sent[c]) : sent[c][i] = hist[join[c] + i]
      BY DEF IInv, Streams
    <2> DEFINE s == SubSeq(hist, join[c] + 1, join[c] + Len(sent[c]))
    <2>4. /\ s \in Seq(Records) /\ Len(s) = Len(sent[c])
          /\ \A i \in 1 .. Len(sent[c]) : s[i] = hist[join[c] + i]
      <3> DEFINE m == join[c] + 1
                 n == join[c] + Len(sent[c])
      <3>1. m \in Int /\ n \in Int /\ n - m + 1 = Len(sent[c]) /\ m .. n \subseteq 1 .. Len(hist)
        BY <2>2, <2>3
      <3> HIDE DEF m, n
      <3>2. \A i \in m .. n : hist[i] \in Records
        <4>1. \A i \in 1 .. Len(hist) : hist[i] \in Records
          BY <2>2
        <4> QED BY <3>1, <4>1
      <3>3. /\ SubSeq(hist, m, n) \in Seq(Records)
            /\ Len(SubSeq(hist, m, n)) = IF m <= n THEN n - m + 1 ELSE 0
            /\ \A i \in 1 .. n - m + 1 : SubSeq(hist, m, n)[i] = hist[m + i - 1]
        BY <3>1, <3>2, SubSeqProperties
      <3>4. \A i \in 1 .. Len(sent[c]) : m + i - 1 = join[c] + i
        BY <2>2 DEF m
      <3>5. Len(SubSeq(hist, m, n)) = Len(sent[c])
        BY <2>2, <3>1, <3>3
      <3> QED BY <3>1, <3>3, <3>4, <3>5 DEF m, n
    <2> HIDE DEF s
    <2>5. sent[c] = s
      BY <2>2, <2>3, <2>4, SeqEqual
    <2>6. biglock = NoOne /\ peer[c] = "up" => ~ Behind(c)
      BY DEF IInv, Lagging, Live
    <2> QED BY <2>2, <2>3, <2>5, <2>6 DEF s, Behind
  <1> QED BY <1>1, InductiveInvariant, PTL


-----------------------------------------------------------------------------
(* The agent implements the feed.                                          *)

Lost == {c \in Conn : peer[c] \notin {"none", "up"}}

\* Each step of the threads and of the collectors publishes one record, enters one
\* collector, delivers one record, loses one collector, or changes nothing that the
\* feed speaks of.
LEMMA FeedStep ==
    IInv /\ [Next]_vars => [Promise!Next]_(Promise!vars)
  <1> SUFFICES ASSUME IInv, [Next]_vars PROVE [Promise!Next]_(Promise!vars)
    OBVIOUS
  <1>0. /\ Types /\ Owned /\ Fresh /\ Streams /\ Lagging
        /\ peer \in [Conn -> {"none", "up", "closed", "reset"}]
    BY TypedFeed DEF IInv
  <1>1. ASSUME UNCHANGED <<hist, join, sent>>, Lost' = Lost
        PROVE  UNCHANGED Promise!vars
    BY <1>1 DEF Promise!vars, Lost
  <1>2. ASSUME NEW t \in Senders, Lock(t) PROVE Promise!Next
    <2>1. /\ biglock = NoOne /\ hist' = Append(hist, rec[t])
          /\ UNCHANGED <<join, sent, peer>>
      BY <1>2 DEF Lock, MayLock, netVars
    <2>2. rec[t] \in Records
      BY <1>0, TypedFeed
    <2>3. \A c \in Conn \ Lost : ~ Promise!Behind(c)
      <3> SUFFICES ASSUME NEW c \in Conn, c \notin Lost, Promise!Behind(c) PROVE FALSE
        OBVIOUS
      <3>1. Behind(c) /\ join[c] # NeverJoined
        BY DEF Promise!Behind, Behind
      <3>2. Live(c)
        BY <1>0, <3>1 DEF Lost, Live, Fresh
      <3> QED BY <1>0, <2>1, <3>1, <3>2 DEF Lagging
    <2>4. Promise!Publish(rec[t])
      BY <2>1, <2>3 DEF Promise!Publish, Lost
    <2> QED BY <2>2, <2>4 DEF Promise!Next
  <1>3. CASE Join
    <2> DEFINE c == fdt[hold["acc"]]
    <2>1. /\ pc["acc"] = "join" /\ join' = [join EXCEPT ![c] = Len(hist)]
          /\ UNCHANGED <<hist, sent, peer>>
      BY <1>3 DEF Join, MayJoin, netVars
    <2>2. c \in Conn /\ join[c] = NeverJoined
      <3>1. pc["cap"] # "ended" /\ hold["acc"] # NoFd
        BY <1>0, <2>1, Kinds DEF Types, Control
      <3> QED BY <1>0, <2>1, <3>1, Kinds DEF Owned, Fresh
    <2> HIDE DEF c
    <2>3. Promise!Subscribe(c)
      BY <2>1, <2>2 DEF Promise!Subscribe
    <2> QED BY <2>2, <2>3 DEF Promise!Next
  <1>4. ASSUME NEW t \in Senders, NEW f \in Fd, SendOk(t, f)
        PROVE  [Promise!Next]_(Promise!vars)
    <2> DEFINE c == fdt[f]
    <2>1. c \in Conn /\ UNCHANGED <<hist, join>>
      BY <1>4 DEF SendOk, feedVars
    <2>2. \/ UNCHANGED sent /\ \A d \in Conn : peer'[d] = "up" <=> peer[d] = "up"
          \/ /\ UNCHANGED peer /\ peer[c] = "up" /\ Behind(c)
             /\ sent' = [sent EXCEPT ![c] = Append(@, hist[join[c] + Len(@) + 1])]
      BY <1>0, <1>4, SendOkOrder
    <2>3. \A d \in Conn : peer'[d] = "none" <=> peer[d] = "none"
      BY <1>0, <1>4 DEF SendOk
    <2> HIDE DEF c
    <2>4. CASE UNCHANGED sent /\ \A d \in Conn : peer'[d] = "up" <=> peer[d] = "up"
      BY <1>1, <2>1, <2>3, <2>4 DEF Lost
    <2>5. CASE /\ UNCHANGED peer /\ peer[c] = "up" /\ Behind(c)
               /\ sent' = [sent EXCEPT ![c] = Append(@, hist[join[c] + Len(@) + 1])]
      <3>1. Promise!Deliver(c)
        BY <2>1, <2>5 DEF Promise!Deliver, Promise!Behind, Behind
      <3> QED BY <2>1, <3>1 DEF Promise!Next
    <2> QED BY <2>2, <2>4, <2>5
  <1>5. ASSUME NEW c \in Conn, CollectorLeaves(c)
        PROVE  [Promise!Next]_(Promise!vars)
    <2>1. /\ UNCHANGED <<hist, join, sent>>
          /\ \A d \in Conn : d # c => peer'[d] = peer[d]
          /\ peer'[c] \in {"closed", "reset"} /\ peer[c] \in {"up", "closed"}
      BY <1>0, <1>5 DEF CollectorLeaves, feedVars
    <2>2. CASE peer[c] = "up"
      <3>1. c \notin Lost /\ Lost' = Lost \union {c}
        BY <2>1, <2>2 DEF Lost
      <3>2. Promise!Lose(c)
        BY <2>1, <3>1 DEF Promise!Lose, Lost
      <3> QED BY <3>2 DEF Promise!Next
    <2>3. CASE peer[c] = "closed"
      <3>1. Lost' = Lost
        BY <2>1, <2>3 DEF Lost
      <3> QED BY <1>1, <2>1, <3>1
    <2> QED BY <2>1, <2>2, <2>3
  <1>6. ASSUME NEW c \in Conn, CollectorJoins(c) PROVE UNCHANGED Promise!vars
    <2>1. /\ peer[c] = "none" /\ peer' = [peer EXCEPT ![c] = "up"]
          /\ UNCHANGED <<hist, join, sent>>
      BY <1>6 DEF CollectorJoins, feedVars
    <2>2. Lost' = Lost
      BY <1>0, <2>1 DEF Lost
    <2> QED BY <1>1, <2>1, <2>2
  <1>7. ASSUME \/ Accept \/ AcceptFails \/ Tick \/ CaptureEnds \/ Exit \/ UNCHANGED vars
               \/ \E p \in Packets : Capture(p) \/ Ignore(p)
               \/ \E t \in Senders : \/ OpenFile(t) \/ CloseFile(t) \/ OpenFails(t)
                                     \/ CloseConn(t) \/ Unlock(t)
                                     \/ \E f \in Fd : SendFails(t, f)
               \/ \E f \in Fd : ShutDown(f)
               \/ \E c \in Conn : CollectorReads(c)
        PROVE  UNCHANGED Promise!vars
    <2>1. UNCHANGED <<hist, join, sent, peer>>
      BY <1>7
      DEF Accept, AcceptFails, Tick, CaptureEnds, Exit, Capture, Ignore, OpenFile, CloseFile,
          OpenFails, CloseConn, Unlock, SendFails, ShutDown, CollectorReads, vars, netVars,
          feedVars
    <2> QED BY <1>1, <2>1 DEF Lost
  <1> QED
    BY <1>2, <1>3, <1>4, <1>5, <1>6, <1>7 DEF Next, SenderStep, Environment

\* The log has, of each thread, the records broadcast that are not reported as
\* unlogged, in the same order, and at most one that has not been broadcast yet,
\* although logpkt() writes it outside of biglock.
THEOREM LogAgreesAlways == Spec => []LogAgrees
  <1>1. IInv => LogAgrees
    <2> SUFFICES ASSUME IInv PROVE LogAgrees
      OBVIOUS
    <2>1. InTurn(log) /\ InTurn(hist) /\ \A t \in Senders : Page(t)
      BY DEF IInv, Logbook
    <2>2. ASSUME NEW t \in Senders
          PROVE  \/ By(log, t) = By(hist, t) \ unlogged
                 \/ /\ pc[t] \in {"lock", "ended"}
                    /\ rec[t] \in By(log, t) /\ By(hist, t) \ unlogged = By(log, t) \ {rec[t]}
                    /\ \A r \in By(hist, t) \ unlogged : r.n < rec[t].n
      BY <2>1 DEF Page, Settled, Ahead, Skipped, Older
    <2> QED BY <2>1, <2>2 DEF LogAgrees
  <1> QED BY <1>1, InductiveInvariant, PTL

\* The threads, the mutex and the sockets implement the feed.
THEOREM FeedImplemented == Spec => ImplementsFeed
  <1>1. Init => Promise!Init
    BY DEF Init, Promise!Init
  <1>2. IInv /\ [Next]_vars => [Promise!Next]_(Promise!vars)
    BY FeedStep
  <1> QED BY InductiveInvariant, <1>1, <1>2, PTL DEF Spec, ImplementsFeed, Promise!Spec
=============================================================================
