----------------------------- MODULE MwmgProofs -----------------------------
(***************************************************************************)
(* Proofs about module Mwmg, for any number of hosts and flows, any length *)
(* of the sample buffers and any interval: lines are taken in order, no    *)
(* bucket is drawn before its second is over, and every cell of a sample   *)
(* buffer has what was read for its window, second, host and level.        *)
(*                                                                         *)
(* The three parts of the invariant are inductive one by one: Lines says   *)
(* of each element what InOrder says of the sequences, Clocks adds what a  *)
(* timer waits for, and Buffers is about the layout of the sample buffers, *)
(* whether or not the windows have been read yet.                          *)
(***************************************************************************)
EXTENDS Mwmg, SequenceTheorems, TLAPS

Line == [t : Int, who : 0 .. nsys, tag : Tags, enc : {0, 1}]
Cell == Seconds \X (1 .. nsys) \X {0, 1}

\* The lines written and not read are those in the buffer and then the pipe's.
Lines ==
    /\ written \in Seq(Line) /\ buf \in Seq(Line) /\ pipe \in Seq(Line)
    /\ nread \in Nat /\ Len(written) = nread + Len(buf) + Len(pipe)
    /\ \A i \in 1 .. Len(buf) : buf[i] = written[nread + i]
    /\ \A i \in 1 .. Len(pipe) : pipe[i] = written[nread + Len(buf) + i]

\* There is at most one timer, and it waits for the end of the next bucket.
Clocks ==
    /\ now \in Nat /\ start \in Nat /\ curtime \in Nat /\ timers \subseteq Nat
    /\ done \in BOOLEAN
    /\ ~ done => timers = {} /\ curtime = 0
    /\ \A d \in timers : /\ curtime < DEFTLEN
                         /\ start + (curtime + 1) * interval <= d
                         /\ \A e \in timers : e = d
    /\ NeverAhead

\* The name window w has once the configuration has been read.
NameOf(w) == IF w < W_USER THEN BuiltIn[w + 1] ELSE w - W_USER + 1

Buffers ==
    /\ nwins \in 0 .. W_USER + NSections /\ (nwins # 0 => nwins >= W_USER)
    /\ name = [w \in Wins |-> IF w < nwins THEN NameOf(w) ELSE NoName]
    /\ samps \in [Wins -> [Cells -> Nat]]
    /\ ledger \in [Names -> [Cell -> Nat]]
    /\ wild \in BOOLEAN
    /\ ~ wild => \A w \in Wins, i \in Seconds, h \in 1 .. nsys, e \in {0, 1} :
                    samps[w][Index(i, h, e)] = ledger[NameOf(w)][<<i, h, e>>]

IInv == Lines /\ Clocks /\ Buffers

-----------------------------------------------------------------------------
(* The pipe.                                                               *)

\* Every step keeps the lines and their order.
LEMMA LinesStep == Lines /\ Clocks /\ [Next]_vars => Lines'
  <1> SUFFICES ASSUME Lines, Clocks, [Next]_vars PROVE Lines'
    OBVIOUS
  <1>0. /\ written \in Seq(Line) /\ buf \in Seq(Line) /\ pipe \in Seq(Line)
        /\ nread \in Nat /\ Len(written) = nread + Len(buf) + Len(pipe)
        /\ Len(buf) \in Nat /\ Len(pipe) \in Nat
    BY DEF Lines
  <1>1. ASSUME NEW l \in CollectorLines, Write(l) PROVE Lines'
    <2>1. l \in Line
      BY MwmgAssumption DEF CollectorLines, Line, Clocks
    <2>2. /\ pipe' = Append(pipe, l) /\ written' = Append(written, l)
          /\ UNCHANGED <<buf, nread>>
      BY <1>1 DEF Write
    <2>3. /\ written' \in Seq(Line) /\ pipe' \in Seq(Line)
          /\ Len(written') = Len(written) + 1 /\ Len(pipe') = Len(pipe) + 1
      BY <1>0, <2>1, <2>2
    <2>4. ASSUME NEW i \in 1 .. Len(buf) PROVE buf[i] = written'[nread + i]
      BY <2>2 DEF Lines
    <2>5. ASSUME NEW i \in 1 .. Len(pipe')
          PROVE  pipe'[i] = written'[nread + Len(buf) + i]
      <3> DEFINE n == Len(pipe)
                 m == nread + Len(buf)
      <3>1. n \in Nat /\ m \in Nat /\ Len(pipe') = n + 1 /\ Len(written) = m + n
        BY <1>0, <2>3
      <3>2. /\ \A k \in 1 .. n : pipe'[k] = pipe[k]
            /\ pipe'[n + 1] = l
        BY <1>0, <2>2
      <3>3. /\ \A k \in 1 .. Len(written) : written'[k] = written[k]
            /\ written'[Len(written) + 1] = l
        BY <1>0, <2>2
      <3>4. \A k \in 1 .. n : pipe[k] = written[m + k]
        BY DEF Lines
      <3> HIDE DEF n, m
      <3>5. CASE i \in 1 .. n
        <4>1. m + i \in 1 .. Len(written)
          BY <3>1, <3>5
        <4>2. pipe'[i] = written'[m + i]
          BY <3>2, <3>3, <3>4, <3>5, <4>1
        <4> QED BY <4>2 DEF m
      <3>6. CASE i = n + 1
        <4>1. m + i = Len(written) + 1
          BY <3>1, <3>6
        <4>2. pipe'[i] = written'[m + i]
          BY <3>2, <3>3, <3>6, <4>1
        <4> QED BY <4>2 DEF m
      <3>7. i \in 1 .. n \/ i = n + 1
        BY <3>1
      <3> QED BY <3>5, <3>6, <3>7
    <2>6. Len(written') = nread' + Len(buf') + Len(pipe')
      BY <1>0, <2>2, <2>3
    <2> QED BY <1>0, <2>2, <2>3, <2>4, <2>5, <2>6 DEF Lines
  <1>2. CASE readin
    <2>1. /\ Stdin # <<>> /\ buf' = Tail(Stdin) /\ nread' = nread + 1
          /\ pipe' = IF buf = <<>> THEN <<>> ELSE pipe
          /\ written' = written
      BY <1>2 DEF readin
    <2>2. Stdin \in Seq(Line)
      BY <1>0 DEF Stdin
    <2>3. /\ buf' \in Seq(Line) /\ Len(buf') = Len(Stdin) - 1
          /\ \A i \in 1 .. Len(buf') : buf'[i] = Stdin[i + 1]
      BY <2>1, <2>2, HeadTailProperties
    <2>4. pipe' \in Seq(Line) /\ Len(Stdin) + Len(pipe') = Len(buf) + Len(pipe)
      <3>1. Len(<<>>) = 0 /\ <<>> \in Seq(Line)
        OBVIOUS
      <3>2. CASE buf = <<>>
        BY <1>0, <2>1, <3>1, <3>2 DEF Stdin
      <3>3. CASE buf # <<>>
        BY <1>0, <2>1, <3>3 DEF Stdin
      <3> QED BY <3>2, <3>3
    <2>5. \A i \in 1 .. Len(Stdin) : Stdin[i] = written[nread + i]
      <3>1. CASE buf = <<>>
        <4>1. Len(buf) = 0
          BY <3>1
        <4>2. \A i \in 1 .. Len(pipe) : nread + Len(buf) + i = nread + i
          BY <1>0, <4>1
        <4> QED BY <3>1, <4>2 DEF Stdin, Lines
      <3>2. CASE buf # <<>>
        BY <3>2 DEF Stdin, Lines
      <3> QED BY <3>1, <3>2
    <2>6. \A i \in 1 .. Len(pipe') : pipe'[i] = written[nread + Len(Stdin) + i]
      BY <1>0, <2>1 DEF Stdin, Lines
    <2>7. Len(Stdin) \in Nat /\ Len(buf') \in Nat /\ Len(pipe') \in Nat
      BY <2>2, <2>3, <2>4
    <2>8. \A i \in 1 .. Len(buf') : buf'[i] = written[nread' + i]
      <3> TAKE i \in 1 .. Len(buf')
      <3>1. i + 1 \in 1 .. Len(Stdin)
        BY <2>3, <2>7
      <3>2. nread + (i + 1) = nread' + i
        BY <1>0, <2>1, <2>7
      <3> QED BY <2>3, <2>5, <3>1, <3>2
    <2>9. nread' + Len(buf') = nread + Len(Stdin) /\ nread' \in Nat
      BY <1>0, <2>1, <2>3, <2>7
    <2>10. Len(written) = nread' + Len(buf') + Len(pipe')
      <3>1. Len(written) = nread + (Len(buf) + Len(pipe)) /\ nread \in Nat
        BY <1>0
      <3>2. Len(written) = nread + (Len(Stdin) + Len(pipe'))
        BY <2>4, <3>1
      <3>3. Len(written) = (nread + Len(Stdin)) + Len(pipe')
        BY <2>7, <3>1, <3>2
      <3> QED BY <2>9, <3>3
    <2> QED BY <2>1, <2>3, <2>4, <2>6, <2>8, <2>9, <2>10 DEF Lines
  <1>3. CASE UNCHANGED <<written, pipe, buf, nread>>
    BY <1>3 DEF Lines
  <1>4. ASSUME BuiltInWindows \/ Section \/ ReadNothing \/ (\E d \in timers : update(d))
                  \/ Second \/ Close
        PROVE  UNCHANGED <<written, pipe, buf, nread>>
    BY <1>4 DEF BuiltInWindows, Section, ReadNothing, update, Second, Close, pipeVars
  <1> QED BY <1>1, <1>2, <1>3, <1>4 DEF Next, vars, pipeVars

\* What Lines says of the elements, InOrder says of the sequences.
LEMMA LinesInOrder == Lines => InOrder
  <1> SUFFICES ASSUME Lines PROVE InOrder
    OBVIOUS
  <1> DEFINE rest == SubSeq(written, nread + 1, Len(written))
             both == buf \o pipe
  <1>1. rest \in Seq(Line) /\ Len(rest) = Len(buf) + Len(pipe)
    BY DEF Lines
  <1>2. both \in Seq(Line) /\ Len(both) = Len(buf) + Len(pipe)
    BY DEF Lines
  <1>3. ASSUME NEW i \in 1 .. Len(rest) PROVE rest[i] = both[i]
    <2>1. rest[i] = written[nread + i]
      BY <1>1 DEF Lines
    <2>2. CASE i <= Len(buf)
      BY <1>1, <2>1, <2>2 DEF Lines
    <2>3. CASE i > Len(buf)
      <3> DEFINE n == Len(buf)
                 k == i - n
      <3>1. n \in Nat /\ nread \in Nat /\ buf \in Seq(Line) /\ pipe \in Seq(Line)
        BY DEF Lines
      <3>2. i \in Nat /\ k \in 1 .. Len(pipe) /\ nread + n + k = nread + i
        BY <1>1, <2>3, <3>1
      <3>3. both[i] = pipe[k]
        BY <1>1, <2>3, <3>1
      <3>4. pipe[k] = written[nread + n + k]
        BY <3>2 DEF Lines
      <3> HIDE DEF n, k
      <3> QED BY <2>1, <3>2, <3>3, <3>4
    <2> QED BY <1>1, <2>2, <2>3 DEF Lines
  <1> HIDE DEF rest, both
  <1>4. rest = both
    BY <1>1, <1>2, <1>3, SeqEqual
  <1> QED BY <1>4 DEF InOrder, rest, both


-----------------------------------------------------------------------------
(* The timer.                                                              *)

\* The end of the next bucket is an interval after the end of this one.
LEMMA NextEnd ==
    ASSUME NEW n \in Nat
    PROVE  /\ n * interval \in Nat
           /\ (n + 1) * interval = n * interval + interval
  BY MwmgAssumption

\* The first call of readin() starts the only timer.
LEMMA FirstClocks ==
    ASSUME Clocks, First, done' = TRUE, UNCHANGED <<now, curtime>>
    PROVE  Clocks'
  <1>0. DEFTLEN \in Nat \ {0} /\ interval \in Nat \ {0}
    BY MwmgAssumption
  <1>1. CASE done
    BY <1>1 DEF First, Clocks, NeverAhead
  <1>2. CASE ~ done
    <2>1. /\ start' = now /\ timers' = {now + interval} /\ curtime = 0
          /\ now \in Nat
      BY <1>2 DEF First, Clocks
    <2>2. (curtime + 1) * interval = interval /\ curtime * interval = 0
      BY <1>0, <2>1
    <2> QED BY <1>0, <2>1, <2>2 DEF Clocks, NeverAhead
  <1> QED BY <1>1, <1>2 DEF Clocks

\* Every step keeps the clocks.
LEMMA ClocksStep == Clocks /\ [Next]_vars => Clocks'
  <1> SUFFICES ASSUME Clocks, [Next]_vars PROVE Clocks'
    OBVIOUS
  <1>0. DEFTLEN \in Nat \ {0} /\ interval \in Nat \ {0}
    BY MwmgAssumption
  <1>1. CASE readin
    BY <1>1, FirstClocks DEF readin, Called
  <1>2. CASE ReadNothing
    BY <1>2, FirstClocks DEF ReadNothing
  <1>3. ASSUME NEW d \in timers, update(d) PROVE Clocks'
    <2>1. /\ d \in Nat /\ curtime \in Nat /\ start \in Nat /\ now \in Nat
          /\ curtime < DEFTLEN /\ start + (curtime + 1) * interval <= d
          /\ timers = {d} /\ done
      BY DEF Clocks
    <2>2. /\ d <= now /\ curtime' = curtime + 1
          /\ UNCHANGED <<now, start, done>>
          /\ timers' = (timers \ {d})
                         \union (IF Again(curtime + 1) THEN {now + interval} ELSE {})
      BY <1>3 DEF update
    <2>3. \/ timers' = {now + interval} /\ curtime' < DEFTLEN
          \/ timers' = {}
      BY <2>1, <2>2 DEF Again
    <2>4. curtime' \in Nat /\ curtime' <= DEFTLEN
      BY <1>0, <2>1, <2>2
    <2>5. start + curtime' * interval <= now
      <3>1. (curtime + 1) * interval \in Nat
        BY <2>1, NextEnd
      <3> QED BY <2>1, <2>2, <3>1
    <2>6. start + (curtime' + 1) * interval <= now + interval
      <3>1. /\ curtime' * interval \in Nat
            /\ (curtime' + 1) * interval = curtime' * interval + interval
        BY <2>4, NextEnd
      <3> QED BY <1>0, <2>1, <2>5, <3>1
    <2> QED BY <1>0, <2>1, <2>2, <2>3, <2>4, <2>5, <2>6 DEF Clocks, NeverAhead
  <1>4. CASE Second
    <2>1. now' = now + 1 /\ UNCHANGED <<start, done, timers, curtime>>
      BY <1>4 DEF Second
    <2>2. curtime * interval \in Nat
      BY NextEnd DEF Clocks
    <2> QED BY <2>1, <2>2 DEF Clocks, NeverAhead
  <1>5. CASE UNCHANGED <<now, start, done, timers, curtime>>
    BY <1>5 DEF Clocks, NeverAhead
  <1>6. ASSUME BuiltInWindows \/ Section \/ Close \/ \E l \in CollectorLines : Write(l)
        PROVE  UNCHANGED <<now, start, done, timers, curtime>>
    BY <1>6 DEF BuiltInWindows, Section, Close, Write
  <1> QED BY <1>1, <1>2, <1>3, <1>4, <1>5, <1>6 DEF Next, vars

-----------------------------------------------------------------------------
(* The layout of the sample buffers.                                       *)

\* A bucket has a cell for each host, and buckets do not overlap.
LEMMA Bucket ==
    ASSUME NEW i \in Nat, NEW j \in Nat, NEW h \in 1 .. nsys, i < j
    PROVE  i * nsys + h <= j * nsys
  <1>1. nsys \in Nat
    BY MwmgAssumption
  <1>2. PICK d \in Nat : j = i + 1 + d
    <2>1. j - i - 1 \in Nat /\ j = i + 1 + (j - i - 1)
      OBVIOUS
    <2> QED BY <2>1
  <1>3. j * nsys = i * nsys + nsys + d * nsys
    BY <1>1, <1>2
  <1>4. i * nsys \in Nat /\ d * nsys \in Nat
    BY <1>1
  <1> QED BY <1>1, <1>3, <1>4

\* Index() in terms of the halves of the buffer.
LEMMA IndexHalf ==
    ASSUME NEW i \in Seconds, NEW h \in 1 .. nsys, NEW e \in {0, 1}
    PROVE  /\ Index(i, h, e) = i * nsys + h - 1 + e * Half
           /\ Half \in Nat /\ i * nsys \in Nat
           /\ i * nsys + h <= Half
           /\ Index(i, h, e) \in Cells
  <1>1. nsys \in Nat \ {0} /\ DEFTLEN \in Nat \ {0} /\ i \in Nat /\ i < DEFTLEN
    BY MwmgAssumption DEF Seconds
  <1>2. Half \in Nat /\ i * nsys \in Nat
    BY <1>1 DEF Half
  <1>3. i * nsys + h <= Half
    BY <1>1, Bucket DEF Half
  <1>4. Index(i, h, e) = i * nsys + h - 1 + e * Half
    <2>1. CASE e = 0
      BY <1>1, <1>2, <2>1 DEF Index, Half
    <2>2. CASE e = 1
      BY <1>1, <1>2, <2>2 DEF Index, Half
    <2> QED BY <2>1, <2>2
  <1>5. Index(i, h, e) \in Cells
    <2>1. CASE e = 0
      BY <1>1, <1>2, <1>3, <1>4, <2>1 DEF Cells
    <2>2. CASE e = 1
      BY <1>1, <1>2, <1>3, <1>4, <2>2 DEF Cells
    <2> QED BY <2>1, <2>2
  <1> QED BY <1>2, <1>3, <1>4, <1>5

\* No two of second, host and level share a cell.
LEMMA IndexInjective ==
    ASSUME NEW i \in Seconds, NEW h \in 1 .. nsys, NEW e \in {0, 1},
           NEW j \in Seconds, NEW g \in 1 .. nsys, NEW f \in {0, 1},
           Index(i, h, e) = Index(j, g, f)
    PROVE  i = j /\ h = g /\ e = f
  <1>1. nsys \in Nat /\ i \in Nat /\ j \in Nat /\ h \in Nat /\ g \in Nat
    BY MwmgAssumption DEF Seconds
  <1>2. /\ i * nsys + h - 1 + e * Half = j * nsys + g - 1 + f * Half
        /\ Half \in Nat /\ i * nsys \in Nat /\ j * nsys \in Nat
        /\ i * nsys + h <= Half /\ j * nsys + g <= Half
    BY IndexHalf
  <1>3. e = f
    BY <1>1, <1>2
  <1>4. i * nsys + h = j * nsys + g
    BY <1>1, <1>2, <1>3
  <1>5. i = j
    <2>1. ~ (i < j)
      BY <1>1, <1>2, <1>4, Bucket
    <2>2. ~ (j < i)
      BY <1>1, <1>2, <1>4, Bucket
    <2> QED BY <1>1, <2>1, <2>2
  <1> QED BY <1>1, <1>3, <1>4, <1>5

\* Window() finds the window of a name and no other.
LEMMA WindowOfName ==
    ASSUME NEW tag \in Tags
    PROVE  /\ Window(tag) \in Wins /\ tag \in Names
           /\ \A w \in Wins : NameOf(w) = tag <=> w = Window(tag)
  <1>1. tag \in -2 .. NSections /\ NSections \in Nat
    BY MwmgAssumption DEF M
  <1>2. Window(tag) \in Wins /\ tag \in Names
    BY <1>1 DEF Window, Wins, Names, X, C, M, Time, W_OTHER, W_CPU, W_MEM, W_USER
  <1>3. ASSUME NEW w \in Wins PROVE NameOf(w) = tag <=> w = Window(tag)
    <2>1. w \in 0 .. 4 + NSections
      BY <1>1 DEF Wins, W_USER
    <2>2. CASE w = 0
      BY <1>1, <2>2
      DEF NameOf, BuiltIn, Window, X, C, M, Time, Net, W_OTHER, W_CPU, W_MEM, W_USER
    <2>3. CASE w = 1
      BY <1>1, <2>3
      DEF NameOf, BuiltIn, Window, X, C, M, Time, Net, W_OTHER, W_CPU, W_MEM, W_USER
    <2>4. CASE w = 2
      BY <1>1, <2>4
      DEF NameOf, BuiltIn, Window, X, C, M, Time, Net, W_OTHER, W_CPU, W_MEM, W_USER
    <2>5. CASE w = 3
      BY <1>1, <2>5
      DEF NameOf, BuiltIn, Window, X, C, M, Time, Net, W_OTHER, W_CPU, W_MEM, W_USER
    <2>6. CASE w = 4
      BY <1>1, <2>6
      DEF NameOf, BuiltIn, Window, X, C, M, Time, Net, W_OTHER, W_CPU, W_MEM, W_USER
    <2>7. CASE w > 4
      BY <1>1, <2>1, <2>7
      DEF NameOf, BuiltIn, Window, X, C, M, Time, Net, W_OTHER, W_CPU, W_MEM, W_USER
    <2> QED BY <2>1, <2>2, <2>3, <2>4, <2>5, <2>6, <2>7
  <1> QED BY <1>2, <1>3


\* Every window has one of the names.
LEMMA NameOfNames == \A w \in Wins : NameOf(w) \in Names
  <1> TAKE w \in Wins
  <1>1. NSections \in Nat /\ w \in 0 .. 4 + NSections
    BY MwmgAssumption DEF Wins, W_USER
  <1>2. NSections \in Nat => Names = {-4} \union (-3 .. NSections)
    BY DEF Names, Time, Net
  <1>3. w = 0 \/ w = 1 \/ w = 2 \/ w = 3 \/ w = 4 \/ w > 4
    BY <1>1
  <1> QED BY <1>1, <1>2, <1>3 DEF NameOf, BuiltIn, X, C, M, Time, Net, W_USER

\* The sample buffers and what was read, without the windows.
Ledgers ==
    /\ samps \in [Wins -> [Cells -> Nat]]
    /\ ledger \in [Names -> [Cell -> Nat]]
    /\ wild \in BOOLEAN
    /\ ~ wild => \A w \in Wins, i \in Seconds, h \in 1 .. nsys, e \in {0, 1} :
                    samps[w][Index(i, h, e)] = ledger[NameOf(w)][<<i, h, e>>]

\* readin() adds a line to the cell of its window, second, host and level, and to
\* no other.
LEMMA ChargeLedgers ==
    ASSUME Ledgers, NEW l \in Line, NEW t0 \in Nat, Charge(l, t0)
    PROVE  Ledgers'
  <1> DEFINE s == l.t - t0
             k == Index(s, l.who, l.enc)
             c == <<s, l.who, l.enc>>
             v == Window(l.tag)
  <1>0. l.t \in Int /\ l.who \in 0 .. nsys /\ l.tag \in Tags /\ l.enc \in {0, 1}
    BY DEF Line
  <1>1. CASE UNCHANGED dataVars
    BY <1>1 DEF dataVars, Ledgers
  <1>2. CASE /\ ~ (l.t < t0 \/ l.who <= 0)
             /\ samps' = IF k \in Cells THEN [samps EXCEPT ![v][k] = @ + 1] ELSE samps
             /\ wild' = (wild \/ s >= DEFTLEN)
             /\ ledger' = IF s < DEFTLEN THEN [ledger EXCEPT ![l.tag][c] = @ + 1]
                          ELSE ledger
    <2>0. nsys \in Nat /\ DEFTLEN \in Nat
      BY MwmgAssumption
    <2>1. s \in Nat /\ l.who \in 1 .. nsys
      BY <1>0, <1>2, <2>0
    <2>2. v \in Wins /\ l.tag \in Names
      BY <1>0, WindowOfName
    <2>3. samps' \in [Wins -> [Cells -> Nat]]
      <3> HIDE DEF k, v
      <3>1. CASE k \in Cells
        BY <1>2, <2>2, <3>1 DEF Ledgers
      <3>2. CASE k \notin Cells
        BY <1>2, <3>2 DEF Ledgers
      <3> QED BY <3>1, <3>2
    <2>4. s < DEFTLEN => c \in Cell
      BY <1>0, <2>0, <2>1 DEF Cell, Seconds
    <2>5. ledger' \in [Names -> [Cell -> Nat]]
      <3> HIDE DEF s, c
      <3> QED BY <1>2, <2>2, <2>4 DEF Ledgers
    <2>6. wild' \in BOOLEAN
      BY <1>2
    <2>7. ASSUME ~ wild',
                 NEW w \in Wins, NEW i \in Seconds, NEW h \in 1 .. nsys, NEW e \in {0, 1}
          PROVE  samps'[w][Index(i, h, e)] = ledger'[NameOf(w)][<<i, h, e>>]
      <3>1. ~ wild /\ s < DEFTLEN
        <4>1. ~ wild /\ ~ (s >= DEFTLEN)
          BY <1>2, <2>7, Zenon
        <4> QED BY <2>0, <2>1, <4>1
      <3>2. samps[w][Index(i, h, e)] = ledger[NameOf(w)][<<i, h, e>>]
        BY <3>1 DEF Ledgers
      <3>3. s \in Seconds
        BY <2>0, <2>1, <3>1 DEF Seconds
      <3>4. k \in Cells /\ Index(i, h, e) \in Cells
        BY <1>0, <2>1, <3>3, IndexHalf
      <3>5. /\ samps' = [samps EXCEPT ![v][k] = @ + 1]
            /\ ledger' = [ledger EXCEPT ![l.tag][c] = @ + 1]
        BY <1>2, <3>1, <3>4
      <3>6. w = v <=> NameOf(w) = l.tag
        BY <1>0, WindowOfName
      <3>7. Index(i, h, e) = k <=> <<i, h, e>> = c
        BY <1>0, <2>1, <3>3, IndexInjective
      <3>8. <<i, h, e>> \in Cell /\ c \in Cell
        BY <2>4, <3>1 DEF Cell
      <3> HIDE DEF k, v, c, s
      <3>9. CASE w = v /\ Index(i, h, e) = k
        <4>1. samps'[w][Index(i, h, e)] = samps[w][Index(i, h, e)] + 1
          BY <2>2, <3>4, <3>5, <3>9 DEF Ledgers
        <4>2. ledger'[NameOf(w)][<<i, h, e>>] = ledger[NameOf(w)][<<i, h, e>>] + 1
          <5>1. ledger'[l.tag][c] = ledger[l.tag][c] + 1
            BY <2>2, <3>5, <3>8 DEF Ledgers
          <5> QED BY <3>6, <3>7, <3>9, <5>1
        <4> QED BY <3>2, <4>1, <4>2
      <3>10. CASE ~ (w = v /\ Index(i, h, e) = k)
        <4>1. samps'[w][Index(i, h, e)] = samps[w][Index(i, h, e)]
          BY <2>2, <3>4, <3>5, <3>10 DEF Ledgers
        <4>2. ledger'[NameOf(w)][<<i, h, e>>] = ledger[NameOf(w)][<<i, h, e>>]
          <5>1. CASE NameOf(w) # l.tag
            <6>1. ledger'[NameOf(w)] = ledger[NameOf(w)]
              BY <3>5, <5>1, NameOfNames DEF Ledgers
            <6> QED BY <6>1
          <5>2. CASE NameOf(w) = l.tag /\ <<i, h, e>> # c
            <6> DEFINE b == <<i, h, e>>
            <6> HIDE DEF b
            <6>1. b # c /\ b \in Cell
              BY <3>8, <5>2 DEF b
            <6>2. ledger'[l.tag][b] = ledger[l.tag][b]
              BY <2>2, <3>5, <3>8, <6>1 DEF Ledgers
            <6> QED BY <5>2, <6>2 DEF b
          <5> QED BY <3>6, <3>7, <3>10, <5>1, <5>2
        <4> QED BY <3>2, <4>1, <4>2
      <3> QED BY <3>9, <3>10
    <2> QED BY <2>3, <2>5, <2>6, <2>7 DEF Ledgers
  <1> QED BY <1>1, <1>2 DEF Charge

\* Every step keeps the sample buffers.
LEMMA BuffersStep == Lines /\ Clocks /\ Buffers /\ [Next]_vars => Buffers'
  <1> SUFFICES ASSUME Lines, Clocks, Buffers, [Next]_vars PROVE Buffers'
    OBVIOUS
  <1>0. NSections \in Nat /\ Ledgers
    BY MwmgAssumption DEF Buffers, Ledgers
  <1>1. CASE BuiltInWindows
    <2>1. /\ nwins' = W_USER /\ UNCHANGED <<samps, ledger, wild>>
          /\ name' = [w \in Wins |-> IF w < W_USER THEN BuiltIn[w + 1] ELSE NoName]
      BY <1>1 DEF BuiltInWindows, dataVars
    <2>2. name' = [w \in Wins |-> IF w < nwins' THEN NameOf(w) ELSE NoName]
      BY <2>1 DEF NameOf
    <2>3. nwins' \in 0 .. W_USER + NSections
      BY <1>0, <2>1 DEF W_USER
    <2>4. nwins' >= W_USER
      BY <2>1 DEF W_USER
    <2> QED BY <2>1, <2>2, <2>3, <2>4 DEF Buffers
  <1>2. CASE Section /\ nwins' # nwins
    <2>1. /\ nwins \in W_USER .. W_USER + NSections - 1
          /\ nwins' = nwins + 1 /\ UNCHANGED <<samps, ledger, wild>>
          /\ name' = [name EXCEPT ![nwins] = nwins - W_USER + 1]
      BY <1>2 DEF Section, dataVars
    <2>2. name' = [w \in Wins |-> IF w < nwins' THEN NameOf(w) ELSE NoName]
      <3>1. nwins \in Wins /\ NameOf(nwins) = nwins - W_USER + 1
        BY <1>0, <2>1 DEF Wins, NameOf, W_USER
      <3>2. \A w \in Wins : w # nwins => (w < nwins' <=> w < nwins)
        BY <1>0, <2>1 DEF Wins, W_USER
      <3>3. nwins < nwins'
        BY <1>0, <2>1 DEF W_USER
      <3> QED BY <2>1, <3>1, <3>2, <3>3 DEF Buffers
    <2>3. nwins' \in 0 .. W_USER + NSections /\ nwins' >= W_USER
      BY <1>0, <2>1 DEF W_USER
    <2>4. UNCHANGED <<samps, ledger, wild>>
      BY <2>1
    <2> QED BY <2>2, <2>3, <2>4 DEF Buffers
  <1>3. CASE readin
    <2>1. /\ Stdin \in Seq(Line) /\ Stdin # <<>>
          /\ Charge(Head(Stdin), start') /\ UNCHANGED <<nwins, name>>
      BY <1>3 DEF readin, Stdin, Lines, confVars
    <2>2. Head(Stdin) \in Line
      BY <2>1
    <2>3. start' \in Nat
      BY <1>3 DEF readin, First, Clocks
    <2>4. Ledgers'
      BY <1>0, <2>1, <2>2, <2>3, ChargeLedgers
    <2> QED BY <2>1, <2>4 DEF Buffers, Ledgers
  <1>4. CASE UNCHANGED <<nwins, name, samps, ledger, wild>>
    BY <1>4 DEF Buffers
  <1>5. ASSUME \/ Section /\ nwins' = nwins
               \/ ReadNothing \/ (\E d \in timers : update(d)) \/ Second \/ Close
               \/ \E l \in CollectorLines : Write(l)
        PROVE  UNCHANGED <<nwins, name, samps, ledger, wild>>
    <2>1. Section /\ nwins' = nwins => UNCHANGED <<nwins, name, samps, ledger, wild>>
      BY <1>0 DEF Section, dataVars, W_USER
    <2> QED
      BY <1>5, <2>1 DEF ReadNothing, update, Second, Close, Write, confVars, dataVars
  <1> QED BY <1>1, <1>2, <1>3, <1>4, <1>5 DEF Next, vars, confVars, dataVars


-----------------------------------------------------------------------------
(* Theorems.                                                               *)

\* When mwmg starts, nothing has been read.
LEMMA InitIInv == Init => IInv
  <1> SUFFICES ASSUME Init PROVE IInv
    OBVIOUS
  <1>0. /\ DEFTLEN \in Nat \ {0} /\ interval \in Nat \ {0} /\ NSections \in Nat
    BY MwmgAssumption
  <1>1. Lines
    BY DEF Init, Lines
  <1>2. Clocks
    <2>1. now = 0 /\ start = 0 /\ curtime = 0 /\ timers = {} /\ done = FALSE
      BY DEF Init
    <2>2. curtime * interval = 0
      BY <1>0, <2>1
    <2>3. NeverAhead
      BY <1>0, <2>1, <2>2 DEF NeverAhead
    <2> QED BY <2>1, <2>3 DEF Clocks
  <1>3. Buffers
    <2>1. nwins = 0 /\ name = [w \in Wins |-> NoName] /\ \A w \in Wins : ~ (w < nwins)
      BY <1>0 DEF Init, Wins, W_USER
    <2>2. /\ samps = [w \in Wins |-> [k \in Cells |-> 0]] /\ wild = FALSE
          /\ ledger = [n \in Names |-> [c \in Cell |-> 0]]
      BY DEF Init, Cell
    <2>3. ASSUME NEW w \in Wins, NEW i \in Seconds, NEW h \in 1 .. nsys, NEW e \in {0, 1}
          PROVE  samps[w][Index(i, h, e)] = ledger[NameOf(w)][<<i, h, e>>]
      <3>1. Index(i, h, e) \in Cells /\ <<i, h, e>> \in Cell /\ NameOf(w) \in Names
        BY IndexHalf, NameOfNames DEF Cell
      <3> QED BY <2>2, <3>1
    <2>4. nwins \in 0 .. W_USER + NSections
      BY <1>0, <2>1 DEF W_USER
    <2> QED BY <2>1, <2>2, <2>3, <2>4 DEF Buffers
  <1> QED BY <1>1, <1>2, <1>3 DEF IInv

\* Every reachable state of mwmg satisfies the invariant.
THEOREM InductiveInvariant == Spec => []IInv
  <1>1. IInv /\ [Next]_vars => IInv'
    BY LinesStep, ClocksStep, BuffersStep DEF IInv
  <1> QED BY InitIInv, <1>1, PTL DEF Spec

\* However reads and writes of the pipe interleave, fgets() returns the lines in
\* the order the collector wrote them, and none is lost.
THEOREM InOrderAlways == Spec => []InOrder
  <1>1. IInv => InOrder
    BY LinesInOrder DEF IInv
  <1> QED BY InductiveInvariant, <1>1, PTL

\* update() counts no bucket before its second is over, however late the main loop
\* is, and none beyond the end of the sample buffers.
THEOREM NeverAheadAlways == Spec => []NeverAhead
  <1>1. IInv => NeverAhead
    BY DEF IInv, Clocks
  <1> QED BY InductiveInvariant, <1>1, PTL

\* For any number of hosts, flows and seconds, the cell that readin() computes for
\* a line is that of its window, second, host and level.
THEOREM BucketsAlways == Spec => []BucketsTrue
  <1>1. IInv => BucketsTrue
    <2> SUFFICES ASSUME IInv, Running, ~ wild, NEW w \in Wins, NEW i \in Seconds,
                        NEW h \in 1 .. nsys, NEW e \in {0, 1}
                 PROVE  samps[w][i * nsys + h - 1 + e * Half] = ledger[name[w]][<<i, h, e>>]
      BY DEF BucketsTrue
    <2>1. name[w] = NameOf(w)
      <3>1. w < nwins
        BY MwmgAssumption DEF Running, Wins, W_USER
      <3> QED BY <3>1 DEF IInv, Buffers
    <2>2. Index(i, h, e) = i * nsys + h - 1 + e * Half
      BY IndexHalf
    <2>3. samps[w][Index(i, h, e)] = ledger[NameOf(w)][<<i, h, e>>]
      BY DEF IInv, Buffers
    <2> QED BY <2>1, <2>2, <2>3
  <1> QED BY InductiveInvariant, <1>1, PTL
=============================================================================
