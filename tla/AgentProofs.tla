---------------------------- MODULE AgentProofs ----------------------------
(***************************************************************************)
(* Proofs about module Agent: for any command lines, filters, interfaces   *)
(* and patience, main() of pcapper.c closes what it has opened on every    *)
(* path to its end, and serves only with what it needs; and for any number *)
(* of processors, any counters and any lines of /proc/meminfo, what        *)
(* watchstat() reports is what the kernel counted.                         *)
(***************************************************************************)
EXTENDS Agent, Sums, TLAPS

Early == {"args", "ip", "mac", "filter"}
Late == {"bind", "acceptor", "watchstat", "loop"}

\* What main() has open at each place.
Holds ==
    /\ mpc \in Early \union {"compile", "socket"} \union Late \union {"ended"}
    /\ mpc \in Early => open = {}
    /\ mpc \in {"compile", "socket"} => open = {"capture"}
    /\ mpc \in Late => open = {"capture", "listener"}
    /\ mpc = "ended" /\ code # Crashed => open = {}

\* What the options have set: the mode is one of the four, or points to a word of
\* the command line, which does not change.
Options ==
    /\ argv \in Seq(Words) /\ argi \in Nat \ {0}
    /\ port \in PortNumbers
    /\ \/ mode \in {MODE_NONE, MODE_SRC, MODE_DST, MODE_SPOOF}
       \/ \E i \in 1 .. Len(argv) : mode = - i

\* The filter is made from the mode when the capture is opened; from then on it
\* is what the options say it may be, and compiled before main() goes on.
Filtered ==
    /\ mpc = "compile" => filter \in FilterText
    /\ mpc \in {"socket"} \union Late => filter \in FilterText \ {"invalid"}

IInv == Holds /\ Options /\ Filtered

-----------------------------------------------------------------------------
(* Facts about the model's operators.                                      *)

\* A capture without a filter is one of mode none, and a filter that fits is the
\* one asked for or does not compile.
LEMMA FilterIs ==
    ASSUME Options
    PROVE  /\ \A x \in FilterText : x = "none" <=> mode = MODE_NONE
           /\ mode < 0 /\ Intact(Exprs[argv[- mode]]) => FilterText = {"asked", "invalid"}
           /\ FilterText # {}
  <1>1. CASE mode \in {MODE_NONE, MODE_SRC, MODE_DST, MODE_SPOOF}
    BY <1>1 DEF FilterText, MODE_NONE, MODE_SRC, MODE_DST, MODE_SPOOF
  <1>2. CASE \E i \in 1 .. Len(argv) : mode = - i
    <2>1. mode < 0 /\ mode \notin {MODE_NONE, MODE_SRC, MODE_DST, MODE_SPOOF}
      BY <1>2 DEF Options, MODE_NONE, MODE_SRC, MODE_DST, MODE_SPOOF
    <2>2. FilterText = LET e == Exprs[argv[- mode]]
                       IN  IF Intact(e) THEN {"asked", "invalid"}
                           ELSE IF e.len > IFNAMSIZ - 1 THEN {"other", "invalid"}
                           ELSE {"asked", "other", "invalid"}
      BY <2>1 DEF FilterText
    <2> QED BY <2>1, <2>2
  <1> QED BY <1>1, <1>2 DEF Options

\* What each status closes.
LEMMA ReleasedIs ==
    /\ \A c \in {1, 6, 7} : Released(c) = {"capture"}
    /\ \A c \in {0, 2, 3} : Released(c) = {"capture", "listener"}
  BY DEF Released

\* A port that is not 0 is one of 16 bits.
LEMMA PortIs == \A w \in Words : PortOf(w) # 0 => PortOf(w) \in PortNumbers
  <1> DEFINE m == 65536
  <1>1. m \in Nat \ {0} /\ PortNumbers = 1 .. m - 1
    BY DEF PortNumbers
  <1>2. \A w \in Words : atoi[w] \in Int /\ PortOf(w) = atoi[w] % m
    BY StartupAssumption DEF PortOf
  <1> HIDE DEF m
  <1>3. \A x \in Int : x % m \in 0 .. m - 1
    BY <1>1
  <1>4. \A y \in 0 .. m - 1 : y # 0 => y \in PortNumbers
    BY <1>1
  <1> QED BY <1>2, <1>3, <1>4

\* The number of a mode.
LEMMA ModeIs ==
    ASSUME NEW w, NEW i \in Nat
    PROVE  ModeOf(w, i) \in {MODE_NONE, MODE_SRC, MODE_DST, MODE_SPOOF} \union {- i}
  BY DEF ModeOf

-----------------------------------------------------------------------------
(* The steps of main().                                                    *)

\* An option is read, or the command line refused.
LEMMA ReadArgsStep == ASSUME IInv, ReadArgs PROVE IInv'
  <1>1. /\ mpc = "args" /\ argv \in Seq(Words) /\ argi \in Nat \ {0} /\ UNCHANGED argv
    BY DEF ReadArgs, OptPort, OptLog, OptListen, OptMode, OptRouter, OptUnknown, ArgsDone,
           Reading, optVars, IInv, Options
  <1>2. \/ mpc' \in {"args", "ip"} /\ UNCHANGED open
        \/ mpc' = "ended" /\ open' = open \ Released(code')
    BY DEF ReadArgs, OptPort, OptLog, OptListen, OptMode, OptRouter, OptUnknown, ArgsDone,
           Used, Goto, Return
  <1>3. Holds'
    <2>1. open = {}
      BY <1>1 DEF IInv, Holds, Early
    <2> QED BY <1>2, <2>1 DEF Holds, Early, Late
  <1>4. Filtered'
    BY <1>2 DEF Filtered, Late
  <1>5. argi' \in Nat \ {0}
    <2>1. argi' \in {argi, argi + 1, argi + 2}
      BY DEF ReadArgs, OptPort, OptLog, OptListen, OptMode, OptRouter, OptUnknown, ArgsDone,
             Used
    <2> QED BY <1>1, <2>1
  <1>6. port' \in PortNumbers
    <2>1. port' = port \/ (Valued /\ PortOf(Value) # 0 /\ port' = PortOf(Value))
      BY DEF ReadArgs, OptPort, OptLog, OptListen, OptMode, OptRouter, OptUnknown, ArgsDone,
             optVars
    <2>2. Valued => Value \in Words
      BY <1>1 DEF Valued, Value
    <2>3. port \in PortNumbers
      BY DEF IInv, Options
    <2> QED BY <2>1, <2>2, <2>3, PortIs
  <1>7. \/ mode' \in {MODE_NONE, MODE_SRC, MODE_DST, MODE_SPOOF}
        \/ \E i \in 1 .. Len(argv) : mode' = - i
    <2>1. mode' = mode \/ (Valued /\ mode' = ModeOf(Value, argi + 1))
      BY DEF ReadArgs, OptPort, OptLog, OptListen, OptMode, OptRouter, OptUnknown, ArgsDone,
             optVars
    <2>2. CASE mode' = mode
      BY <2>2 DEF IInv, Options
    <2>3. CASE Valued /\ mode' = ModeOf(Value, argi + 1)
      <3>1. argi + 1 \in Nat /\ argi + 1 \in 1 .. Len(argv) /\ Len(argv) \in Nat
        BY <1>1, <2>3 DEF Valued
      <3>2. mode' \in {MODE_NONE, MODE_SRC, MODE_DST, MODE_SPOOF} \union {- (argi + 1)}
        BY <2>3, <3>1, ModeIs
      <3> QED BY <3>1, <3>2
    <2> QED BY <2>1, <2>2, <2>3
  <1>8. Options'
    BY <1>1, <1>5, <1>6, <1>7 DEF Options
  <1> QED BY <1>3, <1>4, <1>8 DEF IInv

\* The interfaces are asked.
LEMMA AwaitStep == ASSUME IInv, AwaitInterfaces PROVE IInv'
  <1>1. /\ mpc \in {"ip", "mac"} /\ UNCHANGED <<argv, argi, port, mode>>
        /\ \/ mpc' \in {"ip", "mac", "filter"} /\ UNCHANGED open
           \/ mpc' = "ended" /\ open' = open \ Released(code')
    BY DEF AwaitInterfaces, getip, gettmac, Wait, Goto, Return, optVars
  <1>2. open = {}
    BY <1>1 DEF IInv, Holds, Early
  <1>3. Holds'
    BY <1>1, <1>2 DEF Holds, Early, Late
  <1>4. Filtered'
    BY <1>1 DEF Filtered, Late
  <1> QED BY <1>1, <1>3, <1>4 DEF IInv, Options

\* The capture, the listening socket, the threads and the end.
LEMMA ServeStep == ASSUME IInv, Serve PROVE IInv'
  <1>0. Holds /\ Options /\ Filtered
    BY DEF IInv
  <1>1. UNCHANGED <<argv, argi, port, mode>>
    BY DEF Serve, optVars
  <1>2. Options'
    BY <1>0, <1>1 DEF Options
  <1>3. FilterText' = FilterText
    BY <1>1 DEF FilterText
  <1>4. CASE OpenCapture
    <2>1. open = {}
      BY <1>0, <1>4 DEF OpenCapture, Holds, Early
    <2>2. \/ mpc' = "ended" /\ open' = open \ Released(code')
          \/ /\ mpc' = "compile" /\ open' = open \union {"capture"}
             /\ filter' \in FilterText
      BY <1>4 DEF OpenCapture, Return
    <2>3. Holds' /\ Filtered'
      BY <1>3, <2>1, <2>2 DEF Holds, Filtered, Early, Late
    <2> QED BY <1>2, <2>3 DEF IInv
  <1>5. CASE SetFilter
    <2>1. open = {"capture"} /\ filter \in FilterText
      BY <1>0, <1>5 DEF SetFilter, Holds, Filtered
    <2>2. /\ UNCHANGED filter
          /\ \/ mpc' = "ended" /\ code' \in {6, 7} /\ open' = open \ Released(code')
             \/ /\ mpc' = "socket" /\ UNCHANGED open
                /\ mode = MODE_NONE \/ filter # "invalid"
      BY <1>5 DEF SetFilter, Return, Goto
    <2>3. mode = MODE_NONE => filter # "invalid"
      BY <1>0, <2>1, FilterIs
    <2>4. mpc' = "ended" => open' = {}
      BY <2>1, <2>2, ReleasedIs
    <2>5. Holds'
      BY <2>1, <2>2, <2>4 DEF Holds, Early, Late
    <2>6. Filtered'
      BY <1>3, <2>1, <2>2, <2>3 DEF Filtered, Late
    <2> QED BY <1>2, <2>5, <2>6 DEF IInv
  <1>6. CASE OpenListener /\ UNCHANGED filter
    <2>1. open = {"capture"} /\ filter \in FilterText \ {"invalid"}
      BY <1>0, <1>6 DEF OpenListener, Holds, Filtered
    <2>2. \/ mpc' = "ended" /\ code' = 1 /\ open' = open \ Released(1)
          \/ mpc' = "bind" /\ open' = open \union {"listener"}
      BY <1>6 DEF OpenListener, Return
    <2>3. Released(1) = {"capture"}
      BY ReleasedIs
    <2>4. Holds' /\ Filtered'
      BY <1>3, <1>6, <2>1, <2>2, <2>3 DEF Holds, Filtered, Early, Late
    <2> QED BY <1>2, <2>4 DEF IInv
  <1>7. CASE (Listen \/ StartThreads \/ LoopEnds) /\ UNCHANGED filter
    <2>1. open = {"capture", "listener"} /\ filter \in FilterText \ {"invalid"}
      BY <1>0, <1>7 DEF Listen, StartThreads, LoopEnds, Holds, Filtered, Late
    <2>2. \/ /\ mpc' = "ended" /\ code' \in {0, 2, 3, Crashed}
             /\ open' = open \ Released(code')
          \/ mpc' \in {"acceptor", "watchstat", "loop"} /\ UNCHANGED open
      BY <1>7 DEF Listen, StartThreads, LoopEnds, Create, Return, Goto
    <2>3. mpc' = "ended" /\ code' # Crashed => open' = {}
      BY <2>1, <2>2, ReleasedIs
    <2>4. Holds'
      BY <2>1, <2>2, <2>3 DEF Holds, Early, Late
    <2>5. Filtered'
      BY <1>3, <1>7, <2>1, <2>2 DEF Filtered, Late
    <2> QED BY <1>2, <2>4, <2>5 DEF IInv
  <1> QED BY <1>4, <1>5, <1>6, <1>7 DEF Serve

-----------------------------------------------------------------------------
(* The theorems.                                                           *)

\* The invariant of main() holds at the start.
LEMMA InitIInv == Init => IInv
  <1> SUFFICES ASSUME MainInit PROVE IInv
    BY DEF Init
  <1>1. Holds
    BY DEF MainInit, Holds, Early, Late
  <1>2. Options
    BY StartupAssumption DEF MainInit, Options, MODE_NONE, MODE_SRC, MODE_DST, MODE_SPOOF,
                             PCAPPER_PORT, PortNumbers
  <1>3. Filtered
    BY DEF MainInit, Filtered, Late
  <1> QED BY <1>1, <1>2, <1>3 DEF IInv

\* Every step keeps the invariant of main().
LEMMA NextIInv == IInv /\ [Next]_vars => IInv'
  <1> SUFFICES ASSUME IInv, [Next]_vars PROVE IInv'
    OBVIOUS
  <1>1. CASE Main
    BY <1>1, ReadArgsStep, AwaitStep, ServeStep DEF Main, MainStep
  <1>2. CASE UNCHANGED <<mpc, argv, argi, port, mode, open, code, filter>>
    BY <1>2 DEF IInv, Holds, Options, Filtered, FilterText
  <1>3. Interfaces \/ Watchstat \/ UNCHANGED vars =>
          UNCHANGED <<mpc, argv, argi, port, mode, open, code, filter>>
    BY DEF Interfaces, Readdress, Watchstat, vars, mainVars, optVars
  <1> QED BY <1>1, <1>2, <1>3 DEF Next

\* The invariant holds from the first option to the end of main().
THEOREM InductiveInvariant == Spec => []IInv
  BY InitIInv, NextIInv, PTL DEF Spec

\* main() leaves nothing open on any path to its end, and serves only with a
\* capture, a listening socket, a port and the filter it should have.
THEOREM OutcomeAlways == Spec => []Outcome
  <1>1. IInv => Outcome
    <2> SUFFICES ASSUME IInv PROVE Outcome
      OBVIOUS
    <2>1. mpc = "ended" /\ code # Crashed => open = {}
      BY DEF IInv, Holds
    <2>2. ASSUME mpc = "loop"
          PROVE  /\ open = {"capture", "listener"} /\ port \in PortNumbers
                 /\ filter = "none" <=> mode = MODE_NONE
                 /\ mode < 0 /\ Intact(Exprs[argv[- mode]]) => filter = "asked"
      <3>1. open = {"capture", "listener"} /\ port \in PortNumbers
        BY <2>2 DEF IInv, Holds, Options, Late
      <3>2. filter \in FilterText /\ filter # "invalid"
        BY <2>2 DEF IInv, Filtered, Late
      <3>3. filter = "none" <=> mode = MODE_NONE
        BY <3>2, FilterIs DEF IInv
      <3>4. mode < 0 /\ Intact(Exprs[argv[- mode]]) => filter = "asked"
        BY <3>2, FilterIs DEF IInv
      <3> QED BY <3>1, <3>3, <3>4
    <2> QED BY <2>1, <2>2 DEF Outcome
  <1> QED BY <1>1, InductiveInvariant, PTL

-----------------------------------------------------------------------------
(* What watchstat() reports of the processors.                             *)

\* Rounding before the difference is taken changes it by less than one.
LEMMA OneCounter ==
    ASSUME NEW N \in Nat \ {0}, NEW x \in Nat, NEW y \in Nat, x <= y
    PROVE  /\ y \div N - x \div N \in Nat
           /\ N * (y \div N - x \div N) <= (y - x) + (N - 1)
           /\ y - x <= N * (y \div N - x \div N) + (N - 1)
  <1> DEFINE p == x \div N
             q == y \div N
             Np == N * p
             Nq == N * q
  <1>1. p \in Nat /\ Np <= x /\ x < Np + N /\ q \in Nat /\ Nq <= y /\ y < Nq + N /\ p <= q
    BY Quotient, QuotientsInOrder
  <1> HIDE DEF p, q
  <1>2. Np \in Int /\ Nq \in Int /\ N * (q - p) = Nq - Np
    BY <1>1
  <1> DEFINE z == N * (q - p)
  <1>3. z = Nq - Np
    BY <1>2
  <1>4. z <= (y - x) + (N - 1) /\ y - x <= z + (N - 1)
    <2> HIDE DEF z, Np, Nq
    <2> QED BY <1>1, <1>2, <1>3
  <1>5. q - p \in Nat
    BY <1>1
  <1> QED BY <1>4, <1>5 DEF p, q

\* The counters that are added up are one less than there are.
LEMMA BusyIs ==
    IsFiniteSet(Busy) /\ Cardinality(Busy) = S_TOT - 1 /\ Busy \subseteq Counters /\ S_TOT \in Nat \ {0}
  <1>1. S_TOT \in Nat \ {0} /\ S_IDLE \in Counters
    BY MeasureAssumption DEF Counters
  <1>2. IsFiniteSet(Counters) /\ Cardinality(Counters) = S_TOT
    <2>1. 0 \in Int /\ S_TOT - 1 \in Int /\ ~ (0 > S_TOT - 1) /\ (S_TOT - 1) - 0 + 1 = S_TOT
      BY <1>1
    <2> QED BY <2>1, FS_Interval DEF Counters
  <1> QED BY <1>1, <1>2, FS_RemoveElement DEF Busy

\* The totals of two readings: their difference is that of the counters,
\* divided by the processors, up to less than one for each counter.
LEMMA TotalsApart ==
    ASSUME NEW k \in [Counters -> Nat], NEW m \in [Counters -> Nat],
           \A i \in Counters : k[i] <= m[i],
           NEW D, D = Total(m, NCPU) - Total(k, NCPU),
           NEW G, G = SumFunction([i \in Busy |-> m[i] - k[i]])
    PROVE  /\ D \in Nat /\ G \in Nat
           /\ NCPU * D <= G + (NCPU - 1) * (S_TOT - 1)
           /\ G <= NCPU * D + (NCPU - 1) * (S_TOT - 1)
  <1> DEFINE f == [i \in Busy |-> m[i] - k[i]]
             a == [i \in Busy |-> k[i] \div NCPU]
             b == [i \in Busy |-> m[i] \div NCPU]
             d == [i \in Busy |-> m[i] \div NCPU - k[i] \div NCPU]
             N == NCPU
             n == NCPU - 1
             one == 1
  <1>1. N \in Nat \ {0} /\ n \in Nat
    BY MeasureAssumption
  <1>2. ASSUME NEW i \in Busy
        PROVE  /\ a[i] \in Nat /\ b[i] \in Nat /\ d[i] \in Nat /\ f[i] \in Nat
               /\ d[i] = b[i] - a[i]
               /\ N * d[i] <= f[i] + n
               /\ f[i] <= N * d[i] + n
    <2>1. k[i] \in Nat /\ m[i] \in Nat /\ k[i] <= m[i]
      BY BusyIs
    <2>2. k[i] \div N \in Nat /\ m[i] \div N \in Nat
      BY <1>1, <2>1, Quotient
    <2>3. /\ m[i] \div N - k[i] \div N \in Nat
          /\ N * (m[i] \div N - k[i] \div N) <= (m[i] - k[i]) + n
          /\ m[i] - k[i] <= N * (m[i] \div N - k[i] \div N) + n
      BY <1>1, <2>1, OneCounter
    <2>4. /\ a[i] = k[i] \div N /\ b[i] = m[i] \div N
          /\ d[i] = m[i] \div N - k[i] \div N /\ f[i] = m[i] - k[i]
      OBVIOUS
    <2>5. f[i] \in Nat
      BY <2>1
    <2> HIDE DEF a, b, d, f, N, n
    <2> QED BY <2>2, <2>3, <2>4, <2>5
  <1>3. /\ Total(k, NCPU) = SumFunctionOnSet(a, Busy)
        /\ Total(m, NCPU) = SumFunctionOnSet(b, Busy)
        /\ G = SumFunctionOnSet(f, Busy)
    BY DEF Total, SumFunction
  <1> HIDE DEF a, b, d, f, N, n
  <1> DEFINE A == SumFunctionOnSet(a, Busy)
             B == SumFunctionOnSet(b, Busy)
             X == SumFunctionOnSet(d, Busy)
             C == Cardinality(Busy)
  <1>4. IsFiniteSet(Busy) /\ C = S_TOT - 1
    BY BusyIs
  <1>5. A \in Nat /\ B \in Nat /\ X \in Nat /\ G \in Nat
    BY <1>2, <1>3, <1>4, SumNat
  <1>6. B = A + X
    <2>1. \A i \in Busy : a[i] \in Int /\ d[i] \in Int /\ b[i] = a[i] + d[i]
      BY <1>2
    <2> QED BY <1>4, <2>1, SumPlus
  <1>7. D = X
    <2>1. D = B - A
      BY <1>3
    <2> HIDE DEF A, B, X
    <2> QED BY <1>5, <1>6, <2>1
  <1>8. \A i \in Busy : d[i] \in Int /\ f[i] \in Int
    BY <1>2
  <1>9. one \in Int /\ N \in Int /\ n \in Int
    BY <1>1
  <1>10. N * X <= one * G + n * C
    <2>1. \A i \in Busy : N * d[i] <= one * f[i] + n
      BY <1>2
    <2> HIDE DEF one
    <2> QED BY <1>3, <1>4, <1>8, <1>9, <2>1, SumLinear
  <1>11. one * G <= N * X + n * C
    <2>1. \A i \in Busy : one * f[i] <= N * d[i] + n
      BY <1>2
    <2> HIDE DEF one
    <2> QED BY <1>3, <1>4, <1>8, <1>9, <2>1, SumLinear
  <1>12. one * G = G
    BY <1>5
  <1>13. N * X <= G + n * C /\ G <= N * X + n * C
    BY <1>10, <1>11, <1>12
  <1> HIDE DEF X, C
  <1> QED BY <1>4, <1>5, <1>7, <1>13 DEF N, n

\* The widths are numbers.
LEMMA WidthsAre == W16 \in Nat \ {0} /\ FourGiB \in Nat
  BY SMT DEF W16, FourGiB

\* The report has 16 bits, which is enough for a difference that is not too
\* large.
LEMMA CpuIs ==
    ASSUME NEW D \in Nat, NEW G \in Nat,
           NCPU * D <= G + (NCPU - 1) * (S_TOT - 1),
           G <= NCPU * D + (NCPU - 1) * (S_TOT - 1),
           G \div NCPU < W16 - S_TOT
    PROVE  Abs((D % W16) * NCPU - G) <= (S_TOT - 1) * (NCPU - 1)
  <1> DEFINE N == NCPU
             T == S_TOT
             q == G \div N
             e == (NCPU - 1) * (S_TOT - 1)
  <1>1. /\ N \in Nat \ {0} /\ T \in Nat \ {0} /\ W16 \in Nat \ {0}
        /\ N * D <= G + e /\ G <= N * D + e
    BY MeasureAssumption, BusyIs, WidthsAre
  <1>2. q \in Nat /\ G < N * q + N /\ q < W16 - T
    BY <1>1, Quotient
  <1>3. e = (S_TOT - 1) * (NCPU - 1) /\ e = (N - 1) * (T - 1)
    BY <1>1
  <1> HIDE DEF N, T, q, e
  <1>4. e \in Nat /\ e < N * T
    <2>1. (N - 1) * (T - 1) = N * T - (N + T - 1)
      BY <1>1
    <2>2. (N - 1) * (T - 1) \in Nat
      BY <1>1
    <2> DEFINE NT == N * T
    <2>3. NT \in Int /\ e = NT - (N + T - 1) /\ e \in Nat
      BY <1>1, <1>3, <2>1, <2>2
    <2> HIDE DEF NT
    <2>4. e < NT
      BY <1>1, <2>3
    <2> QED BY <2>3, <2>4 DEF NT
  <1>5. N * D < N * W16
    <2> DEFINE u == q + 1 + T
    <2>1. u \in Nat /\ u <= W16
      BY <1>1, <1>2
    <2>2. N * u <= N * W16
      BY <1>1, <2>1, Monotone
    <2>3. N * u = N * q + N + N * T
      BY <1>1, <1>2
    <2> DEFINE x == N * D
               y == N * q
               z == N * T
               v == N * W16
               nu == N * u
    <2>4. x \in Int /\ y \in Int /\ z \in Int /\ v \in Int /\ nu \in Int
      BY <1>1, <1>2
    <2>5. x <= G + e /\ G < y + N /\ e < z /\ nu = y + N + z /\ nu <= v
      BY <1>1, <1>2, <1>4, <2>2, <2>3
    <2> HIDE DEF x, y, z, v, nu
    <2>6. x < v
      BY <1>1, <1>4, <2>4, <2>5
    <2> QED BY <2>6 DEF x, v
  <1>6. D < W16
    BY <1>1, <1>5, Cancel
  <1>7. D % W16 = D
    BY <1>1, <1>6
  <1>8. Abs(D * N - G) <= e
    <2> DEFINE x == D * N
    <2>1. x \in Int /\ x <= G + e /\ G <= x + e
      BY <1>1
    <2> HIDE DEF x
    <2>2. Abs(x - G) <= e
      BY <1>4, <2>1 DEF Abs
    <2> QED BY <2>2 DEF x
  <1> QED BY <1>3, <1>7, <1>8 DEF N

-----------------------------------------------------------------------------
(* What readmem() makes of the lines of /proc/meminfo.                     *)

Start == [rv |-> 0, done |-> FALSE]

\* The state of readmem() after the lines whose numbers are in s: the fold of
\* the model, over any set of lines.
Mem(lines, s) ==
    MapThenFoldSet(LAMBDA x, y : MemLine(y, x), Start, LAMBDA i : lines[i],
                   LAMBDA S : Max(S), s)

\* The function of the library's definition.
IsRun(lines, S, it) ==
    it = [s \in SUBSET S |->
            IF s = {} THEN Start ELSE MemLine(it[s \ {Max(s)}], lines[Max(s)])]

\* readmem() is the run over all lines.
LEMMA ReadmemIs ==
    ASSUME NEW lines
    PROVE  readmem(lines) = Mem(lines, DOMAIN lines).rv
  BY DEF readmem, Mem, FoldLeft, Start

\* There is one such function, so its value at S is the state.
LEMMA MemIsRun ==
    ASSUME NEW lines, NEW S, NEW it, IsRun(lines, S, it),
           \A jt : IsRun(lines, S, jt) => jt = it
    PROVE  Mem(lines, S) = it[S]
  BY DEF Mem, MapThenFoldSet, IsRun

\* The last line of a set of lines.
LEMMA LastIn ==
    ASSUME NEW S, IsFiniteSet(S), S \subseteq Nat, S # {}
    PROVE  Max(S) \in S /\ \A x \in S : x <= Max(S)
  <1> DEFINE Q == {T \in SUBSET S : T = {} \/ \E x \in T : \A y \in T : y <= x}
  <1>1. {} \in Q
    OBVIOUS
  <1>2. ASSUME NEW T \in SUBSET S, NEW a \in S \ T, T \in Q PROVE T \union {a} \in Q
    <2>1. CASE T = {}
      <3>1. a <= a
        OBVIOUS
      <3> QED BY <2>1, <3>1
    <2>2. CASE T # {}
      <3>1. PICK x \in T : \A y \in T : y <= x
        BY <1>2, <2>2
      <3>2. CASE a <= x
        BY <3>1, <3>2
      <3>3. CASE ~ (a <= x)
        <4>1. \A y \in T \union {a} : y <= a
          BY <3>1, <3>3
        <4> QED BY <4>1
      <3> QED BY <3>2, <3>3
    <2> QED BY <2>1, <2>2
  <1>3. S \in Q
    <2> HIDE DEF Q
    <2> QED BY <1>1, <1>2, AddInduction
  <1>4. PICK x \in S : \A y \in S : x >= y
    BY <1>3
  <1>5. Max(S) \in S /\ \A y \in S : Max(S) >= y
    BY <1>4 DEF Max
  <1> QED BY <1>5

\* Two such functions have the same value at every set of lines.
LEMMA RunUnique ==
    ASSUME NEW lines, NEW S, IsFiniteSet(S), S \subseteq Nat,
           NEW it, IsRun(lines, S, it), NEW jt, IsRun(lines, S, jt)
    PROVE  jt = it
  <1> DEFINE Q == {s \in SUBSET S : jt[s] = it[s]}
  <1>1. ASSUME NEW s \in SUBSET S PROVE s \in Q
    <2>1. ASSUME NEW T \in SUBSET s, \A U \in SUBSET T : U # T => U \in Q
          PROVE  T \in Q
      <3>1. T \in SUBSET S /\ IsFiniteSet(T) /\ T \subseteq Nat
        BY FS_Subset
      <3>2. CASE T = {}
        BY <3>1, <3>2 DEF IsRun
      <3>3. CASE T # {}
        <4>1. T \ {Max(T)} \in SUBSET T /\ T \ {Max(T)} # T
          BY <3>1, <3>3, LastIn
        <4>2. it[T \ {Max(T)}] = jt[T \ {Max(T)}]
          BY <4>1, <2>1
        <4> QED BY <3>1, <3>3, <4>2 DEF IsRun
      <3> QED BY <3>2, <3>3
    <2>2. IsFiniteSet(s)
      BY FS_Subset
    <2> HIDE DEF Q
    <2> QED BY <2>1, <2>2, SubsetInduction
  <1> QED BY <1>1 DEF IsRun

\* The state after a set of lines is what the last one makes of the state after
\* the others.
LEMMA MemEquation ==
    ASSUME NEW lines, NEW S, IsFiniteSet(S), S \subseteq Nat
    PROVE  Mem(lines, S) =
             IF S = {} THEN Start ELSE MemLine(Mem(lines, S \ {Max(S)}), lines[Max(S)])
  <1> DEFINE M(s) == Mem(lines, s)
             Step(s) == IF s = {} THEN Start ELSE MemLine(M(s \ {Max(s)}), lines[Max(s)])
             Q == {s \in SUBSET S : M(s) = Step(s)}
  <1>1. ASSUME NEW T \in SUBSET S, \A U \in SUBSET T : U # T => U \in Q
        PROVE  T \in Q
    <2> DEFINE it == [s \in SUBSET T |-> Step(s)]
    <2>1. IsFiniteSet(T) /\ T \subseteq Nat
      BY FS_Subset
    <2>2. IsRun(lines, T, it)
      <3>1. ASSUME NEW s \in SUBSET T, s # {}
            PROVE  it[s \ {Max(s)}] = M(s \ {Max(s)})
        <4> DEFINE u == s \ {Max(s)}
        <4>1. Max(s) \in s
          BY <2>1, <3>1, FS_Subset, LastIn
        <4>2. u \in SUBSET T /\ u # T
          BY <4>1
        <4>3. M(u) = Step(u)
          BY <4>2, <1>1
        <4>4. it[u] = Step(u)
          <5> HIDE DEF u, Step
          <5> QED BY <4>2
        <4> HIDE DEF M, Step, u, it
        <4> QED BY <4>3, <4>4 DEF u
      <3>2. \A s \in SUBSET T :
              Step(s) = IF s = {} THEN Start ELSE MemLine(it[s \ {Max(s)}], lines[Max(s)])
        <4> HIDE DEF it, M
        <4> QED BY <3>1
      <3>3. it = [s \in SUBSET T |->
                    IF s = {} THEN Start ELSE MemLine(it[s \ {Max(s)}], lines[Max(s)])]
        <4> HIDE DEF Step
        <4> QED BY <3>2
      <3> HIDE DEF it
      <3> QED BY <3>3 DEF IsRun
    <2>3. M(T) = it[T]
      <3> HIDE DEF it
      <3> QED BY <2>1, <2>2, MemIsRun, RunUnique
    <2>4. it[T] = Step(T)
      <3> HIDE DEF Step
      <3> QED OBVIOUS
    <2> HIDE DEF M, Step, it
    <2> QED BY <2>3, <2>4
  <1>2. S \in Q
    <2> HIDE DEF Q
    <2> QED BY <1>1, SubsetInduction
  <1> QED BY <1>2

\* The lines that are subtracted, up to line n.
Others(m) == {j \in DOMAIN m : m[j].tag = "other"}
FreeLines(m, n) == {i \in 2 .. n : \A j \in Others(m) : i < j}
Kb(m) == [i \in DOMAIN m |-> m[i].kb]

\* What readmem() has after n lines.
After(m, n) ==
    LET a == Mem(m, 1 .. n)
        total == m[1].kb
    IN  /\ a \in [rv : Int, done : BOOLEAN]
        /\ a.done <=> (total = 0 \/ \E j \in Others(m) : j <= n)
        /\ a.rv = IF total = 0 THEN 0
                  ELSE (total - SumFunctionOnSet(Kb(m), FreeLines(m, n))) % W24

MemTags == {"MemTotal", "MemFree", "Buffers", "Cached", "SwapCached", "other"}

\* One more line.
LEMMA MemNext ==
    ASSUME NEW m, NEW n \in Nat
    PROVE  Mem(m, 1 .. n + 1) = MemLine(Mem(m, 1 .. n), m[n + 1])
  <1> DEFINE S == 1 .. n + 1
  <1>1. IsFiniteSet(S) /\ S \subseteq Nat /\ n + 1 \in S /\ \A x \in S : x <= n + 1
    BY FS_Interval
  <1>2. S \ {n + 1} = 1 .. n
    OBVIOUS
  <1> HIDE DEF S
  <1>3. Max(S) \in S /\ \A x \in S : x <= Max(S)
    BY <1>1, LastIn
  <1>4. Max(S) = n + 1
    <2> DEFINE x == Max(S)
    <2>1. x \in Nat /\ x <= n + 1 /\ n + 1 <= x
      BY <1>1, <1>3
    <2> HIDE DEF x
    <2>2. x = n + 1
      BY <2>1
    <2> QED BY <2>2 DEF x
  <1>5. Mem(m, S) = MemLine(Mem(m, S \ {Max(S)}), m[Max(S)])
    BY <1>1, MemEquation
  <1> QED BY <1>2, <1>4, <1>5 DEF S

\* A line has a tag and a number.
LEMMA LinesAre ==
    ASSUME NEW m \in Seq([tag : MemTags, kb : Nat]), NEW i \in DOMAIN m
    PROVE  m[i].tag \in MemTags /\ m[i].kb \in Nat
  <1> DEFINE L == [tag : MemTags, kb : Nat]
  <1>1. m \in Seq(L)
    OBVIOUS
  <1>2. m[i] \in L
    <2> HIDE DEF L
    <2> QED BY <1>1
  <1> QED BY <1>2

\* What is known after the first line.
LEMMA AfterOne ==
    ASSUME NEW m \in Seq([tag : MemTags, kb : Nat]), Proper(m)
    PROVE  After(m, 1)
  <1>1. Len(m) \in Nat /\ DOMAIN m = 1 .. Len(m) /\ Len(m) >= 1 /\ 1 \in DOMAIN m
    BY DEF Proper
  <1>2. m[1].tag = "MemTotal" /\ m[1].kb \in Nat /\ 1 \notin Others(m)
    <2>1. m[1].tag = "MemTotal" /\ m[1].tag # "other"
      BY DEF Proper
    <2>2. m[1].kb \in Nat
      BY <1>1, LinesAre
    <2> QED BY <2>1, <2>2 DEF Others
  <1>3. Mem(m, 1 .. 0) = Start
    <2>1. 1 .. 0 = {}
      OBVIOUS
    <2> QED BY <2>1, MemEquation, FS_EmptySet
  <1>4. Mem(m, 1 .. 1) = [rv |-> m[1].kb % W24, done |-> m[1].kb = 0]
    <2>1. Mem(m, 1 .. 0 + 1) = MemLine(Mem(m, 1 .. 0), m[0 + 1])
      BY MemNext
    <2>2. 0 + 1 = 1
      OBVIOUS
    <2> QED BY <1>2, <1>3, <2>1, <2>2 DEF MemLine, Start
  <1>5. ~ \E j \in Others(m) : j <= 1
    BY <1>1, <1>2 DEF Others
  <1>6. SumFunctionOnSet(Kb(m), FreeLines(m, 1)) = 0
    <2>1. FreeLines(m, 1) = {}
      BY DEF FreeLines
    <2> QED BY <2>1, SumEmpty
  <1> DEFINE t == m[1].kb
  <1>7. t \in Nat /\ t % W24 \in Int /\ t - 0 = t /\ (t = 0 => t % W24 = 0)
    BY <1>2 DEF W24
  <1> DEFINE v == m[1].kb % W24
             d == m[1].kb = 0
             a == Mem(m, 1 .. 1)
  <1>8. v \in Int /\ d \in BOOLEAN /\ a = [rv |-> v, done |-> d]
    BY <1>4, <1>7
  <1>9. a \in [rv : Int, done : BOOLEAN] /\ a.rv = v /\ a.done = d
    <2> HIDE DEF v, d, a
    <2> QED BY <1>8
  <1>10. a.done <=> (t = 0 \/ \E j \in Others(m) : j <= 1)
    <2> HIDE DEF a
    <2> QED BY <1>5, <1>9
  <1>11. a.rv = IF t = 0 THEN 0
                ELSE (t - SumFunctionOnSet(Kb(m), FreeLines(m, 1))) % W24
    <2> HIDE DEF a
    <2>1. a.rv = t % W24
      BY <1>9
    <2> HIDE DEF t
    <2> QED BY <1>6, <1>7, <2>1
  <1> QED BY <1>9, <1>10, <1>11 DEF After

\* What is known after a line, from the line before.
LEMMA AfterNext ==
    ASSUME NEW m \in Seq([tag : MemTags, kb : Nat]), Proper(m),
           NEW n \in Nat \ {0}, n + 1 <= Len(m), After(m, n)
    PROVE  After(m, n + 1)
  <1> DEFINE a == Mem(m, 1 .. n)
             b == Mem(m, 1 .. n + 1)
             t == m[1].kb
             k == m[n + 1].kb
             H == FreeLines(m, n)
             X == SumFunctionOnSet(Kb(m), H)
  <1>1. /\ Len(m) \in Nat /\ DOMAIN m = 1 .. Len(m)
        /\ n + 1 \in DOMAIN m /\ n + 1 \in 2 .. Len(m) /\ 1 \in DOMAIN m
    OBVIOUS
  <1>2. /\ m[n + 1].tag \in MemTags \ {"MemTotal"} /\ k \in Nat /\ t \in Nat
        /\ Others(m) \subseteq 1 .. Len(m)
        /\ (m[n + 1].tag = "other" <=> n + 1 \in Others(m))
    <2>1. m[n + 1].tag \in MemTags /\ k \in Nat /\ t \in Nat
      BY <1>1, LinesAre
    <2>2. m[n + 1].tag # "MemTotal"
      BY <1>1 DEF Proper
    <2>3. Others(m) \subseteq 1 .. Len(m)
      BY <1>1 DEF Others
    <2>4. m[n + 1].tag = "other" <=> n + 1 \in Others(m)
      BY <1>1 DEF Others
    <2> QED BY <2>1, <2>2, <2>3, <2>4
  <1>3. b = MemLine(a, m[n + 1])
    BY MemNext
  <1>4. /\ a \in [rv : Int, done : BOOLEAN]
        /\ a.done <=> (t = 0 \/ \E j \in Others(m) : j <= n)
        /\ a.rv = IF t = 0 THEN 0 ELSE (t - X) % W24
    BY DEF After
  <1>5. (\E j \in Others(m) : j <= n + 1) <=> (n + 1 \in Others(m) \/ \E j \in Others(m) : j <= n)
    BY <1>1, <1>2
  <1>6. (\E j \in Others(m) : j <= n + 1) => FreeLines(m, n + 1) = H
    BY <1>1, <1>2 DEF FreeLines
  <1>7. (~ \E j \in Others(m) : j <= n + 1) => FreeLines(m, n + 1) = H \union {n + 1}
    BY <1>1, <1>2 DEF FreeLines
  <1>8. /\ X \in Int
        /\ SumFunctionOnSet(Kb(m), H \union {n + 1}) = k + X
    <2> DEFINE D == DOMAIN m
               f == Kb(m)
    <2>1. IsFiniteSet(D) /\ H \subseteq D /\ n + 1 \in D \ H
      <3>1. IsFiniteSet(D)
        BY <1>1, FS_Interval
      <3>2. H \subseteq D /\ n + 1 \notin H
        BY <1>1 DEF FreeLines
      <3> QED BY <1>1, <3>1, <3>2
    <2>2. \A i \in D : f[i] \in Int
      <3>1. \A i \in D : f[i] = m[i].kb
        BY DEF Kb
      <3>2. \A i \in D : m[i].kb \in Nat
        BY LinesAre
      <3> QED BY <3>1, <3>2
    <2>3. f[n + 1] = k
      BY <1>1 DEF Kb
    <2> HIDE DEF D, f, H
    <2>4. IsFiniteSet(H)
      BY <2>1, FS_Subset
    <2>5. X = SumFunctionOnSet(f, H)
      BY DEF f
    <2> HIDE DEF X, k
    <2>6. \A i \in H : f[i] \in Int
      BY <2>1, <2>2
    <2>7. SumFunctionOnSet(f, H) \in Int
      BY <2>4, <2>6, SumInt
    <2>8. H \in SUBSET D /\ n + 1 \in D \ H
      BY <2>1
    <2>9. SumFunctionOnSet(f, H \union {n + 1}) = f[n + 1] + SumFunctionOnSet(f, H)
      BY <2>1, <2>2, <2>8, SumAdd
    <2> QED BY <2>3, <2>5, <2>7, <2>9 DEF f
  <1> HIDE DEF a, b, t, k, H, X
  <1>9. SUFFICES /\ b \in [rv : Int, done : BOOLEAN]
                 /\ b.done <=> (t = 0 \/ \E j \in Others(m) : j <= n + 1)
                 /\ b.rv = IF t = 0 THEN 0
                           ELSE (t - SumFunctionOnSet(Kb(m), FreeLines(m, n + 1))) % W24
    BY DEF After, b, t
  <1>10. CASE a.done
    <2>1. b = a
      BY <1>3, <1>10 DEF MemLine
    <2>2. t # 0 => FreeLines(m, n + 1) = H
      BY <1>4, <1>5, <1>6, <1>10
    <2> QED BY <1>4, <1>5, <1>10, <2>1, <2>2 DEF X
  <1>11. CASE ~ a.done /\ m[n + 1].tag = "other"
    <2>1. b = [a EXCEPT !.done = TRUE]
      BY <1>3, <1>11 DEF MemLine
    <2>2. b \in [rv : Int, done : BOOLEAN] /\ b.done /\ b.rv = a.rv
      BY <1>4, <2>1
    <2>3. FreeLines(m, n + 1) = H /\ \E j \in Others(m) : j <= n + 1
      BY <1>2, <1>5, <1>6, <1>11
    <2> QED BY <1>4, <2>2, <2>3 DEF X
  <1>12. CASE ~ a.done /\ m[n + 1].tag # "other"
    <2>1. b = [a EXCEPT !.rv = (@ - k) % W24]
      BY <1>2, <1>3, <1>12 DEF MemLine, k
    <2>2. b \in [rv : Int, done : BOOLEAN] /\ ~ b.done /\ b.rv = (a.rv - k) % W24
      <3>1. (a.rv - k) % W24 \in Int
        BY <1>2, <1>4 DEF W24
      <3> QED BY <1>4, <1>12, <2>1, <3>1
    <2>3. t # 0 /\ ~ \E j \in Others(m) : j <= n + 1
      BY <1>2, <1>4, <1>5, <1>12
    <2>4. SumFunctionOnSet(Kb(m), FreeLines(m, n + 1)) = k + X
      BY <1>7, <1>8, <2>3
    <2>5. b.rv = (t - (k + X)) % W24
      <3>1. b.rv = (((t - X) % W24) - k) % W24
        BY <1>4, <2>2, <2>3
      <3>2. (((t - X) % W24) - k) % W24 = ((t - X) - k) % W24
        BY <1>2, <1>8 DEF W24
      <3>3. (t - X) - k = t - (k + X)
        BY <1>2, <1>8
      <3> QED BY <3>1, <3>2, <3>3
    <2> QED BY <2>2, <2>3, <2>4, <2>5
  <1> QED BY <1>10, <1>11, <1>12

\* None of the conversions of the report loses a bit of less than 4 GiB.
LEMMA MemBits ==
    ASSUME NEW u \in Nat, u < FourGiB
    PROVE  PrintedMem(((u % W24) \div 256) % W16) = u \div 256
  BY SMT DEF PrintedMem, W16, W24, FourGiB

\* What is printed of the memory is what is in use.
LEMMA MemIs ==
    ASSUME NEW m \in Seq([tag : MemTags, kb : Nat]), Proper(m),
           InUse(m) \in 0 .. FourGiB - 1
    PROVE  PrintedMem((readmem(m) \div 256) % W16) = InUse(m) \div 256
  <1> DEFINE Q == {n \in Nat : n + 1 <= Len(m) => After(m, n + 1)}
             l == Len(m)
             t == m[1].kb
             X == SumFunctionOnSet(Kb(m), FreeLines(m, l))
  <1>1. l \in Nat \ {0} /\ DOMAIN m = 1 .. l /\ t \in Nat
    <2>1. l \in Nat \ {0} /\ DOMAIN m = 1 .. l
      BY DEF Proper
    <2>2. 1 \in DOMAIN m
      BY <2>1
    <2> QED BY <2>1, <2>2, LinesAre
  <1>2. 0 \in Q
    <2>1. 0 + 1 = 1
      OBVIOUS
    <2> QED BY <2>1, AfterOne
  <1>3. ASSUME NEW n \in Nat, n \in Q PROVE n + 1 \in Q
    <2> DEFINE j == n + 1
    <2> SUFFICES ASSUME j + 1 <= Len(m) PROVE After(m, j + 1)
      OBVIOUS
    <2>1. j \in Nat \ {0} /\ j <= Len(m)
      BY <1>1
    <2>2. After(m, j)
      BY <1>3, <2>1
    <2> HIDE DEF j
    <2> QED BY <2>1, <2>2, AfterNext
  <1>4. After(m, l)
    <2>1. Nat \subseteq Q
      <3> HIDE DEF Q
      <3> QED BY <1>2, <1>3, NumberInduction
    <2>2. l - 1 \in Nat /\ (l - 1) + 1 = l /\ l <= Len(m)
      BY <1>1
    <2>3. l - 1 \in Q
      BY <2>1, <2>2
    <2> QED BY <2>2, <2>3
  <1>5. readmem(m) = IF t = 0 THEN 0 ELSE (t - X) % W24
    <2>1. readmem(m) = Mem(m, 1 .. l).rv
      BY <1>1, ReadmemIs
    <2> QED BY <1>4, <2>1 DEF After
  <1>6. InUse(m) = t - X /\ X \in Nat
    <2> DEFINE D == FreeLines(m, l)
               f == Kb(m)
               g == [i \in D |-> m[i].kb]
    <2>1. InUse(m) = t - SumFunctionOnSet(g, D)
      BY DEF InUse, FreeLines, Others, SumFunction
    <2>2. IsFiniteSet(D) /\ D \subseteq DOMAIN m
      <3>1. D \subseteq DOMAIN m
        BY <1>1 DEF FreeLines
      <3>2. IsFiniteSet(DOMAIN m)
        BY <1>1, FS_Interval
      <3> QED BY <3>1, <3>2, FS_Subset
    <2>3. \A i \in D : f[i] \in Nat /\ g[i] = f[i]
      BY <2>2, LinesAre DEF Kb
    <2> HIDE DEF D, f, g
    <2>4. SumFunctionOnSet(g, D) = SumFunctionOnSet(f, D) /\ SumFunctionOnSet(f, D) \in Nat
      BY <2>2, <2>3, SumSame, SumNat
    <2> QED BY <2>1, <2>4 DEF D, f
  <1> DEFINE u == InUse(m)
             x == readmem(m)
  <1> HIDE DEF t, X
  <1>7. x = u % W24
    <2>1. CASE t = 0
      <3>1. u = 0 /\ 0 % W24 = 0
        BY <1>6, <2>1 DEF W24
      <3> QED BY <1>5, <2>1, <3>1
    <2>2. CASE t # 0
      BY <1>5, <1>6, <2>2
    <2> QED BY <2>1, <2>2
  <1>8. u \in Nat /\ u < FourGiB
    BY WidthsAre
  <1> HIDE DEF u, x
  <1>9. PrintedMem((x \div 256) % W16) = u \div 256
    BY <1>7, <1>8, MemBits
  <1> QED BY <1>9 DEF u, x

-----------------------------------------------------------------------------
(* The reports.                                                            *)

CpuTrue ==
    delta \div NCPU < W16 - S_TOT => Abs(cpu * NCPU - delta) <= (S_TOT - 1) * (NCPU - 1)

\* What watchstat() has: after a read that went well orig is the total of the
\* counters, and the reports are those of the last round.
Reported ==
    /\ stat \in [Counters -> Nat]
    /\ rounds \in Nat /\ (spc = "start" => rounds = 0)
    /\ reads \in Nat
    /\ reads > 0 => orig = Total(stat, NCPU)
    /\ rounds > 0 /\ reads >= 2 => CpuTrue
    /\ rounds > 0 => meminfo \in Meminfos /\ mem = (readmem(meminfo) \div 256) % W16

\* The invariant of watchstat() holds at the start.
LEMMA InitReported == StatInit => Reported
  <1> SUFFICES ASSUME StatInit PROVE Reported
    OBVIOUS
  <1>1. stat \in [Counters -> Nat]
    BY DEF StatInit, Zero
  <1>2. rounds = 0 /\ reads = 0
    BY DEF StatInit
  <1>3. ~ (reads > 0) /\ reads \in Nat /\ ~ (rounds > 0) /\ rounds \in Nat
    BY <1>2
  <1> QED BY <1>1, <1>2, <1>3 DEF Reported

\* A read that goes well has the kernel's counters.
LEMMA ReadIs ==
    ASSUME NEW k, NEW d, NEW r \in readstat(k, d)
    PROVE  IF r.rv >= 1 THEN r.rv = NCPU /\ r.d = k ELSE r.rv = -1
  <1>1. NCPU \in Nat \ {0}
    BY MeasureAssumption
  <1>2. CASE r = [rv |-> NCPU, d |-> k]
    BY <1>1, <1>2
  <1>3. CASE \E n \in Counters :
               r = [rv |-> -1, d |-> [i \in Counters |-> IF i < n THEN k[i] ELSE d[i]]]
    <2>1. r.rv = -1
      BY <1>3
    <2> QED BY <2>1
  <1> QED BY <1>2, <1>3 DEF readstat

\* The first read keeps it.
LEMMA FirstReported == Reported /\ FirstRead => Reported'
  <1> SUFFICES ASSUME Reported, FirstRead PROVE Reported'
    OBVIOUS
  <1>1. rounds = 0 /\ UNCHANGED <<stat, cpu, mem, rounds, delta, meminfo>>
    BY DEF Reported, FirstRead
  <1>2. PICK r \in readstat(stat, Zero) :
          IF r.rv < 1 THEN spc' = "ended" /\ UNCHANGED <<orig, reads>>
          ELSE spc' = "loop" /\ orig' = Total(r.d, r.rv) /\ reads' = 1
    BY DEF FirstRead
  <1>3. CASE UNCHANGED <<orig, reads>> /\ spc' = "ended"
    <2>1. Total(stat, NCPU)' = Total(stat, NCPU)
      BY <1>1 DEF Total
    <2> QED BY <1>1, <1>3, <2>1 DEF Reported
  <1>4. CASE orig' = Total(stat, NCPU) /\ reads' = 1 /\ spc' = "loop"
    <2>1. orig' = Total(stat, NCPU)'
      BY <1>1, <1>4 DEF Total
    <2>2. reads' \in Nat /\ ~ (reads' >= 2)
      BY <1>4
    <2>3. ~ (rounds' > 0)
      BY <1>1
    <2> QED BY <1>1, <1>4, <2>1, <2>2, <2>3 DEF Reported
  <1>5. r.rv < 1 \/ (r.rv = NCPU /\ r.d = stat)
    BY ReadIs
  <1>6. NCPU \in Nat \ {0}
    BY MeasureAssumption
  <1> QED BY <1>2, <1>3, <1>4, <1>5, <1>6

\* A round keeps it, whether its read fails or not.
LEMMA RoundReported == Reported /\ Round => Reported'
  <1> SUFFICES ASSUME Reported, Round PROVE Reported'
    OBVIOUS
  <1>1. PICK g \in [Counters -> Growth] : stat' = [i \in Counters |-> stat[i] + g[i]]
    BY DEF Round
  <1>2. /\ stat \in [Counters -> Nat] /\ stat' \in [Counters -> Nat]
        /\ \A i \in Counters : stat[i] <= stat'[i]
    <2>1. stat \in [Counters -> Nat] /\ Growth \subseteq Nat
      BY MeasureAssumption DEF Reported
    <2>2. \A i \in Counters : g[i] \in Nat
      BY <2>1
    <2> QED BY <1>1, <2>1, <2>2
  <1>3. PICK r \in readstat(stat', data) :
          LET tot == Total(r.d, IF r.rv < 1 THEN 1 ELSE r.rv)
          IN  /\ cpu' = (tot - orig) % W16
              /\ orig' = NextOrig(tot)
              /\ reads' = IF r.rv < 1 THEN 0 ELSE reads + 1
    BY DEF Round
  <1>4. /\ spc = "loop" /\ spc' = spc /\ rounds' = rounds + 1 /\ rounds \in Nat
        /\ meminfo' \in Meminfos
        /\ mem' = (readmem(meminfo') \div 256) % W16
        /\ delta' = SumFunction([i \in Busy |-> stat'[i] - stat[i]])
    BY DEF Round, Reported
  <1>5. reads' \in Nat /\ reads \in Nat /\ (reads' > 0 => r.rv >= 1 /\ reads' = reads + 1)
    <2>1. reads \in Nat /\ reads' = IF r.rv < 1 THEN 0 ELSE reads + 1
      BY <1>3 DEF Reported
    <2>2. r.rv \in Int
      BY ReadIs, MeasureAssumption
    <2> QED BY <2>1, <2>2
  <1>6. ASSUME r.rv >= 1
        PROVE  /\ cpu' = (Total(stat', NCPU) - orig) % W16
               /\ orig' = Total(stat', NCPU)
    <2>1. r.rv = NCPU /\ r.d = stat' /\ ~ (r.rv < 1)
      BY <1>6, ReadIs, MeasureAssumption
    <2> QED BY <1>3, <2>1 DEF NextOrig
  <1>7. reads' > 0 => orig' = Total(stat, NCPU)'
    <2>1. Total(stat, NCPU)' = Total(stat', NCPU)
      BY DEF Total
    <2> QED BY <1>5, <1>6, <2>1
  <1>8. ASSUME reads' >= 2 PROVE CpuTrue'
    <2>1. reads > 0 /\ r.rv >= 1
      BY <1>5, <1>8
    <2>2. orig = Total(stat, NCPU)
      BY <2>1 DEF Reported
    <2> DEFINE D == Total(stat', NCPU) - Total(stat, NCPU)
               G == SumFunction([i \in Busy |-> stat'[i] - stat[i]])
    <2>3. /\ D \in Nat /\ G \in Nat
          /\ NCPU * D <= G + (NCPU - 1) * (S_TOT - 1)
          /\ G <= NCPU * D + (NCPU - 1) * (S_TOT - 1)
      BY <1>2, TotalsApart
    <2>4. cpu' = D % W16 /\ delta' = G
      BY <1>4, <1>6, <2>1, <2>2
    <2> HIDE DEF D, G
    <2>5. G \div NCPU < W16 - S_TOT =>
            Abs((D % W16) * NCPU - G) <= (S_TOT - 1) * (NCPU - 1)
      BY <2>3, CpuIs
    <2> QED BY <2>4, <2>5 DEF CpuTrue
  <1>9. readmem(meminfo)' = readmem(meminfo')
    OBVIOUS
  <1>10. rounds' \in Nat /\ spc' # "start"
    BY <1>4
  <1> QED BY <1>2, <1>4, <1>5, <1>7, <1>8, <1>9, <1>10 DEF Reported

\* The reports stay as they are when watchstat() makes no step.
LEMMA ReportedStep == Reported /\ [Next]_vars => Reported'
  <1> SUFFICES ASSUME Reported, [Next]_vars PROVE Reported'
    OBVIOUS
  <1>1. CASE Watchstat
    BY <1>1, FirstReported, RoundReported DEF Watchstat, StatStep
  <1>2. CASE UNCHANGED statVars
    <2>1. UNCHANGED <<spc, stat, orig, cpu, mem, rounds, reads, delta, meminfo>>
      BY <1>2 DEF statVars
    <2>2. Total(stat, NCPU)' = Total(stat, NCPU)
      BY <2>1 DEF Total
    <2>3. readmem(meminfo)' = readmem(meminfo)
      BY <2>1
    <2>4. CpuTrue' <=> CpuTrue
      BY <2>1 DEF CpuTrue
    <2> QED BY <2>1, <2>2, <2>3, <2>4 DEF Reported
  <1> QED BY <1>1, <1>2 DEF Next, Main, Interfaces, vars

\* The reports, from the invariant.
LEMMA ReportsHold == Reported => ReportsTrue
  <1> SUFFICES ASSUME Reported, rounds > 0
               PROVE  /\ reads >= 2 => CpuTrue
                      /\ Proper(meminfo) /\ InUse(meminfo) \in 0 .. FourGiB - 1 =>
                           PrintedMem(mem) = InUse(meminfo) \div 256
    BY DEF ReportsTrue, CpuTrue
  <1>1. meminfo \in Seq([tag : MemTags, kb : Nat])
    BY MeasureAssumption DEF Reported, MemTags
  <1>2. mem = (readmem(meminfo) \div 256) % W16
    BY DEF Reported
  <1>3. Proper(meminfo) /\ InUse(meminfo) \in 0 .. FourGiB - 1 =>
          PrintedMem(mem) = InUse(meminfo) \div 256
    BY <1>1, <1>2, MemIs
  <1> QED BY <1>3 DEF Reported

\* The reports on processors and memory are true: ReportsTrue is an invariant,
\* for any counters, processors and growth and any contents of /proc/meminfo.
THEOREM ReportsAlways == Spec => []ReportsTrue
  <1>1. Init => Reported
    BY InitReported DEF Init
  <1> QED BY <1>1, ReportedStep, ReportsHold, PTL DEF Spec
=============================================================================
