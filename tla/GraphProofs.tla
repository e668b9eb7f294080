---------------------------- MODULE GraphProofs ----------------------------
(***************************************************************************)
(* Proofs about module Graph, for any number of buckets, hosts and         *)
(* windows, any characters, samples, rounding and width a window may be    *)
(* given: every bucket has its column, the columns are inside of the       *)
(* frame, the times under them are near, the bars of the four kinds of     *)
(* pictures stay in their areas up to what rounding costs, and the history *)
(* hides nothing.  What the proofs need of the state is how sperpx and rm  *)
(* follow from the width and that samples are numbers; the rest is the     *)
(* arithmetic of division and of sums.                                     *)
(***************************************************************************)
EXTENDS Graph, Sums, TLAPS

\* The width between the smallest margins.
Inner == width - M_LEFT - M_RIGHT - 2

\* The samples are numbers, and so is the interval.
Stored ==
    /\ interval \in Nat \ {0}
    /\ samps \in [Wins -> [Buckets \X Hosts \X {0, 1} -> Nat]]

\* What configure_event() leaves behind, and how far update() counts.
IInv ==
    /\ Stored
    /\ curtime \in 0 .. DEFTLEN
    /\ sperpx \in Nat \ {0}
    /\ width \in Nat
    /\ width > 0 => /\ Inner \in Nat \ {0}
                    /\ sperpx = SamplesPerPixel(Inner)
                    /\ rm = width - DEFTLEN \div sperpx - M_LEFT - 2

-----------------------------------------------------------------------------
(* Division.                                                               *)

\* ceil() gives enough: n buckets need no more than d columns of Ceil(n, d).
LEMMA CeilIs ==
    ASSUME NEW n \in Nat \ {0}, NEW d \in Nat \ {0}
    PROVE  Ceil(n, d) \in Nat \ {0} /\ n \div Ceil(n, d) <= d
  <1> DEFINE k == Ceil(n, d)
             m == n + d - 1
             q == n \div k
  <1>1. k = m \div d /\ m \in Nat
    BY DEF Ceil
  <1>2. k \in Nat /\ m < d * k + d
    <2> HIDE DEF m, k
    <2> QED BY <1>1, Quotient
  <1>3. d * k \in Nat /\ n <= d * k
    <2>1. d * k \in Nat
      <3> HIDE DEF k
      <3> QED BY <1>2
    <2> DEFINE x == d * k
    <2>2. x \in Nat /\ n + d - 1 < x + d
      BY <1>2, <2>1
    <2> HIDE DEF x
    <2>3. n <= x
      BY <2>2
    <2> QED BY <2>1, <2>3 DEF x
  <1> HIDE DEF k, m
  <1>4. k # 0
    <2> SUFFICES ASSUME k = 0 PROVE FALSE
      OBVIOUS
    <2>1. d * k = 0
      OBVIOUS
    <2> QED BY <1>3, <2>1
  <1>5. q \in Nat /\ k * q <= n
    BY <1>2, <1>4, Quotient
  <1> HIDE DEF q
  <1>6. ASSUME d + 1 <= q PROVE FALSE
    <2>1. k * (d + 1) <= k * q
      BY <1>2, <1>5, <1>6, Monotone
    <2>2. k * (d + 1) = d * k + k
      BY <1>2
    <2>3. k * q \in Int
      BY <1>2, <1>5
    <2> QED BY <1>2, <1>3, <1>4, <1>5, <2>1, <2>2, <2>3
  <1>7. q <= d
    BY <1>5, <1>6
  <1> QED BY <1>2, <1>4, <1>7 DEF k, q

-----------------------------------------------------------------------------
(* The invariant.                                                          *)

\* The margins and the numbers of the window.
LEMMA Margins ==
    /\ M_LEFT \in Nat /\ M_RIGHT \in Nat /\ DEFTLEN \in Nat \ {0} /\ TSINTER \in Nat \ {0}
    /\ \A e \in Extras :
          /\ MinWidth + e \in Nat \ {0}
          /\ (MinWidth + e) - M_LEFT - M_RIGHT - 2 \in Nat \ {0}
  <1>1. /\ DEFTLEN \in Nat \ {0} /\ TSINTER \in Nat \ {0} /\ nsys \in Nat \ {0}
        /\ BAR \in Nat \ {0} /\ cwidth \in Nat /\ cheight \in Nat
        /\ \A e \in Extras : e \in Nat
    BY GraphAssumption
  <1>2. M_LEFT \in Nat /\ M_RIGHT \in Nat
    BY <1>1 DEF M_LEFT, M_RIGHT
  <1> DEFINE b == BAR * nsys
  <1>3. b \in Nat \ {0}
    BY <1>1
  <1>4. MinWidth = b + 2 + M_LEFT + M_RIGHT
    BY DEF MinWidth
  <1> HIDE DEF b
  <1>5. \A e \in Extras :
          MinWidth + e \in Nat \ {0} /\ (MinWidth + e) - M_LEFT - M_RIGHT - 2 \in Nat \ {0}
    BY <1>1, <1>2, <1>3, <1>4
  <1> QED BY <1>1, <1>2, <1>5

\* The invariant holds at the start.
LEMMA InitIInv == Init => IInv
  <1> SUFFICES ASSUME Init PROVE IInv
    OBVIOUS
  <1>1. Stored
    BY GraphAssumption DEF Init, Stored
  <1> QED BY <1>1, Margins DEF Init, IInv

\* Every step keeps the samples numbers.
LEMMA StoredStep == Stored /\ [Next]_vars => Stored'
  <1> SUFFICES ASSUME Stored, [Next]_vars PROVE Stored'
    OBVIOUS
  <1>1. CASE UNCHANGED <<interval, samps>>
    BY <1>1 DEF Stored
  <1>2. ASSUME NEW w \in Windows, NEW c \in Filled \X Hosts \X {0, 1}, NEW v \in Amounts,
               Sample(w, c, v)
        PROVE  Stored'
    <2>1. w \in Wins /\ c \in Buckets \X Hosts \X {0, 1}
      BY GraphAssumption DEF Wins, Buckets
    <2>2. v \in Nat
      BY GraphAssumption
    <2>3. samps' = [samps EXCEPT ![w][c] = @ + v] /\ UNCHANGED interval
      BY <1>2 DEF Sample
    <2> DEFINE row == [samps[w] EXCEPT ![c] = @ + v]
    <2>4. row \in [Buckets \X Hosts \X {0, 1} -> Nat]
      BY <2>1, <2>2 DEF Stored
    <2>5. samps' = [samps EXCEPT ![w] = row]
      BY <2>3
    <2> HIDE DEF row
    <2> QED BY <2>1, <2>3, <2>4, <2>5 DEF Stored
  <1> QED BY <1>1, <1>2 DEF Next, configure_event, update, vars

\* Every step keeps the invariant.
LEMMA NextIInv == IInv /\ [Next]_vars => IInv'
  <1> SUFFICES ASSUME IInv, [Next]_vars PROVE IInv'
    OBVIOUS
  <1>0. Stored'
    BY StoredStep DEF IInv
  <1>1. CASE UNCHANGED <<curtime, width, sperpx, rm>>
    BY <1>0, <1>1 DEF IInv, Inner
  <1>2. ASSUME NEW e \in Extras, configure_event(MinWidth + e) PROVE IInv'
    <2> DEFINE wd == MinWidth + e
               inner == wd - M_LEFT - M_RIGHT - 2
    <2>1. /\ width' = wd /\ sperpx' = SamplesPerPixel(inner) /\ UNCHANGED curtime
          /\ rm' = wd - DEFTLEN \div sperpx' - M_LEFT - 2
      BY <1>2 DEF configure_event
    <2>2. wd \in Nat \ {0} /\ inner \in Nat \ {0}
      BY Margins
    <2>3. Inner' = inner
      BY <2>1 DEF Inner
    <2> HIDE DEF inner
    <2>4. sperpx' \in Nat \ {0}
      BY <2>1, <2>2, Margins, CeilIs DEF SamplesPerPixel
    <2> QED BY <1>0, <2>1, <2>2, <2>3, <2>4 DEF IInv
  <1>3. CASE update
    <2>1. curtime' \in 0 .. DEFTLEN
      BY <1>3, Margins DEF update, IInv
    <2>2. UNCHANGED <<width, sperpx, rm>>
      BY <1>3 DEF update
    <2> QED BY <1>0, <2>1, <2>2 DEF IInv, Inner
  <1>4. ASSUME NEW w \in Windows, NEW c \in Filled \X Hosts \X {0, 1}, NEW v \in Amounts,
               Sample(w, c, v)
        PROVE  IInv'
    BY <1>1, <1>4 DEF Sample
  <1>5. CASE UNCHANGED vars
    BY <1>1, <1>5 DEF vars
  <1> QED BY <1>2, <1>3, <1>4, <1>5 DEF Next

\* The number of buckets per column and the margin follow from the width in
\* every state.
THEOREM InductiveInvariant == Spec => []IInv
  BY InitIInv, NextIInv, PTL DEF Spec

-----------------------------------------------------------------------------
(* The theorems.                                                           *)

\* The columns, from the invariant.
LEMMA ColumnsHold == IInv => ColumnsTrue
  <1> SUFFICES ASSUME IInv, width > 0 PROVE ColumnsTrue
    BY DEF ColumnsTrue
  <1> DEFINE last == DEFTLEN \div sperpx
  <1>1. /\ Inner \in Nat \ {0} /\ sperpx \in Nat \ {0} /\ width \in Nat
        /\ rm = width - last - M_LEFT - 2 /\ sperpx = Ceil(DEFTLEN, Inner)
    BY DEF IInv, SamplesPerPixel
  <1>2. last \in Nat /\ last <= Inner
    BY <1>1, CeilIs, Quotient, Margins
  <1>3. cxtime \in Nat /\ cxtime <= DEFTLEN
    BY Margins DEF IInv, cxtime
  <1> DEFINE final == cxtime \div sperpx
  <1>4. final \in Nat /\ final <= last
    BY <1>1, <1>3, Margins, Quotient, QuotientsInOrder
  <1>5. Columns = 0 .. final
    BY DEF Columns
  <1> HIDE DEF last, final
  <1>6. rm >= M_RIGHT
    BY <1>1, <1>2, Margins DEF Inner
  <1>7. ASSUME NEW t \in 0 .. cxtime
        PROVE  \E c \in Columns : /\ {d \in Columns : t \in Merged(d)} = {c}
                                  /\ M_LEFT + 1 + c < width - rm
    <2> DEFINE c == t \div sperpx
    <2>1. t \in Nat /\ t <= cxtime
      BY <1>3
    <2>2. c \in Nat /\ sperpx * c <= t /\ t < sperpx * c + sperpx
      BY <1>1, <2>1, Quotient
    <2>3. c <= final
      BY <1>1, <1>3, <2>1, QuotientsInOrder DEF final
    <2>4. c \in Columns
      BY <1>4, <1>5, <2>2, <2>3
    <2>5. ASSUME NEW d \in Columns PROVE t \in Merged(d) <=> d = c
      <3>1. d \in Nat
        BY <1>4, <1>5
      <3> DEFINE first == d * sperpx
      <3>2. first \in Nat /\ first = sperpx * d
        BY <1>1, <3>1
      <3> HIDE DEF first
      <3>3. t \in Merged(d) <=> first <= t /\ t < first + sperpx
        BY <1>1, <2>1, <3>2 DEF Merged, first
      <3>4. first <= t /\ t < first + sperpx => d = c
        BY <1>1, <2>1, <3>1, <3>2, OneQuotient
      <3>5. d = c => first <= t /\ t < first + sperpx
        BY <2>2, <3>2
      <3> QED BY <3>3, <3>4, <3>5
    <2>6. {d \in Columns : t \in Merged(d)} = {c}
      BY <2>4, <2>5
    <2>7. M_LEFT + 1 + c < width - rm
      <3> HIDE DEF c
      <3> QED BY <1>1, <1>2, <1>4, <2>2, <2>3, Margins
    <2> QED BY <2>4, <2>6, <2>7
  <1> QED BY <1>6, <1>7 DEF ColumnsTrue

\* Each bucket has one column, inside of the frame, and the legend has its
\* margin, for every number of buckets and every width a window can be given.
THEOREM ColumnsAlways == Spec => []ColumnsTrue
  BY InductiveInvariant, ColumnsHold, PTL

\* The column of a time: the k-th, which k times incr columns are before.
LEMMA LabelIs ==
    ASSUME NEW i \in Nat, NEW n \in Nat \ {0}, n <= i, (i - n) % (3 * n) = 0
    PROVE  i \div n \in Nat \ {0} /\ i = n * (i \div n)
  <1>1. i - n \in Nat /\ 3 * n \in Nat \ {0}
    OBVIOUS
  <1> DEFINE r == (i - n) \div (3 * n)
             k == 3 * r + 1
  <1>2. r \in Nat /\ i - n = (3 * n) * r + ((i - n) % (3 * n))
    BY <1>1, Quotient
  <1>3. i - n = (3 * n) * r
    <2>1. (3 * n) * r \in Int
      BY <1>1, <1>2
    <2> QED BY <1>2, <2>1
  <1> HIDE DEF r
  <1>4. k \in Nat \ {0} /\ i = n * k
    <2>1. n * k = (3 * n) * r + n
      BY <1>2
    <2> QED BY <1>2, <1>3, <2>1
  <1> HIDE DEF k
  <1>5. n * k <= i /\ i < n * k + n
    BY <1>4
  <1>6. i \div n = k
    BY <1>4, <1>5, OneQuotient
  <1> QED BY <1>4, <1>6

\* The seconds of incr columns: near the time between two times of day.
LEMMA IncrIs ==
    ASSUME IInv, Per = 1
    PROVE  /\ incr \in Nat \ {0}
           /\ TSINTER - sperpx * incr \in -(sperpx - 1) .. sperpx - 1
           /\ TSINTER % sperpx = 0 => TSINTER = sperpx * incr
  <1> DEFINE n == TSINTER \div sperpx
  <1>1. sperpx \in Nat \ {0} /\ TSINTER \in Nat \ {0}
    BY Margins DEF IInv
  <1>2. /\ n \in Nat /\ sperpx * n <= TSINTER /\ TSINTER < sperpx * n + sperpx
        /\ TSINTER = sperpx * n + (TSINTER % sperpx)
    BY <1>1, Quotient
  <1>3. incr = Max({1, n})
    <2>1. TSINTER \div Per = TSINTER
      BY <1>1
    <2> QED BY <2>1 DEF incr
  <1> HIDE DEF n
  <1>4. CASE n = 0
    <2>1. incr = 1 /\ sperpx * n = 0
      BY <1>1, <1>3, <1>4 DEF Max
    <2>2. sperpx * 1 = sperpx
      BY <1>1
    <2>3. TSINTER < sperpx
      BY <1>1, <1>2, <2>1
    <2>4. TSINTER % sperpx # 0
      BY <1>1, <1>2, <2>1
    <2> QED BY <1>1, <2>1, <2>2, <2>3, <2>4
  <1>5. CASE n # 0
    <2>1. incr = n
      BY <1>2, <1>3, <1>5 DEF Max
    <2> DEFINE x == sperpx * n
    <2>2. x \in Int /\ x <= TSINTER /\ TSINTER < x + sperpx /\ TSINTER = x + (TSINTER % sperpx)
      BY <1>1, <1>2
    <2> HIDE DEF x
    <2>3. TSINTER - x \in -(sperpx - 1) .. sperpx - 1 /\ (TSINTER % sperpx = 0 => TSINTER = x)
      BY <1>1, <2>2
    <2> QED BY <1>2, <1>5, <2>1, <2>3 DEF x
  <1> QED BY <1>4, <1>5

\* The times of day, from the invariant.
LEMMA LabelsHold == IInv => LabelsNear
  <1> DEFINE k(i) == Label(i)
  <1> SUFFICES ASSUME IInv, width > 0, Per = 1, NEW i \in Labelled
               PROVE  /\ k(i) * TSINTER - i * sperpx \in
                            -(k(i) * (sperpx - 1)) .. k(i) * (sperpx - 1)
                      /\ TSINTER % sperpx = 0 =>
                            k(i) \in DOMAIN Whens /\ Whens[k(i)] = i * sperpx
    BY DEF LabelsNear
  <1> DEFINE last == DEFTLEN \div sperpx
             times == DEFTLEN \div TSINTER
             m == Label(i)
             x == sperpx * incr
  <1>1. sperpx \in Nat \ {0} /\ DEFTLEN \in Nat \ {0} /\ TSINTER \in Nat \ {0}
    BY Margins DEF IInv
  <1>2. /\ last \in Nat /\ sperpx * last <= DEFTLEN
        /\ times \in Nat /\ DEFTLEN < TSINTER * times + TSINTER
    BY <1>1, Quotient
  <1>3. /\ incr \in Nat \ {0} /\ x \in Int /\ TSINTER - x \in -(sperpx - 1) .. sperpx - 1
        /\ TSINTER % sperpx = 0 => TSINTER = x
    BY <1>1, IncrIs
  <1>4. i \in incr .. last - 1 /\ (i - incr) % (3 * incr) = 0
    BY DEF Labelled
  <1> HIDE DEF last, times
  <1>5. i \in Nat /\ incr <= i /\ i <= last - 1
    BY <1>2, <1>3, <1>4
  <1>6. m \in Nat \ {0} /\ i = incr * m
    BY <1>3, <1>4, <1>5, LabelIs DEF Label
  <1>7. i * sperpx = m * x
    <2> HIDE DEF m
    <2> QED BY <1>1, <1>3, <1>6
  <1> HIDE DEF m, x
  <1>8. m * TSINTER - i * sperpx \in -(m * (sperpx - 1)) .. m * (sperpx - 1)
    <2> DEFINE d == TSINTER - x
               b == sperpx - 1
    <2>1. d \in Int /\ b \in Nat /\ -b <= d /\ d <= b
      BY <1>1, <1>3
    <2>2. m * TSINTER - m * x = m * d
      BY <1>1, <1>3, <1>6
    <2> HIDE DEF d, b
    <2>3. m * (-b) <= m * d /\ m * d <= m * b /\ m * (-b) = -(m * b)
      BY <1>6, <2>1, Monotone
    <2>4. m * d \in Int /\ m * b \in Int
      BY <1>6, <2>1
    <2>5. m * d \in -(m * b) .. m * b
      BY <2>3, <2>4
    <2> QED BY <1>7, <2>2, <2>5 DEF b
  <1>9. ASSUME TSINTER % sperpx = 0 PROVE m * TSINTER = i * sperpx /\ m \in 0 .. times
    <2>1. m * TSINTER = i * sperpx
      BY <1>3, <1>7, <1>9
    <2>2. sperpx * i <= sperpx * last
      BY <1>1, <1>2, <1>5, Monotone
    <2>3. TSINTER * m <= DEFTLEN
      <3>1. TSINTER * m = sperpx * i /\ sperpx * i \in Int /\ sperpx * last \in Int
        BY <1>1, <1>2, <1>5, <1>6, <2>1
      <3> QED BY <1>1, <1>2, <2>2, <3>1
    <2>4. ASSUME times + 1 <= m PROVE FALSE
      <3>1. TSINTER * (times + 1) <= TSINTER * m
        BY <1>1, <1>2, <1>6, <2>4, Monotone
      <3>2. TSINTER * (times + 1) = TSINTER * times + TSINTER
        BY <1>1, <1>2
      <3>3. TSINTER * times \in Int /\ TSINTER * m \in Int
        BY <1>1, <1>2, <1>6
      <3> QED BY <1>1, <1>2, <2>3, <3>1, <3>2, <3>3
    <2> QED BY <1>2, <1>6, <2>1, <2>4
  <1>10. DOMAIN Whens = 0 .. times /\ \A j \in 0 .. times : Whens[j] = j * TSINTER
    BY DEF Whens, times
  <1> QED BY <1>8, <1>9, <1>10 DEF m

\* Where a bucket is a second, the time under a column is off by less than one
\* column for each time from the start on, whatever the width; and where the
\* columns divide the time between two times, it is right and among those
\* computed.
THEOREM LabelsAlways == Spec => []LabelsNear
  BY InductiveInvariant, LabelsHold, PTL

-----------------------------------------------------------------------------
(* Rounding up.                                                            *)

\* What ceil() is: enough, and less than one too much.
LEMMA CeilBounds ==
    ASSUME NEW n \in Nat, NEW d \in Nat \ {0}
    PROVE  /\ Ceil(n, d) \in Nat
           /\ n <= d * Ceil(n, d)
           /\ d * Ceil(n, d) <= n + d - 1
           /\ n > 0 => Ceil(n, d) >= 1
  <1> DEFINE m == n + d - 1
             k == Ceil(n, d)
             dk == d * k
  <1>1. m \in Nat /\ k = m \div d
    BY DEF Ceil
  <1>2. k \in Nat /\ d * k <= m /\ m < d * k + d
    <2> HIDE DEF m, k
    <2> QED BY <1>1, Quotient
  <1>3. dk \in Int /\ dk <= n + d - 1 /\ n + d - 1 < dk + d
    BY <1>2
  <1>4. n <= dk
    <2> HIDE DEF dk
    <2> QED BY <1>3
  <1>5. ASSUME n > 0, k = 0 PROVE FALSE
    <2>1. dk = 0
      BY <1>5
    <2> QED BY <1>4, <1>5, <2>1
  <1> QED BY <1>2, <1>3, <1>4, <1>5

\* The unit is large, and the rows of an area are few.
LEMMA UnitIs == UNIT \in Nat /\ UNIT - 1 \in Nat \ {0} /\ Height \in Nat /\ 2 * Height < UNIT
  <1>1. UNIT \in Nat /\ Height \in Nat /\ UNIT > 2 * Height /\ Height > M_TOP + M_BOT + 2 + NWINS - W_OTHER
    BY GraphAssumption
  <1>2. M_TOP \in Nat /\ M_BOT \in Nat /\ NWINS \in Nat /\ NWINS > W_OTHER
    BY GraphAssumption DEF M_TOP, M_BOT
  <1> QED BY <1>1, <1>2 DEF W_OTHER

\* How far off a double is.
LEMMA ComputedIs ==
    ASSUME NEW n \in Nat, NEW d
    PROVE  /\ Computed(n, d) \in Nat
           /\ n * (UNIT - 1) <= Computed(n, d)
           /\ Computed(n, d) <= n * (UNIT + 1)
           /\ n > 0 => Computed(n, d) > 0
  <1>1. UNIT \in Nat /\ UNIT - 1 \in Nat \ {0}
    BY UnitIs
  <1> DEFINE e == IF Rounded(n, d) = "up" THEN 1 ELSE IF Rounded(n, d) = "down" THEN -1 ELSE 0
             u == UNIT + e
  <1>2. u \in Nat \ {0} /\ UNIT - 1 <= u /\ u <= UNIT + 1
    BY <1>1
  <1>3. Computed(n, d) = n * u
    BY DEF Computed
  <1> HIDE DEF u
  <1>4. n * (UNIT - 1) <= n * u /\ n * u <= n * (UNIT + 1)
    BY <1>1, <1>2, Monotone
  <1>5. n * u \in Nat /\ (n > 0 => n * u > 0)
    BY <1>2
  <1> QED BY <1>3, <1>4, <1>5

\* ceil() of a double.
LEMMA CeilComputedIs ==
    ASSUME NEW n \in Nat, NEW d \in Nat \ {0}
    PROVE  /\ d * UNIT \in Nat \ {0}
           /\ CeilComputed(n, d) \in Nat
           /\ n > 0 => CeilComputed(n, d) >= 1
           /\ n * (UNIT - 1) <= (d * UNIT) * CeilComputed(n, d)
           /\ (d * UNIT) * CeilComputed(n, d) <= n * (UNIT + 1) + (d * UNIT - 1)
  <1> DEFINE D == d * UNIT
             x == Computed(n, d)
             k == CeilComputed(n, d)
             a == n * (UNIT - 1)
             b == n * (UNIT + 1)
  <1>1. D \in Nat \ {0} /\ a \in Nat /\ b \in Nat
    BY UnitIs
  <1>2. x \in Nat /\ a <= x /\ x <= b /\ (n > 0 => x > 0)
    BY ComputedIs
  <1>3. k = Ceil(x, D)
    BY DEF CeilComputed
  <1> HIDE DEF D, x, k, a, b
  <1>4. k \in Nat /\ x <= D * k /\ D * k <= x + D - 1 /\ (x > 0 => k >= 1)
    BY <1>1, <1>2, <1>3, CeilBounds
  <1> DEFINE Dk == D * k
  <1>5. Dk \in Int /\ x <= Dk /\ Dk <= x + D - 1
    BY <1>1, <1>4
  <1> HIDE DEF Dk
  <1>6. a <= Dk /\ Dk <= b + (D - 1)
    BY <1>1, <1>2, <1>5
  <1> QED BY <1>1, <1>2, <1>4, <1>6 DEF D, k, a, b, Dk

\* A scale s covers an amount v up to the rounding of v.
Covers(s, v) == v * (UNIT - 1) <= s * UNIT

\* What is no more than a covered amount is covered, by a larger scale as well.
LEMMA CoversLess ==
    ASSUME NEW s \in Nat, NEW t \in Nat, NEW u \in Nat, NEW v \in Nat,
           s <= t, u <= v, Covers(s, v)
    PROVE  Covers(t, u)
  <1> DEFINE U == UNIT - 1
  <1>1. UNIT \in Nat /\ U \in Nat
    BY UnitIs
  <1>2. v * U <= s * UNIT
    BY DEF Covers
  <1> HIDE DEF U
  <1>3. U * u <= U * v /\ UNIT * s <= UNIT * t
    BY <1>1, Monotone
  <1>4. U * u = u * U /\ U * v = v * U /\ UNIT * s = s * UNIT /\ UNIT * t = t * UNIT
        /\ u * U \in Int /\ v * U \in Int /\ s * UNIT \in Int /\ t * UNIT \in Int
    BY <1>1
  <1>5. u * U <= t * UNIT
    BY <1>2, <1>3, <1>4
  <1> QED BY <1>5 DEF Covers, U

\* An amount that is no more than the scale is covered.
LEMMA CoversOwn ==
    ASSUME NEW s \in Nat, NEW v \in Nat, v <= s
    PROVE  Covers(s, v)
  <1>1. UNIT \in Nat
    BY UnitIs
  <1>2. UNIT * v <= UNIT * s
    BY <1>1, Monotone
  <1>3. v * (UNIT - 1) = UNIT * v - v /\ s * UNIT = UNIT * s /\ UNIT * v \in Int /\ UNIT * s \in Int
    BY <1>1
  <1> QED BY <1>2, <1>3 DEF Covers

\* The rows of a covered amount are right up to half a row either way.
LEMMA Stretch ==
    ASSUME NEW v \in Nat, NEW r \in Nat, r < Height, NEW s \in Nat \ {0}, Covers(s, v)
    PROVE  /\ 2 * (v * r) < s * UNIT
           /\ (v * r) * (UNIT + 1) < (s * UNIT) * (r + 1)
  <1> DEFINE U == UNIT - 1
             D == s * UNIT
             vU == v * U
             y == v * r
  <1>1. UNIT \in Nat /\ U \in Nat \ {0} /\ UNIT = U + 1 /\ 2 * r < U
    BY UnitIs
  <1>2. D \in Nat \ {0} /\ vU \in Nat /\ y \in Nat
    BY <1>1
  <1>3. vU <= D
    BY DEF Covers
  <1> HIDE DEF D
  <1>4. r * vU <= r * D
    BY <1>2, <1>3, Monotone
  <1>5. r * vU = U * y
    BY <1>1
  <1>6. 2 * y < D
    <2> DEFINE w == 2 * r
               g == U - w
    <2>1. w \in Nat /\ g \in Nat \ {0} /\ U = w + g
      BY <1>1
    <2>2. w * vU <= w * D
      BY <1>2, <1>3, <2>1, Monotone
    <2>3. w * vU = U * (2 * y)
      BY <1>1
    <2> HIDE DEF w, g
    <2>4. U * D = w * D + g * D /\ g * D \in Nat \ {0} /\ w * D \in Int
      <3> HIDE DEF U
      <3> QED BY <1>2, <2>1
    <2> HIDE DEF U, y, vU
    <2>5. U * (2 * y) \in Int /\ U * D \in Int
      BY <1>1, <1>2
    <2> DEFINE p == U * (2 * y)
               q == U * D
    <2>6. p < q
      <3> DEFINE wD == w * D
                 gD == g * D
      <3>1. p \in Int /\ wD \in Int /\ gD \in Nat \ {0} /\ q = wD + gD /\ p <= wD
        BY <2>2, <2>3, <2>4, <2>5
      <3> HIDE DEF p, q, wD, gD
      <3> QED BY <3>1
    <2>7. 2 * y \in Int /\ D \in Int
      BY <1>2
    <2> QED BY <1>1, <2>6, <2>7, Cancel
  <1>7. y * (UNIT + 1) = r * vU + 2 * y
    <2> HIDE DEF U, y, vU
    <2>1. y * (UNIT + 1) = U * y + 2 * y
      BY <1>1, <1>2
    <2> QED BY <1>5, <2>1
  <1>8. D * (r + 1) = r * D + D
    BY <1>2
  <1> HIDE DEF vU, y
  <1> DEFINE a == r * vU
             b == r * D
  <1>9. a \in Int /\ b \in Int /\ a <= b
    BY <1>2, <1>4
  <1> HIDE DEF a, b
  <1>10. a + 2 * y < b + D
    BY <1>2, <1>6, <1>9
  <1>11. y * (UNIT + 1) < D * (r + 1)
    BY <1>7, <1>8, <1>10 DEF a, b
  <1> QED BY <1>6, <1>11 DEF y, D

\* Two parts need two rows more than the whole, at most.
LEMMA CeilTwo ==
    ASSUME NEW u \in Nat, NEW v \in Nat, NEW r \in Nat, r < Height, NEW s \in Nat \ {0},
           Covers(s, u + v)
    PROVE  CeilComputed(u * r, s) + CeilComputed(v * r, s) <= CeilComputed((u + v) * r, s) + 2
  <1> DEFINE n == u * r
             m == v * r
             o == (u + v) * r
             x == CeilComputed(n, s)
             y == CeilComputed(m, s)
             z == CeilComputed(o, s)
             D == s * UNIT
             dx == D * x
             dy == D * y
             dz == D * z
  <1>1. n \in Nat /\ m \in Nat /\ o = n + m /\ u + v \in Nat /\ UNIT \in Nat
    BY UnitIs
  <1>2. 2 * o < D
    BY <1>1, Stretch
  <1> HIDE DEF n, m, o
  <1>3. o \in Nat
    BY <1>1
  <1>4. /\ D \in Nat \ {0} /\ x \in Nat /\ y \in Nat /\ z \in Nat
        /\ dx <= n * (UNIT + 1) + (D - 1) /\ dy <= m * (UNIT + 1) + (D - 1)
        /\ o * (UNIT - 1) <= dz
    BY <1>1, <1>3, CeilComputedIs
  <1> HIDE DEF x, y, z, D
  <1>5. dx \in Int /\ dy \in Int /\ dz \in Int
    BY <1>4
  <1>6. D * (x + y) = dx + dy /\ D * (z + 3) = dz + 3 * D
    BY <1>4
  <1> DEFINE N == n * (UNIT + 1)
             M == m * (UNIT + 1)
             O == o * (UNIT - 1)
  <1>7. N \in Int /\ M \in Int /\ O \in Int /\ N + M = O + 2 * o
    BY <1>1, <1>3
  <1> HIDE DEF N, M, O, dx, dy, dz
  <1>8. dx + dy < dz + 3 * D
    <2>1. dx <= N + (D - 1) /\ dy <= M + (D - 1) /\ O <= dz
      BY <1>4 DEF N, M, O, dx, dy, dz
    <2> QED BY <1>2, <1>3, <1>4, <1>5, <1>7, <2>1
  <1>9. D * (x + y) < D * (z + 3)
    BY <1>6, <1>8
  <1>10. x + y < z + 3
    BY <1>4, <1>9, Cancel
  <1> QED BY <1>4, <1>10 DEF x, y, z, n, m, o

\* More parts of the scale need, at most, a row more for each.
LEMMA CeilMany ==
    ASSUME NEW S, IsFiniteSet(S), NEW f, NEW g, NEW r \in Nat, r < Height,
           NEW s \in Nat \ {0},
           \A x \in S : f[x] \in Nat /\ g[x] = CeilComputed(f[x] * r, s),
           Covers(s, SumFunctionOnSet(f, S))
    PROVE  /\ \A x \in S : g[x] \in Nat
           /\ SumFunctionOnSet(g, S) \in Nat
           /\ SumFunctionOnSet(g, S) <= r + Cardinality(S)
  <1> DEFINE F == SumFunctionOnSet(f, S)
             G == SumFunctionOnSet(g, S)
             n == Cardinality(S)
             D == s * UNIT
             c == D - 1
             q == r * (UNIT + 1)
  <1>0. D \in Nat \ {0} /\ q \in Nat /\ UNIT \in Nat
    BY UnitIs
  <1>1. ASSUME NEW x \in S
        PROVE  g[x] \in Nat /\ D * g[x] <= q * f[x] + c
    <2> DEFINE v == f[x] * r
    <2>1. v \in Nat /\ v * (UNIT + 1) = q * f[x]
      <3> DEFINE y == f[x]
      <3>1. y \in Nat
        OBVIOUS
      <3> HIDE DEF y
      <3>2. y * r \in Nat /\ (y * r) * (UNIT + 1) = (r * (UNIT + 1)) * y
        BY <1>0, <3>1
      <3> QED BY <3>2 DEF y
    <2>2. g[x] = CeilComputed(v, s)
      OBVIOUS
    <2>3. g[x] \in Nat /\ D * g[x] <= v * (UNIT + 1) + (D - 1)
      <3> HIDE DEF v
      <3> QED BY <2>1, <2>2, CeilComputedIs
    <2> QED BY <2>1, <2>3
  <1>2. F \in Nat /\ G \in Nat /\ n \in Nat
    BY <1>1, SumNat, FS_CardinalityType
  <1>3. D * G <= q * F + c * n
    <2>1. c \in Int /\ D \in Int /\ q \in Int
      BY <1>0
    <2>2. \A x \in S : g[x] \in Int /\ f[x] \in Int /\ D * g[x] <= q * f[x] + c
      BY <1>1
    <2> HIDE DEF c, D, q
    <2> QED BY <2>1, <2>2, SumLinear
  <1>4. q * F < D * (r + 1)
    <2>1. (F * r) * (UNIT + 1) < D * (r + 1)
      BY <1>2, Stretch
    <2> HIDE DEF F, D
    <2>2. (F * r) * (UNIT + 1) = q * F
      BY <1>0, <1>2
    <2> QED BY <2>1, <2>2
  <1> HIDE DEF F, G, D, q, n
  <1> DEFINE qF == q * F
             Dr == D * (r + 1)
             Dn == D * n
             DG == D * G
  <1>5. qF \in Int /\ Dr \in Int /\ Dn \in Int /\ DG \in Int
    BY <1>0, <1>2
  <1>6. c * n = Dn - n /\ D * ((r + 1) + n) = Dr + Dn
    BY <1>0, <1>2
  <1>7. DG <= qF + (Dn - n) /\ qF < Dr
    BY <1>3, <1>4, <1>6
  <1>8. DG < Dr + Dn
    <2> HIDE DEF qF, Dr, Dn, DG
    <2> QED BY <1>2, <1>5, <1>7
  <1>9. D * G < D * ((r + 1) + n)
    BY <1>6, <1>8
  <1>10. G < (r + 1) + n
    BY <1>0, <1>2, <1>9, Cancel
  <1>11. G <= r + n
    BY <1>2, <1>10
  <1> QED BY <1>1, <1>2, <1>11 DEF G, n

-----------------------------------------------------------------------------
(* Scales.                                                                 *)

\* The function of the definition exists, so its equation holds.
LEMMA DecadeEquation ==
    Decade = [base \in 0 .. BASES + 1 |-> IF base = 0 THEN 1 ELSE 10 * Decade[base - 1]]
  <1> DEFINE Eq(n, g) ==
               g = [base \in 0 .. n |-> IF base = 0 THEN 1 ELSE 10 * g[base - 1]]
             Q == {n \in Nat : \E g : Eq(n, g)}
  <1>1. 0 \in Q
    <2> DEFINE g == [base \in 0 .. 0 |-> 1]
    <2>1. Eq(0, g)
      OBVIOUS
    <2> QED BY <2>1
  <1>2. ASSUME NEW n \in Nat, n \in Q PROVE n + 1 \in Q
    <2>1. PICK g : Eq(n, g)
      BY <1>2
    <2> DEFINE h == [base \in 0 .. n + 1 |-> IF base = 0 THEN 1 ELSE 10 * g[base - 1]]
    <2>2. \A base \in 0 .. n : h[base] = g[base]
      BY <2>1
    <2>3. \A base \in 0 .. n + 1 : base # 0 => base - 1 \in 0 .. n
      OBVIOUS
    <2>4. \A base \in 0 .. n + 1 : base # 0 => h[base - 1] = g[base - 1]
      <3> HIDE DEF h
      <3> QED BY <2>2, <2>3
    <2>5. Eq(n + 1, h)
      BY <2>4
    <2> HIDE DEF h
    <2> QED BY <2>5
  <1>3. BASES + 1 \in Q
    <2>1. Nat \subseteq Q
      <3> HIDE DEF Q
      <3> QED BY <1>1, <1>2, NumberInduction
    <2>2. BASES + 1 \in Nat
      BY GraphAssumption
    <2> QED BY <2>1, <2>2
  <1>4. \E g : Eq(BASES + 1, g)
    BY <1>3
  <1> QED BY <1>4 DEF Decade

\* The powers of ten are positive.
LEMMA DecadeIs == \A base \in 0 .. BASES + 1 : Decade[base] \in Nat \ {0}
  <1> DEFINE Q == {n \in Nat : n <= BASES + 1 => Decade[n] \in Nat \ {0}}
  <1>0. BASES + 1 \in Nat
    BY GraphAssumption
  <1>1. 0 \in Q
    BY <1>0, DecadeEquation
  <1>2. ASSUME NEW n \in Nat, n \in Q PROVE n + 1 \in Q
    <2> SUFFICES ASSUME n + 1 <= BASES + 1 PROVE Decade[n + 1] \in Nat \ {0}
      OBVIOUS
    <2>1. Decade[n] \in Nat \ {0}
      BY <1>0, <1>2
    <2>2. n + 1 \in 0 .. BASES + 1 /\ n + 1 # 0 /\ (n + 1) - 1 = n
      BY <1>0
    <2>3. Decade[n + 1] = 10 * Decade[(n + 1) - 1]
      BY <2>2, DecadeEquation
    <2> QED BY <2>1, <2>2, <2>3
  <1>3. Nat \subseteq Q
    <2> HIDE DEF Q
    <2> QED BY <1>1, <1>2, NumberInduction
  <1> QED BY <1>0, <1>3

\* The least of the numbers above.
LEMMA MinIs ==
    ASSUME NEW S, S \subseteq Nat, S # {}
    PROVE  Min(S) \in S
  <1>1. PICK i \in S : \A k \in S : ~ (<<k, i>> \in OpToRel(<, Nat))
    BY WFMin, NatLessThanWellFounded
  <1>2. \A k \in S : ~ (k < i)
    BY <1>1 DEF OpToRel
  <1>3. \A k \in S : i <= k
    BY <1>2
  <1> QED BY <1>3 DEF Min

\* The end of the scale is a number, and covers what is not beyond all decades.
LEMMA RoundupIs ==
    ASSUME NEW n \in Nat, NEW d \in Nat \ {0}
    PROVE  /\ roundup(n, d) \in Nat \ {0}
           /\ n <= Decade[BASES + 1] * d => Covers(roundup(n, d) * d, n)
  <1> DEFINE above == {s \in Steps : Computed(n, d) <= s * (d * UNIT)}
  <1>1. Steps \subseteq Nat \ {0}
    <2>1. \A i \in 1 .. 9, base \in 1 .. BASES : i * Decade[base] \in Nat \ {0}
      <3>1. \A base \in 1 .. BASES : base \in 0 .. BASES + 1
        BY GraphAssumption
      <3>2. \A i \in 1 .. 9, k \in Nat \ {0} : i * k \in Nat \ {0}
        OBVIOUS
      <3> QED BY <3>1, <3>2, DecadeIs
    <2> QED BY <2>1 DEF Steps
  <1>2. BASES + 1 \in 0 .. BASES + 1
    BY GraphAssumption
  <1>3. CASE above = {}
    <2>1. roundup(n, d) = Decade[BASES + 1]
      BY <1>3 DEF roundup
    <2> DEFINE t == Decade[BASES + 1]
    <2>2. t \in Nat \ {0} /\ t * d \in Nat
      <3>1. t \in Nat \ {0}
        BY <1>2, DecadeIs
      <3> HIDE DEF t
      <3> QED BY <3>1
    <2> QED BY <2>1, <2>2, CoversOwn
  <1>4. CASE above # {}
    <2> DEFINE t == Min(above)
    <2>1. roundup(n, d) = t
      BY <1>4 DEF roundup
    <2>2. above \subseteq Nat
      BY <1>1
    <2>3. t \in above
      <3> HIDE DEF above
      <3> QED BY <1>4, <2>2, MinIs
    <2>4. t \in Nat \ {0} /\ Computed(n, d) <= t * (d * UNIT)
      BY <1>1, <2>3
    <2> HIDE DEF t
    <2> DEFINE x == n * (UNIT - 1)
               y == Computed(n, d)
               z == (t * d) * UNIT
    <2>5. x \in Int /\ z \in Int /\ z = t * (d * UNIT)
      BY <2>4, UnitIs
    <2>6. y \in Nat /\ x <= y
      BY ComputedIs
    <2>7. x <= z
      <3>1. y <= z
        BY <2>4, <2>5
      <3> HIDE DEF x, y, z
      <3> QED BY <2>5, <2>6, <3>1
    <2> QED BY <2>1, <2>4, <2>7 DEF Covers
  <1> QED BY <1>3, <1>4

\* The largest of finitely many numbers.
LEMMA MaxIs ==
    ASSUME NEW D, IsFiniteSet(D), D # {}, NEW f, \A x \in D : f[x] \in Nat
    PROVE  /\ \E x \in D : Max({f[y] : y \in D}) = f[x]
           /\ \A x \in D : f[x] <= Max({f[y] : y \in D})
  <1> DEFINE Q == {T \in SUBSET D : T = {} \/ \E x \in T : \A y \in T : f[y] <= f[x]}
  <1>1. {} \in Q
    OBVIOUS
  <1>2. ASSUME NEW T \in SUBSET D, NEW a \in D \ T, T \in Q PROVE T \union {a} \in Q
    <2>1. CASE T = {}
      <3>1. f[a] <= f[a]
        OBVIOUS
      <3> QED BY <2>1, <3>1
    <2>2. CASE T # {}
      <3>1. PICK x \in T : \A y \in T : f[y] <= f[x]
        BY <1>2, <2>2
      <3>2. CASE f[a] <= f[x]
        BY <3>1, <3>2
      <3>3. CASE ~ (f[a] <= f[x])
        <4>1. \A y \in T \union {a} : f[y] <= f[a]
          BY <3>1, <3>3
        <4> QED BY <4>1
      <3> QED BY <3>2, <3>3
    <2> QED BY <2>1, <2>2
  <1>3. D \in Q
    <2> HIDE DEF Q
    <2> QED BY <1>1, <1>2, AddInduction
  <1>4. PICK x \in D : \A y \in D : f[y] <= f[x]
    BY <1>3
  <1> DEFINE S == {f[y] : y \in D}
  <1>5. f[x] \in S /\ \A y \in S : f[x] >= y
    BY <1>4
  <1>6. Max(S) \in S /\ \A y \in S : Max(S) >= y
    <2> HIDE DEF S
    <2> QED BY <1>5 DEF Max
  <1> QED BY <1>6

-----------------------------------------------------------------------------
(* What the pictures are made of.                                          *)

Areas == /\ M_TOP \in Nat /\ drawh \in Nat /\ drawh - delta \in Nat \ {0}
         /\ drawh < Height /\ drawh - delta < Height
         /\ Base = M_TOP + 1 + drawh /\ Base \in Nat
         /\ delta = 1 + Cardinality(Traffic)
         /\ NWINS - W_OTHER = Cardinality(Traffic) /\ Cardinality(Traffic) \in Nat
         /\ IsFiniteSet(Traffic) /\ Traffic \subseteq Wins /\ W_OTHER \in Nat

\* The areas are large enough, as the constants are assumed to be.
LEMMA AreasHold == Areas
  <1>1. /\ cheight \in Nat \ {0} /\ Height \in Nat /\ NWINS \in Nat /\ NWINS > W_OTHER
        /\ Height > M_TOP + M_BOT + 2 + NWINS - W_OTHER
    BY GraphAssumption
  <1>2. W_OTHER = 4
    BY DEF W_OTHER
  <1>3. M_TOP \in Nat /\ M_BOT \in Nat
    BY <1>1 DEF M_TOP, M_BOT
  <1>4. IsFiniteSet(Traffic) /\ Cardinality(Traffic) = NWINS - W_OTHER
    <2>1. W_OTHER \in Int /\ NWINS - 1 \in Int /\ ~ (W_OTHER > NWINS - 1)
      BY <1>1, <1>2
    <2>2. (NWINS - 1) - W_OTHER + 1 = NWINS - W_OTHER
      BY <1>1, <1>2
    <2> QED BY <2>1, <2>2, FS_Interval DEF Traffic
  <1>5. Traffic \subseteq Wins
    BY <1>1, <1>2 DEF Traffic, Wins
  <1> QED BY <1>1, <1>2, <1>3, <1>4, <1>5 DEF Areas, drawh, delta, Base

\* The interval, the bucket that is drawn, and the columns.
LEMMA Drawn ==
    ASSUME IInv
    PROVE  /\ Per \in Nat \ {0} /\ sperpx \in Nat \ {0} /\ cxtime \in Buckets
           /\ IsFiniteSet(Hosts) /\ Hosts # {}
           /\ IsFiniteSet(Columns) /\ Columns # {} /\ Columns \subseteq Nat
           /\ \A c \in Columns : /\ Merged(c) \subseteq Buckets
                                 /\ IsFiniteSet(Merged(c) \X Hosts)
  <1>1. Per \in Nat \ {0} /\ sperpx \in Nat \ {0}
    BY DEF IInv, Stored, Per
  <1>2. DEFTLEN \in Nat \ {0} /\ nsys \in Nat \ {0} /\ curtime \in 0 .. DEFTLEN
    BY GraphAssumption DEF IInv
  <1>3. cxtime \in Buckets /\ cxtime \in Nat
    BY <1>2 DEF cxtime, Buckets
  <1>4. IsFiniteSet(Hosts) /\ Hosts # {} /\ IsFiniteSet(Buckets)
    <2>1. 0 \in Hosts
      BY <1>2 DEF Hosts
    <2>2. 0 \in Int /\ nsys - 1 \in Int /\ DEFTLEN - 1 \in Int
      BY <1>2
    <2> QED BY <2>1, <2>2, FS_Interval DEF Hosts, Buckets
  <1>5. IsFiniteSet(Columns) /\ Columns # {} /\ Columns \subseteq Nat
    <2> DEFINE q == cxtime \div sperpx
    <2>1. q \in Nat
      BY <1>1, <1>3, Quotient
    <2> HIDE DEF q
    <2>2. IsFiniteSet(0 .. q) /\ 0 \in 0 .. q /\ 0 .. q \subseteq Nat
      BY <2>1, FS_Interval
    <2> QED BY <2>2 DEF Columns, q
  <1>6. ASSUME NEW c \in Columns
        PROVE  Merged(c) \subseteq Buckets /\ IsFiniteSet(Merged(c) \X Hosts)
    <2>1. c * sperpx \in Nat
      BY <1>1, <1>5
    <2>2. Merged(c) \subseteq Buckets
      <3> DEFINE a == c * sperpx
      <3>1. \A t \in a .. a + sperpx - 1 : t <= cxtime => t \in 0 .. DEFTLEN - 1
        <4> HIDE DEF a
        <4>1. a \in Nat
          BY <2>1 DEF a
        <4> QED BY <1>1, <1>2, <1>3, <4>1 DEF Buckets
      <3> QED BY <3>1 DEF Merged, Buckets
    <2>3. IsFiniteSet(Merged(c))
      BY <1>4, <2>2, FS_Subset
    <2> QED BY <1>4, <2>2, <2>3, FS_Product
  <1> QED BY <1>1, <1>3, <1>4, <1>5, <1>6

\* A sample is a number.
LEMMA AtIs ==
    ASSUME IInv, NEW w \in Wins, NEW h \in Hosts, NEW lev \in {0, 1}
    PROVE  At(w, h, lev) \in Nat
  BY Drawn DEF At, IInv, Stored

\* What a column is divided by is positive.
LEMMA ShareIs ==
    ASSUME IInv, NEW w \in Wins, NEW c \in Columns
    PROVE  Share(w, c) \in Nat \ {0} /\ Per * Share(w, c) \in Nat \ {0}
  <1> DEFINE S == {x \in Merged(c) \X Hosts : samps[w][<<x[1], x[2], 0>>] > 0}
  <1>1. IsFiniteSet(S)
    <2>1. S \subseteq Merged(c) \X Hosts
      OBVIOUS
    <2> HIDE DEF S
    <2> QED BY <2>1, Drawn, FS_Subset
  <1>2. reps(w, c) \in Nat
    <2>1. Cardinality(S) \in Nat
      BY <1>1, FS_CardinalityType
    <2> QED BY <2>1 DEF reps
  <1>3. Share(w, c) \in Nat \ {0}
    BY <1>2, Drawn DEF Share
  <1> QED BY <1>3, Drawn

\* The sums of a column are numbers, and no sample is lost in them.
LEMMA SumIs ==
    ASSUME IInv, NEW w \in Wins, NEW c \in Columns, NEW lev \in {0, 1}
    PROVE  /\ Sum(w, c, lev) \in Nat
           /\ CeilSum(w, c, lev) \in Nat
           /\ \A t \in Merged(c), h \in Hosts :
                 samps[w][<<t, h, lev>>] > 0 => Sum(w, c, lev) > 0 /\ CeilSum(w, c, lev) > 0
  <1> DEFINE D == Merged(c) \X Hosts
             f == [x \in D |-> samps[w][<<x[1], x[2], lev>>]]
             g == [x \in D |-> Ceil(samps[w][<<x[1], x[2], lev>>], sperpx)]
  <1>1. IsFiniteSet(D) /\ Merged(c) \subseteq Buckets /\ sperpx \in Nat \ {0}
    BY Drawn
  <1>2. \A x \in D : f[x] \in Nat
    BY <1>1 DEF IInv, Stored
  <1>3. \A x \in D : g[x] = Ceil(f[x], sperpx)
    OBVIOUS
  <1>4. Sum(w, c, lev) = SumFunctionOnSet(f, D) /\ CeilSum(w, c, lev) = SumFunctionOnSet(g, D)
    BY DEF Sum, CeilSum, SumFunction
  <1>5. \A t \in Merged(c), h \in Hosts :
           <<t, h>> \in D /\ f[<<t, h>>] = samps[w][<<t, h, lev>>]
    OBVIOUS
  <1> HIDE DEF D, f, g
  <1>6. \A x \in D : g[x] \in Nat /\ (f[x] > 0 => g[x] >= 1)
    BY <1>1, <1>2, <1>3, CeilBounds
  <1>7. SumFunctionOnSet(f, D) \in Nat /\ SumFunctionOnSet(g, D) \in Nat
    BY <1>1, <1>2, <1>6, SumNat
  <1>8. \A x \in D : f[x] <= SumFunctionOnSet(f, D) /\ g[x] <= SumFunctionOnSet(g, D)
    BY <1>1, <1>2, <1>6, SumMember
  <1>9. ASSUME NEW x \in D, f[x] > 0
        PROVE  SumFunctionOnSet(f, D) > 0 /\ SumFunctionOnSet(g, D) > 0
    BY <1>2, <1>6, <1>7, <1>8, <1>9
  <1> QED BY <1>4, <1>5, <1>7, <1>9

\* The scale of a picture covers all its values when roundup() covers the
\* largest.
LEMMA ScaleIs ==
    ASSUME NEW D, IsFiniteSet(D), D # {}, NEW f, \A x \in D : f[x] \in Nat,
           NEW d \in Nat \ {0}
    PROVE  LET s == roundup(Max({f[x] : x \in D}), d)
           IN  /\ s \in Nat \ {0}
               /\ (\A x \in D : f[x] <= Decade[BASES + 1] * d) => \A x \in D : Covers(s * d, f[x])
  <1> DEFINE m == Max({f[x] : x \in D})
             s == roundup(m, d)
  <1>1. (\E x \in D : m = f[x]) /\ \A x \in D : f[x] <= m
    BY MaxIs
  <1> HIDE DEF m
  <1>2. m \in Nat
    BY <1>1
  <1>3. s \in Nat \ {0} /\ (m <= Decade[BASES + 1] * d => Covers(s * d, m))
    BY <1>2, RoundupIs
  <1> HIDE DEF s
  <1>4. ASSUME \A x \in D : f[x] <= Decade[BASES + 1] * d, NEW x \in D
        PROVE  Covers(s * d, f[x])
    <2>1. Covers(s * d, m)
      BY <1>1, <1>3, <1>4
    <2>2. s * d \in Nat /\ f[x] \in Nat /\ f[x] <= m
      BY <1>1, <1>3
    <2> DEFINE t == s * d
    <2>3. t \in Nat /\ t <= t /\ Covers(t, m)
      BY <2>1, <2>2
    <2> HIDE DEF t
    <2>4. Covers(t, f[x])
      BY <1>2, <2>2, <2>3, CoversLess
    <2> QED BY <2>4 DEF t
  <1> QED BY <1>3, <1>4 DEF s, m

\* The scale of update_top() covers every host.
LEMMA TopScaleIs ==
    ASSUME IInv, NEW w \in Wins
    PROVE  /\ TopScale(w) \in Nat \ {0}
           /\ InScale => \A h \in Hosts : Covers(TopScale(w) * Per, At(w, h, 0) + At(w, h, 1))
  <1> DEFINE f == [h \in Hosts |-> At(w, h, 0) + At(w, h, 1)]
             D == Hosts
             d == Per
  <1>1. \A h \in D : f[h] = At(w, h, 0) + At(w, h, 1) /\ f[h] \in Nat
    BY AtIs
  <1>2. TopScale(w) = roundup(Max({f[h] : h \in D}), d)
    <2>1. {f[h] : h \in D} = {At(w, h, 0) + At(w, h, 1) : h \in Hosts}
      OBVIOUS
    <2> QED BY <2>1 DEF TopScale
  <1>3. IsFiniteSet(D) /\ D # {} /\ d \in Nat \ {0}
    BY Drawn
  <1>4. InScale => \A h \in D : f[h] <= Decade[BASES + 1] * d
    BY <1>1 DEF InScale
  <1> HIDE DEF f, D, d
  <1>5. /\ TopScale(w) \in Nat \ {0}
        /\ (\A h \in D : f[h] <= Decade[BASES + 1] * d) =>
              \A h \in D : Covers(TopScale(w) * d, f[h])
    BY <1>1, <1>2, <1>3, ScaleIs
  <1>6. InScale => \A h \in D : Covers(TopScale(w) * d, f[h])
    BY <1>4, <1>5
  <1> QED BY <1>1, <1>5, <1>6 DEF D, d

\* What a host has in all windows is a number.
LEMMA HostTotalIs ==
    ASSUME IInv, NEW h \in Hosts
    PROVE  HostTotal(h) \in Nat
  <1> DEFINE f == [k \in Traffic |-> At(k, h, 0) + At(k, h, 1)]
  <1>1. \A k \in Traffic : f[k] \in Nat
    BY AreasHold, AtIs DEF Areas
  <1>2. HostTotal(h) = SumFunctionOnSet(f, Traffic)
    BY DEF HostTotal, SumFunction
  <1> HIDE DEF f
  <1> QED BY <1>1, <1>2, AreasHold, SumNat DEF Areas

\* The scale of update_multi_top() covers every host.
LEMMA MultiTopScaleIs ==
    ASSUME IInv
    PROVE  /\ MultiTopScale \in Nat \ {0}
           /\ InScale => \A h \in Hosts : Covers(MultiTopScale * Per, HostTotal(h))
  <1> DEFINE f == [h \in Hosts |-> HostTotal(h)]
             D == Hosts
             d == Per
  <1>1. \A h \in D : f[h] = HostTotal(h) /\ f[h] \in Nat
    BY HostTotalIs
  <1>2. MultiTopScale = roundup(Max({f[h] : h \in D}), d)
    <2>1. {f[h] : h \in D} = {HostTotal(h) : h \in Hosts}
      OBVIOUS
    <2> QED BY <2>1 DEF MultiTopScale
  <1>3. IsFiniteSet(D) /\ D # {} /\ d \in Nat \ {0}
    BY Drawn
  <1>4. InScale => \A h \in D : f[h] <= Decade[BASES + 1] * d
    BY <1>1 DEF InScale
  <1> HIDE DEF f, D, d
  <1>5. /\ MultiTopScale \in Nat \ {0}
        /\ (\A h \in D : f[h] <= Decade[BASES + 1] * d) =>
              \A h \in D : Covers(MultiTopScale * d, f[h])
    BY <1>1, <1>2, <1>3, ScaleIs
  <1>6. InScale => \A h \in D : Covers(MultiTopScale * d, f[h])
    BY <1>4, <1>5
  <1> QED BY <1>1, <1>5, <1>6 DEF D, d

\* The scale of update_bottom() covers every column.
LEMMA BottomScaleIs ==
    ASSUME IInv, NEW w \in Wins
    PROVE  /\ BottomScale(w) \in Nat \ {0}
           /\ InScale => \A c \in Columns :
                 Covers(BottomScale(w) * (Per * Share(w, c)), Sum(w, c, 0) + Sum(w, c, 1))
  <1> DEFINE n(c) == Sum(w, c, 0) + Sum(w, c, 1)
             d(c) == Per * Share(w, c)
             f == [c \in Columns |-> roundup(n(c), d(c))]
             m == BottomScale(w)
  <1>1. ASSUME NEW c \in Columns PROVE n(c) \in Nat /\ d(c) \in Nat \ {0}
    <2>1. Sum(w, c, 0) \in Nat /\ Sum(w, c, 1) \in Nat
      BY SumIs
    <2> QED BY <2>1, ShareIs
  <1>2. ASSUME NEW c \in Columns
        PROVE  f[c] \in Nat \ {0} /\ (InScale => Covers(f[c] * d(c), n(c)))
    <2>1. InScale => n(c) <= Decade[BASES + 1] * d(c)
      BY DEF InScale
    <2> HIDE DEF n, d
    <2> QED BY <1>1, <2>1, RoundupIs
  <1>3. m = Max({f[c] : c \in Columns})
    <2>1. {f[c] : c \in Columns} =
            {roundup(Sum(w, c, 0) + Sum(w, c, 1), Per * Share(w, c)) : c \in Columns}
      OBVIOUS
    <2> QED BY <2>1 DEF BottomScale
  <1>4. IsFiniteSet(Columns) /\ Columns # {}
    BY Drawn
  <1> HIDE DEF f, m
  <1>5. (\E c \in Columns : m = f[c]) /\ \A c \in Columns : f[c] <= m
    BY <1>2, <1>3, <1>4, MaxIs
  <1>6. m \in Nat \ {0}
    BY <1>2, <1>5
  <1>7. ASSUME InScale, NEW c \in Columns PROVE Covers(m * d(c), n(c))
    <2> DEFINE x == n(c)
               y == d(c)
               z == f[c]
    <2>1. x \in Nat /\ y \in Nat \ {0} /\ z \in Nat /\ Covers(z * y, x) /\ z <= m
      BY <1>1, <1>2, <1>5, <1>7
    <2> HIDE DEF x, y, z
    <2>2. y * z <= y * m
      BY <1>6, <2>1, Monotone
    <2> DEFINE zy == z * y
               my == m * y
    <2>3. zy \in Nat /\ my \in Nat /\ zy <= my /\ x <= x /\ Covers(zy, x)
      BY <1>6, <2>1, <2>2
    <2> HIDE DEF zy, my
    <2>4. Covers(m * y, x)
      BY <2>1, <2>3, CoversLess DEF my
    <2> QED BY <2>4 DEF x, y
  <1> QED BY <1>6, <1>7 DEF m

\* What a column has in all windows is a number.
LEMMA ColumnTotalIs ==
    ASSUME IInv, NEW c \in Columns
    PROVE  ColumnTotal(c) \in Nat
  <1> DEFINE f == [k \in Traffic |-> CeilSum(k, c, 0) + CeilSum(k, c, 1)]
  <1>1. \A k \in Traffic : f[k] \in Nat
    <2>1. \A k \in Traffic : CeilSum(k, c, 0) \in Nat /\ CeilSum(k, c, 1) \in Nat
      BY AreasHold, SumIs DEF Areas
    <2> QED BY <2>1
  <1>2. ColumnTotal(c) = SumFunctionOnSet(f, Traffic)
    BY DEF ColumnTotal, SumFunction
  <1> HIDE DEF f
  <1> QED BY <1>1, <1>2, AreasHold, SumNat DEF Areas

\* The scale of update_multi_bottom() covers every column.
LEMMA MultiBottomScaleIs ==
    ASSUME IInv
    PROVE  /\ MultiBottomScale \in Nat \ {0}
           /\ InScale => \A c \in Columns : Covers(MultiBottomScale * Per, ColumnTotal(c))
  <1> DEFINE f == [c \in Columns |-> ColumnTotal(c)]
             D == Columns
             d == 1
             m == MultiBottomScale
  <1>1. \A c \in D : f[c] = ColumnTotal(c) /\ f[c] \in Nat
    BY ColumnTotalIs
  <1>2. m = roundup(Max({f[c] : c \in D}), d)
    <2>1. {f[c] : c \in D} = {ColumnTotal(c) : c \in Columns}
      OBVIOUS
    <2> QED BY <2>1 DEF MultiBottomScale
  <1>3. IsFiniteSet(D) /\ D # {} /\ d \in Nat \ {0}
    BY Drawn
  <1>4. InScale => \A c \in D : f[c] <= Decade[BASES + 1] * d
    <2>1. Decade[BASES + 1] \in Nat
      BY GraphAssumption, DecadeIs
    <2> QED BY <1>1, <2>1 DEF InScale
  <1>5. /\ m \in Nat \ {0}
        /\ InScale => \A c \in D : Covers(m * d, f[c])
    <2> HIDE DEF f, D, d, m
    <2> QED BY <1>1, <1>2, <1>3, <1>4, ScaleIs
  <1>6. m <= m * Per /\ m * d = m /\ m * Per \in Nat
    <2>1. Per \in Nat \ {0}
      BY Drawn
    <2> HIDE DEF m
    <2>2. m * 1 <= m * Per
      BY <1>5, <2>1, Monotone
    <2> QED BY <1>5, <2>1, <2>2
  <1>7. ASSUME InScale, NEW c \in Columns PROVE Covers(m * Per, ColumnTotal(c))
    <2> DEFINE x == ColumnTotal(c)
               mp == m * Per
    <2>1. x \in Nat /\ Covers(m, x) /\ mp \in Nat /\ m <= mp /\ x <= x /\ m \in Nat
      BY <1>1, <1>5, <1>6, <1>7
    <2> HIDE DEF m, x, mp
    <2>2. Covers(mp, x)
      BY <2>1, CoversLess
    <2> QED BY <2>2 DEF mp, x
  <1> QED BY <1>5, <1>7 DEF m

-----------------------------------------------------------------------------
(* The bars.                                                               *)

Inside(b, first, last) == first <= b.from /\ b.from <= b.to /\ b.to <= last

\* The rows of a bar: at least one when there is something to show, and one
\* more than the area has, at most, when the scale covers it.
LEMMA RowsAre ==
    ASSUME NEW r \in Nat \ {0}, r < Height, NEW s \in Nat \ {0}, NEW v \in Nat
    PROVE  /\ CeilComputed(v * r, s) \in Nat
           /\ v > 0 => CeilComputed(v * r, s) >= 1
           /\ Covers(s, v) => CeilComputed(v * r, s) <= r + 1
  <1> DEFINE n == v * r
             k == CeilComputed(v * r, s)
             D == s * UNIT
  <1>1. n \in Nat /\ (v > 0 => n > 0) /\ k = CeilComputed(n, s)
    OBVIOUS
  <1>2. Covers(s, v) => n * (UNIT + 1) < D * (r + 1)
    BY Stretch
  <1> HIDE DEF n, k
  <1>3. /\ D \in Nat \ {0} /\ k \in Nat /\ (n > 0 => k >= 1)
        /\ D * k <= n * (UNIT + 1) + (D - 1)
    BY <1>1, CeilComputedIs
  <1>4. ASSUME Covers(s, v) PROVE k <= r + 1
    <2> HIDE DEF D
    <2> DEFINE Dk == D * k
               x == n * (UNIT + 1)
               y == D * (r + 1)
    <2>1. Dk \in Int /\ x \in Int /\ y \in Int /\ Dk <= x + (D - 1) /\ x < y
      BY <1>1, <1>2, <1>3, <1>4, UnitIs
    <2>2. D * (r + 2) = y + D
      BY <1>3
    <2> HIDE DEF Dk, x, y
    <2>3. Dk < y + D
      BY <1>3, <2>1
    <2>4. D * k < D * (r + 2)
      BY <2>2, <2>3 DEF Dk
    <2>5. k < r + 2
      BY <1>3, <2>4, Cancel
    <2> QED BY <1>3, <2>5
  <1> QED BY <1>1, <1>3, <1>4 DEF k

\* The largest of three numbers.
LEMMA MaxOfThree ==
    ASSUME NEW x \in Nat, NEW y \in Nat, NEW z \in Nat
    PROVE  LET m == Max({x, y, z})
           IN  m \in {x, y, z} /\ x <= m /\ y <= m /\ z <= m
  <1> DEFINE S == {x, y, z}
  <1>1. \E m \in S : \A n \in S : m >= n
    <2>1. CASE x >= y /\ x >= z
      BY <2>1
    <2>2. CASE y >= x /\ y >= z
      BY <2>2
    <2>3. CASE z >= x /\ z >= y
      BY <2>3
    <2> QED BY <2>1, <2>2, <2>3
  <1>2. Max(S) \in S /\ \A n \in S : Max(S) >= n
    <2> HIDE DEF S
    <2> QED BY <1>1 DEF Max
  <1> QED BY <1>2

\* The bars of update_top() stay inside.
LEMMA TopFits ==
    ASSUME IInv, InScale, NEW w \in Wins, NEW h \in Hosts, NEW b \in update_top(w)[h]
    PROVE  Inside(b, M_TOP + 1, Base)
  <1> DEFINE s == TopScale(w) * Per
             a0 == At(w, h, 0)
             a1 == At(w, h, 1)
             r == drawh
             rows(v) == CeilComputed(v * r, s)
             both == Max({rows(a0 + a1), rows(a0), rows(a1)})
             top(lev) == (Base + 1) - (IF lev = 1 THEN both ELSE rows(a0))
  <1>1. s \in Nat \ {0} /\ a0 \in Nat /\ a1 \in Nat /\ Covers(s, a0 + a1)
    <2> DEFINE t == TopScale(w)
    <2>1. t \in Nat \ {0} /\ Per \in Nat \ {0} /\ Covers(t * Per, a0 + a1)
      BY TopScaleIs, Drawn
    <2> HIDE DEF t
    <2>2. t * Per \in Nat \ {0}
      BY <2>1
    <2> QED BY <2>1, <2>2, AtIs DEF t
  <1>2. /\ r \in Nat \ {0} /\ r < Height /\ Base = M_TOP + 1 + r /\ M_TOP \in Nat
    BY AreasHold DEF Areas
  <1>3. PICK lev \in {0, 1} :
          /\ At(w, h, lev) > 0
          /\ b = Bar(lev, w, lev, top(lev), top(lev) + rows(At(w, h, lev)) - 1)
    <2>1. b \in TopBars(w, h, TopScale(w))
      BY DEF update_top
    <2>2. TopBars(w, h, TopScale(w)) =
            {Bar(lev, w, lev, top(lev), top(lev) + rows(At(w, h, lev)) - 1) :
                lev \in {e \in {0, 1} : At(w, h, e) > 0}}
      BY DEF TopBars
    <2> HIDE DEF top, rows
    <2> QED BY <2>1, <2>2
  <1>4. b.from = top(lev) /\ b.to = top(lev) + rows(At(w, h, lev)) - 1
    <2> DEFINE x == top(lev)
               y == top(lev) + rows(At(w, h, lev)) - 1
    <2>1. b = Bar(lev, w, lev, x, y)
      BY <1>3
    <2> HIDE DEF x, y
    <2>2. b.from = x /\ b.to = y
      BY <2>1 DEF Bar
    <2> QED BY <2>2 DEF x, y
  <1>5. a0 + a1 \in Nat /\ Covers(s, a0) /\ Covers(s, a1)
    <2>1. s <= s /\ a0 <= a0 + a1 /\ a1 <= a0 + a1 /\ a0 + a1 \in Nat /\ s \in Nat
      BY <1>1
    <2> HIDE DEF s, a0, a1
    <2> QED BY <1>1, <2>1, CoversLess
  <1>6. /\ lev = 0 => a0 > 0 /\ b.from = (Base + 1) - rows(a0)
                     /\ b.to = (Base + 1) - rows(a0) + rows(a0) - 1
        /\ lev = 1 => a1 > 0 /\ b.from = (Base + 1) - both
                     /\ b.to = (Base + 1) - both + rows(a1) - 1
    <2> HIDE DEF rows, both
    <2> QED BY <1>3, <1>4
  <1> HIDE DEF s, a0, a1, r
  <1>7. /\ rows(a0) \in Nat /\ rows(a1) \in Nat /\ rows(a0 + a1) \in Nat
        /\ rows(a0) <= r + 1 /\ rows(a0 + a1) <= r + 1 /\ rows(a1) <= r + 1
        /\ a0 > 0 => rows(a0) >= 1
        /\ a1 > 0 => rows(a1) >= 1
    BY <1>1, <1>2, <1>5, RowsAre
  <1>8. both \in Nat /\ both <= r + 1 /\ rows(a1) <= both
    <2> HIDE DEF rows
    <2> QED BY <1>7, MaxOfThree
  <1> HIDE DEF rows, both
  <1>9. CASE lev = 0
    BY <1>2, <1>6, <1>7, <1>9 DEF Inside
  <1>10. CASE lev = 1
    BY <1>2, <1>6, <1>7, <1>8, <1>10 DEF Inside
  <1> QED BY <1>9, <1>10

\* A column of update_bottom(): the rows of the lower level and of both.
BottomRows(w, c, v) == CeilComputed(v * drawh, BottomScale(w) * (Per * Share(w, c)))
LowerRows(w, c) == BottomRows(w, c, Sum(w, c, 0))
BothRows(w, c) == Max({BottomRows(w, c, Sum(w, c, 0) + Sum(w, c, 1)), LowerRows(w, c)})

\* The two bars of such a column.
LEMMA BottomBars ==
    ASSUME IInv, NEW w \in Wins, NEW c \in Columns
    PROVE  LET ax == Sum(w, c, 0)
               bx == Sum(w, c, 1)
               lower == Bar(0, w, 0, Base - LowerRows(w, c), Base)
               upper == Bar(1, w, 1, Base - BothRows(w, c), Base - LowerRows(w, c))
           IN  /\ update_bottom(w)[c] = {x \in {lower, upper} :
                                           (x = lower /\ ax > 0) \/ (x = upper /\ bx > 0)}
               /\ lower # upper
  <1> DEFINE ax == Sum(w, c, 0)
             bx == Sum(w, c, 1)
             lower == Bar(0, w, 0, Base - LowerRows(w, c), Base)
             upper == Bar(1, w, 1, Base - BothRows(w, c), Base - LowerRows(w, c))
  <1>1. lower.order = 0 /\ upper.order = 1
    BY DEF Bar
  <1>2. lower # upper
    BY <1>1
  <1>3. update_bottom(w)[c] = (IF ax > 0 THEN {lower} ELSE {})
                                \union (IF bx > 0 THEN {upper} ELSE {})
    BY DEF update_bottom, LowerRows, BothRows, BottomRows
  <1> HIDE DEF lower, upper, ax, bx
  <1>4. update_bottom(w)[c] = {x \in {lower, upper} :
                                 (x = lower /\ ax > 0) \/ (x = upper /\ bx > 0)}
    BY <1>2, <1>3
  <1> QED BY <1>2, <1>4 DEF lower, upper, ax, bx

\* The numbers of such a column.
LEMMA BottomNumbers ==
    ASSUME IInv, NEW w \in Wins, NEW c \in Columns
    PROVE  /\ LowerRows(w, c) \in Nat /\ BothRows(w, c) \in Nat
           /\ LowerRows(w, c) <= BothRows(w, c)
           /\ Sum(w, c, 0) > 0 => LowerRows(w, c) >= 1
           /\ InScale => BothRows(w, c) <= drawh + 1
  <1> DEFINE s == BottomScale(w) * (Per * Share(w, c))
             ax == Sum(w, c, 0)
             bx == Sum(w, c, 1)
             r == drawh
             x == CeilComputed(ax * r, s)
             y == CeilComputed((ax + bx) * r, s)
  <1>1. ax \in Nat /\ bx \in Nat /\ r \in Nat \ {0} /\ r < Height
    BY SumIs, AreasHold DEF Areas
  <1>2. s \in Nat \ {0} /\ (InScale => Covers(s, ax + bx))
    <2> DEFINE m == BottomScale(w)
               d == Per * Share(w, c)
    <2>1. m \in Nat \ {0} /\ d \in Nat \ {0} /\ (InScale => Covers(m * d, ax + bx))
      BY BottomScaleIs, ShareIs
    <2> HIDE DEF m, d, ax, bx
    <2>2. m * d \in Nat \ {0}
      BY <2>1
    <2> QED BY <2>1, <2>2 DEF m, d
  <1>3. ax <= ax + bx /\ ax + bx \in Nat /\ s <= s /\ s \in Nat
    BY <1>1, <1>2
  <1>4. LowerRows(w, c) = x /\ BothRows(w, c) = Max({y, x})
    BY DEF LowerRows, BothRows, BottomRows
  <1> HIDE DEF s, ax, bx, r
  <1>5. InScale => Covers(s, ax)
    BY <1>1, <1>2, <1>3, CoversLess
  <1>6. /\ x \in Nat /\ y \in Nat /\ (ax > 0 => x >= 1)
        /\ InScale => x <= r + 1 /\ y <= r + 1
    BY <1>1, <1>2, <1>3, <1>5, RowsAre
  <1> HIDE DEF x, y
  <1>7. {y, x} = {y, x, x}
    OBVIOUS
  <1>8. Max({y, x}) \in {y, x} /\ x <= Max({y, x})
    BY <1>6, <1>7, MaxOfThree
  <1> QED BY <1>4, <1>6, <1>8 DEF ax, r

\* The bars of update_bottom() stay inside, but for the frame's row.
LEMMA BottomFits ==
    ASSUME IInv, InScale, NEW w \in Wins, NEW c \in Columns, NEW b \in update_bottom(w)[c]
    PROVE  Inside(b, M_TOP, Base)
  <1> DEFINE x == LowerRows(w, c)
             y == BothRows(w, c)
             lower == Bar(0, w, 0, Base - x, Base)
             upper == Bar(1, w, 1, Base - y, Base - x)
  <1>1. b \in {lower, upper}
    BY BottomBars
  <1>2. x \in Nat /\ y \in Nat /\ x <= y /\ y <= drawh + 1
    BY BottomNumbers
  <1>3. Base = M_TOP + 1 + drawh /\ M_TOP \in Nat /\ drawh \in Nat
    BY AreasHold DEF Areas
  <1> HIDE DEF x, y
  <1>4. b.from \in {Base - x, Base - y} /\ b.to \in {Base, Base - x}
        /\ (b.from = Base - x => b.to = Base \/ x = y)
    BY <1>1, <1>2, <1>3 DEF Bar
  <1> QED BY <1>2, <1>3, <1>4 DEF Inside

\* The bars of the aggregate's upper area: those below a bar, and the bar, take
\* no more than the rows the scale has and one for each window.
LEMMA MultiTopFits ==
    ASSUME IInv, InScale, NEW h \in Hosts, NEW b \in update_multi_top[h]
    PROVE  Inside(b, M_TOP + 1, Base)
  <1> DEFINE lmax == MultiTopScale
             s == lmax * Per
             r == drawh - delta
             n == Cardinality(Traffic)
             top(k, lev) == StackTop(k, h, lev, lmax)
  <1>1. s \in Nat \ {0} /\ Covers(s, HostTotal(h))
    <2>1. lmax \in Nat \ {0} /\ Per \in Nat \ {0}
      BY MultiTopScaleIs, Drawn
    <2> HIDE DEF lmax
    <2>2. lmax * Per \in Nat \ {0}
      BY <2>1
    <2> QED BY <2>2, MultiTopScaleIs DEF lmax
  <1>2. /\ r \in Nat \ {0} /\ r < Height /\ n \in Nat /\ Base = M_TOP + 2 + r + n /\ M_TOP \in Nat
        /\ IsFiniteSet(Traffic) /\ Traffic \subseteq Wins
    BY AreasHold DEF Areas
  <1>3. PICK p \in Traffic \X {0, 1} :
          /\ At(p[1], h, p[2]) > 0
          /\ b = Bar(p[2] * NWINS + p[1], p[1], p[2], top(p[1], p[2]),
                     top(p[1], p[2]) + MultiRows(At(p[1], h, p[2]), lmax) - 1)
    <2>1. b \in MultiTopBars(h, lmax)
      BY DEF update_multi_top
    <2>2. MultiTopBars(h, lmax) =
            {Bar(p[2] * NWINS + p[1], p[1], p[2], top(p[1], p[2]),
                 top(p[1], p[2]) + MultiRows(At(p[1], h, p[2]), lmax) - 1) :
                p \in {d \in Traffic \X {0, 1} : At(d[1], h, d[2]) > 0}}
      BY DEF MultiTopBars
    <2> HIDE DEF top, lmax
    <2> QED BY <2>1, <2>2
  <1> DEFINE k == p[1]
             lev == p[2]
             f == [j \in Traffic |-> At(j, h, lev)]
             t == [j \in Traffic |-> At(j, h, 0) + At(j, h, 1)]
             g == [j \in Traffic |-> MultiRows(At(j, h, lev), lmax)]
             K == k .. NWINS - 1
             e == [j \in K |-> MultiRows(At(j, h, lev), lmax)]
  <1>4. k \in Traffic /\ lev \in {0, 1}
    OBVIOUS
  <1>5. b.from = top(k, lev) /\ b.to = top(k, lev) + MultiRows(At(k, h, lev), lmax) - 1
    <2> DEFINE x == top(k, lev)
               y == top(k, lev) + MultiRows(At(k, h, lev), lmax) - 1
               o == lev * NWINS + k
    <2>1. b = Bar(o, k, lev, x, y)
      BY <1>3
    <2> HIDE DEF x, y, o
    <2>2. b.from = x /\ b.to = y
      BY <2>1 DEF Bar
    <2> QED BY <2>2 DEF x, y
  <1>6. /\ \A j \in Traffic : f[j] \in Nat /\ t[j] \in Nat /\ f[j] <= t[j]
        /\ \A j \in Traffic : g[j] = CeilComputed(f[j] * r, s)
        /\ f[k] > 0
    <2>1. \A j \in Traffic : At(j, h, 0) \in Nat /\ At(j, h, 1) \in Nat
      BY <1>2, AtIs
    <2>2. \A j \in Traffic : f[j] \in Nat /\ t[j] \in Nat /\ f[j] <= t[j]
      BY <1>4, <2>1
    <2>3. \A j \in Traffic : g[j] = CeilComputed(f[j] * r, s)
      BY DEF MultiRows
    <2> QED BY <1>3, <1>4, <2>2, <2>3
  <1>7. SumFunctionOnSet(t, Traffic) = HostTotal(h)
    BY DEF HostTotal, SumFunction
  <1>8. top(k, lev) = Base - SumFunctionOnSet(e, K)
    BY DEF StackTop, SumFunction
  <1>9. /\ K \subseteq Traffic /\ k \in K
        /\ \A j \in K : e[j] = g[j]
        /\ g[k] = MultiRows(At(k, h, lev), lmax)
    <2>1. k \in W_OTHER .. NWINS - 1 /\ W_OTHER \in Nat /\ NWINS \in Nat
      BY <1>4, AreasHold, GraphAssumption DEF Traffic, Areas
    <2>2. K \subseteq W_OTHER .. NWINS - 1 /\ k \in K
      BY <2>1
    <2> QED BY <1>4, <2>2 DEF Traffic
  <1> HIDE DEF k, lev, f, t, g, e, K, s, r, n, lmax
  <1>10. /\ \A j \in Traffic : g[j] \in Nat
         /\ SumFunctionOnSet(g, Traffic) \in Nat
         /\ SumFunctionOnSet(g, Traffic) <= r + n
    <2>1. SumFunctionOnSet(f, Traffic) <= HostTotal(h)
      BY <1>2, <1>6, <1>7, SumLeq
    <2>2. SumFunctionOnSet(f, Traffic) \in Nat /\ HostTotal(h) \in Nat
      BY <1>2, <1>6, SumNat, HostTotalIs
    <2>3. Covers(s, SumFunctionOnSet(f, Traffic))
      <3>1. s \in Nat /\ s <= s
        BY <1>1
      <3> QED BY <1>1, <2>1, <2>2, <3>1, CoversLess
    <2> QED BY <1>1, <1>2, <1>6, <2>3, CeilMany DEF n
  <1>11. /\ SumFunctionOnSet(e, K) = SumFunctionOnSet(g, K)
         /\ SumFunctionOnSet(g, K) \in Nat
         /\ SumFunctionOnSet(g, K) <= SumFunctionOnSet(g, Traffic)
         /\ g[k] <= SumFunctionOnSet(g, K)
    <2>1. IsFiniteSet(K)
      BY <1>2, <1>9, FS_Subset
    <2> QED BY <1>2, <1>9, <1>10, <2>1, SumSame, SumNat, SumSubset, SumMember
  <1>12. g[k] >= 1
    BY <1>1, <1>2, <1>4, <1>6, RowsAre
  <1>13. b.from = Base - SumFunctionOnSet(g, K) /\ b.to = b.from + g[k] - 1
    BY <1>5, <1>8, <1>9, <1>11
  <1> QED BY <1>2, <1>4, <1>10, <1>11, <1>12, <1>13 DEF Inside

\* The rows of a window in a column of update_multi_bottom(), and where it
\* starts: the windows lie one below the other, from the top of the area on,
\* and run out of it by a row for each window at most.
LEMMA StackIs ==
    ASSUME IInv, NEW c \in Columns
    PROVE  LET lmax == MultiBottomScale
               rows(k, lev) == MultiRows(CeilSum(k, c, lev), lmax)
               top(k) == WindowTop(k, c, lmax)
           IN  /\ \A k \in Traffic, lev \in {0, 1} :
                     rows(k, lev) \in Nat /\ (CeilSum(k, c, lev) > 0 => rows(k, lev) >= 1)
               /\ \A k \in Traffic : top(k) \in Int
               /\ \A k, m \in Traffic : k < m => top(k) + (rows(k, 0) + rows(k, 1)) <= top(m)
               /\ InScale => \A k \in Traffic :
                     /\ M_TOP < top(k)
                     /\ top(k) + (rows(k, 0) + rows(k, 1)) <= Base + 2 * Cardinality(Traffic)
  <1> DEFINE lmax == MultiBottomScale
             s == lmax * Per
             r == drawh - delta
             n == Cardinality(Traffic)
             rows(k, lev) == MultiRows(CeilSum(k, c, lev), lmax)
             top(k) == WindowTop(k, c, lmax)
             Above(k) == W_OTHER .. k - 1
             t == [j \in Traffic |-> CeilSum(j, c, 0) + CeilSum(j, c, 1)]
             g == [j \in Traffic |-> MultiRows(CeilSum(j, c, 0) + CeilSum(j, c, 1), lmax)]
             e == [j \in Traffic |-> rows(j, 0) + rows(j, 1)]
             a(k) == [j \in Above(k) |-> rows(j, 0) + rows(j, 1)]
             G == SumFunctionOnSet(g, Traffic)
             E(k) == SumFunctionOnSet(e, Above(k))
  <1>1. s \in Nat \ {0} /\ (InScale => Covers(s, ColumnTotal(c)))
    <2>1. lmax \in Nat \ {0} /\ Per \in Nat \ {0}
      BY MultiBottomScaleIs, Drawn
    <2> HIDE DEF lmax
    <2>2. lmax * Per \in Nat \ {0}
      BY <2>1
    <2> QED BY <2>2, MultiBottomScaleIs DEF lmax
  <1>2. /\ r \in Nat \ {0} /\ r < Height /\ n \in Nat /\ Base = M_TOP + 2 + r + n /\ M_TOP \in Nat
        /\ IsFiniteSet(Traffic) /\ Traffic \subseteq Wins
    BY AreasHold DEF Areas
  <1>3. \A k \in Traffic, lev \in {0, 1} : CeilSum(k, c, lev) \in Nat
    BY <1>2, SumIs
  <1>4. ASSUME NEW k \in Traffic, NEW lev \in {0, 1}
        PROVE  rows(k, lev) \in Nat /\ (CeilSum(k, c, lev) > 0 => rows(k, lev) >= 1)
    <2> DEFINE v == CeilSum(k, c, lev)
    <2>1. v \in Nat /\ rows(k, lev) = CeilComputed(v * r, s)
      BY <1>3 DEF MultiRows
    <2> HIDE DEF v, rows, r, s
    <2>2. rows(k, lev) \in Nat /\ (v > 0 => rows(k, lev) >= 1)
      BY <1>1, <1>2, <2>1, RowsAre
    <2> QED BY <2>2 DEF v
  <1>5. ASSUME NEW k \in Traffic PROVE t[k] \in Nat /\ g[k] = CeilComputed(t[k] * r, s) /\ g[k] \in Nat
    <2>1. t[k] \in Nat
      BY <1>3
    <2>2. g[k] = CeilComputed(t[k] * r, s)
      BY DEF MultiRows
    <2> DEFINE v == t[k]
    <2>3. v \in Nat
      BY <2>1
    <2> HIDE DEF v, t, g, r, s
    <2>4. CeilComputed(v * r, s) \in Nat
      BY <1>1, <1>2, <2>3, RowsAre
    <2> QED BY <2>1, <2>2, <2>4 DEF v
  <1>6. ASSUME NEW k \in Traffic
        PROVE  e[k] \in Nat /\ (Covers(s, t[k]) => e[k] <= g[k] + 2)
    <2> DEFINE u == CeilSum(k, c, 0)
               v == CeilSum(k, c, 1)
    <2>1. u \in Nat /\ v \in Nat
      BY <1>3
    <2>2. /\ e[k] = CeilComputed(u * r, s) + CeilComputed(v * r, s)
          /\ g[k] = CeilComputed((u + v) * r, s) /\ t[k] = u + v
      BY DEF MultiRows
    <2> HIDE DEF u, v, e, g, t, r, s
    <2>3. CeilComputed(u * r, s) \in Nat /\ CeilComputed(v * r, s) \in Nat
      BY <1>1, <1>2, <2>1, RowsAre
    <2>4. Covers(s, u + v) =>
            CeilComputed(u * r, s) + CeilComputed(v * r, s) <= CeilComputed((u + v) * r, s) + 2
      BY <1>1, <1>2, <2>1, CeilTwo
    <2> QED BY <2>2, <2>3, <2>4
  <1>7. ASSUME NEW k \in Traffic
        PROVE  /\ Above(k) \subseteq Traffic /\ k \notin Above(k)
               /\ \A m \in Traffic : k < m => Above(k) \union {k} \subseteq Above(m)
    <2>1. k \in W_OTHER .. NWINS - 1 /\ W_OTHER \in Nat /\ NWINS \in Nat
      BY AreasHold, GraphAssumption DEF Traffic, Areas
    <2>2. Above(k) \subseteq Traffic /\ k \notin Above(k)
      BY <2>1 DEF Traffic
    <2>3. ASSUME NEW m \in Traffic, k < m PROVE Above(k) \union {k} \subseteq Above(m)
      <3>1. m \in Nat
        BY <2>1 DEF Traffic
      <3> QED BY <2>1, <2>3, <3>1
    <2> QED BY <2>2, <2>3
  <1>8. ASSUME NEW k \in Traffic PROVE top(k) = (Base - G) + SumFunctionOnSet(a(k), Above(k))
    BY DEF WindowTop, SumFunction
  <1>9. ASSUME NEW k \in Traffic, NEW j \in Above(k) PROVE a(k)[j] = e[j]
    BY <1>7, <1>9
  <1>10. SumFunctionOnSet(t, Traffic) = ColumnTotal(c)
    BY DEF ColumnTotal, SumFunction
  <1>11. \A k \in Traffic : e[k] = rows(k, 0) + rows(k, 1)
    OBVIOUS
  <1> HIDE DEF lmax, s, r, n, rows, top, Above, t, g, e, a
  <1>12. G \in Nat /\ (InScale => G <= r + n)
    <2>1. InScale => Covers(s, SumFunctionOnSet(t, Traffic))
      BY <1>1, <1>10
    <2>2. G \in Nat
      BY <1>2, <1>5, SumNat
    <2> QED BY <1>1, <1>2, <1>5, <2>1, <2>2, CeilMany DEF n
  <1>13. /\ SumFunctionOnSet(e, Traffic) \in Nat
         /\ InScale => SumFunctionOnSet(e, Traffic) <= G + 2 * n
    <2>1. SumFunctionOnSet(e, Traffic) \in Nat
      BY <1>2, <1>6, SumNat
    <2>2. ASSUME InScale, NEW j \in Traffic PROVE Covers(s, t[j])
      <3> DEFINE T == SumFunctionOnSet(t, Traffic)
      <3>1. T \in Nat /\ t[j] \in Nat /\ t[j] <= T
        BY <1>2, <1>5, SumNat, SumMember
      <3>2. s \in Nat /\ s <= s /\ Covers(s, T)
        BY <1>1, <1>10, <2>2
      <3> HIDE DEF T
      <3> QED BY <3>1, <3>2, CoversLess
    <2> DEFINE one == 1
               two == 2
    <2>3. ASSUME InScale PROVE one * SumFunctionOnSet(e, Traffic) <= one * G + two * n
      <3>1. one \in Int /\ two \in Int
        OBVIOUS
      <3>2. \A j \in Traffic : one * e[j] <= one * g[j] + two
        BY <1>5, <1>6, <2>2, <2>3
      <3>3. \A j \in Traffic : e[j] \in Int /\ g[j] \in Int
        BY <1>5, <1>6
      <3> HIDE DEF one, two
      <3> QED BY <1>2, <3>1, <3>2, <3>3, SumLinear DEF n
    <2> QED BY <1>2, <1>12, <2>1, <2>3
  <1>14. ASSUME NEW k \in Traffic
         PROVE  /\ top(k) = (Base - G) + E(k) /\ E(k) \in Nat
                /\ SumFunctionOnSet(e, Above(k) \union {k}) = e[k] + E(k)
    <2>1. IsFiniteSet(Above(k)) /\ \A j \in Above(k) : e[j] \in Nat
      BY <1>2, <1>6, <1>7, FS_Subset
    <2>2. SumFunctionOnSet(a(k), Above(k)) = E(k)
      BY <1>9, <2>1, SumSame
    <2>3. SumFunctionOnSet(e, Above(k) \union {k}) = e[k] + E(k)
      BY <1>2, <1>6, <1>7, SumAdd
    <2>4. E(k) \in Nat
      BY <2>1, SumNat
    <2> QED BY <1>8, <2>2, <2>3, <2>4
  <1> HIDE DEF G, E
  <1>15. Base \in Int
    BY <1>2
  <1>16. ASSUME NEW k \in Traffic, NEW m \in Traffic, k < m
         PROVE  top(k) + e[k] <= top(m)
    <2>1. IsFiniteSet(Above(m)) /\ \A j \in Above(m) : e[j] \in Nat
      BY <1>2, <1>6, <1>7, FS_Subset
    <2>2. Above(k) \union {k} \in SUBSET Above(m)
      BY <1>7, <1>16
    <2>3. SumFunctionOnSet(e, Above(k) \union {k}) <= E(m)
      BY <2>1, <2>2, SumSubset DEF E
    <2>4. e[k] + E(k) <= E(m)
      BY <1>14, <2>3
    <2>5. /\ top(k) = (Base - G) + E(k) /\ top(m) = (Base - G) + E(m)
          /\ E(k) \in Nat /\ E(m) \in Nat /\ e[k] \in Nat /\ G \in Nat
      BY <1>6, <1>12, <1>14
    <2> QED BY <1>15, <2>4, <2>5
  <1>17. ASSUME InScale, NEW k \in Traffic
         PROVE  M_TOP < top(k) /\ top(k) + e[k] <= Base + 2 * n
    <2>1. Above(k) \union {k} \in SUBSET Traffic
      BY <1>7
    <2>2. SumFunctionOnSet(e, Above(k) \union {k}) <= SumFunctionOnSet(e, Traffic)
      BY <1>2, <1>6, <2>1, SumSubset
    <2>3. /\ top(k) = (Base - G) + E(k) /\ E(k) \in Nat /\ e[k] \in Nat
          /\ G \in Nat /\ G <= r + n
      BY <1>6, <1>12, <1>14, <1>17
    <2>4. e[k] + E(k) <= SumFunctionOnSet(e, Traffic)
      BY <1>14, <2>2
    <2>5. e[k] + E(k) <= G + 2 * n
      BY <1>2, <1>13, <1>17, <2>3, <2>4
    <2> QED BY <1>2, <2>3, <2>5
  <1>18. \A k \in Traffic : top(k) \in Int
    <2>1. ASSUME NEW k \in Traffic PROVE top(k) \in Int
      <3>1. top(k) = (Base - G) + E(k) /\ E(k) \in Nat
        BY <1>14
      <3> QED BY <1>12, <1>15, <3>1
    <2> QED BY <2>1
  <1>19. /\ \A k, m \in Traffic : k < m => top(k) + (rows(k, 0) + rows(k, 1)) <= top(m)
         /\ InScale => \A k \in Traffic :
               M_TOP < top(k) /\ top(k) + (rows(k, 0) + rows(k, 1)) <= Base + 2 * n
    BY <1>11, <1>16, <1>17
  <1> QED BY <1>4, <1>18, <1>19 DEF lmax, rows, top, n

\* A line of update_multi_bottom(): window k and its level in column c.
LineRows(c, k, lev) == MultiRows(CeilSum(k, c, lev), MultiBottomScale)
LineFrom(c, k, lev) ==
    WindowTop(k, c, MultiBottomScale) + (IF lev = 1 THEN LineRows(c, k, 0) ELSE 0)
LineTo(c, k, lev) == LineEnd(LineFrom(c, k, lev), CeilSum(k, c, lev), MultiBottomScale)
Line(c, k, lev) == Bar(2 * k + lev, k, lev, LineFrom(c, k, lev), LineTo(c, k, lev))

\* A line ends after the rows it stands for, or before.
LEMMA LineEndIs ==
    ASSUME IInv, NEW c \in Columns, NEW k \in Traffic, NEW lev \in {0, 1},
           NEW x \in Int, LineRows(c, k, lev) \in Nat
    PROVE  LET y == LineEnd(x, CeilSum(k, c, lev), MultiBottomScale)
           IN  y \in Int /\ x <= y /\ y <= x + LineRows(c, k, lev)
  <1> DEFINE v == CeilSum(k, c, lev)
             s == MultiBottomScale * Per
             r == drawh - delta
             a == LineRows(c, k, lev)
             e == Ceil(v * r, s)
             y == LineEnd(x, v, MultiBottomScale)
  <1>1. v \in Nat /\ r \in Nat
    BY AreasHold, SumIs DEF Areas
  <1>2. s \in Nat \ {0}
    <2> DEFINE m == MultiBottomScale
    <2>1. m \in Nat \ {0} /\ Per \in Nat \ {0}
      BY MultiBottomScaleIs, Drawn
    <2> HIDE DEF m
    <2>2. m * Per \in Nat \ {0}
      BY <2>1
    <2> QED BY <2>2 DEF m
  <1>3. y = x + a \/ y = x + Min({a, e})
    BY DEF LineEnd, LineRows
  <1> HIDE DEF v, s, r, a, y
  <1>4. e \in Nat
    <2>1. v * r \in Nat
      BY <1>1
    <2> QED BY <1>2, <2>1, CeilBounds
  <1>5. a \in Nat
    BY DEF a
  <1>6. Min({a, e}) \in Nat /\ Min({a, e}) <= a
    <2> HIDE DEF e
    <2>1. \E m \in {a, e} : \A n \in {a, e} : m <= n
      <3>1. CASE a <= e
        BY <1>4, <1>5, <3>1
      <3>2. CASE e <= a
        BY <1>4, <1>5, <3>2
      <3> QED BY <1>4, <1>5, <3>1, <3>2
    <2> DEFINE S == {a, e}
    <2>2. Min(S) \in S /\ \A n \in S : Min(S) <= n
      <3> HIDE DEF S
      <3>1. \E m \in S : \A n \in S : m <= n
        BY <2>1 DEF S
      <3> QED BY <3>1 DEF Min
    <2> QED BY <1>4, <1>5, <2>2
  <1> HIDE DEF e
  <1>7. y \in Int /\ x <= y /\ y <= x + a
    BY <1>3, <1>5, <1>6
  <1> QED BY <1>7 DEF y, v, a

\* The lines of a column are those of the windows and levels it has a sample of.
LEMMA LinesAre ==
    ASSUME NEW c \in Columns
    PROVE  update_multi_bottom[c] =
             {Line(c, p[1], p[2]) :
                p \in {d \in Traffic \X {0, 1} : CeilSum(d[1], c, d[2]) > 0}}
  <1>1. update_multi_bottom[c] = MultiBottomBars(c, MultiBottomScale)
    BY DEF update_multi_bottom
  <1>2. MultiBottomBars(c, MultiBottomScale) =
          {Line(c, p[1], p[2]) :
             p \in {d \in Traffic \X {0, 1} : CeilSum(d[1], c, d[2]) > 0}}
    BY DEF MultiBottomBars, Line, LineFrom, LineTo, LineRows
  <1> QED BY <1>1, <1>2

\* The windows of traffic are numbered.
LEMMA WindowNumbers == Traffic \subseteq Nat
  <1>1. W_OTHER \in Nat /\ NWINS \in Nat
    BY AreasHold, GraphAssumption DEF Areas
  <1> QED BY <1>1 DEF Traffic

\* The fields of a line.
LEMMA LineIs ==
    ASSUME IInv, NEW c \in Columns, NEW k \in Traffic, NEW lev \in {0, 1}
    PROVE  /\ Line(c, k, lev).from = LineFrom(c, k, lev) /\ LineFrom(c, k, lev) \in Int
           /\ Line(c, k, lev).to \in Int /\ LineFrom(c, k, lev) <= Line(c, k, lev).to
           /\ Line(c, k, lev).to <= LineFrom(c, k, lev) + LineRows(c, k, lev)
           /\ LineRows(c, k, lev) \in Nat
           /\ CeilSum(k, c, lev) > 0 => LineRows(c, k, lev) >= 1
           /\ Line(c, k, lev).order = 2 * k + lev /\ k \in Nat
           /\ Line(c, k, lev).win = k /\ Line(c, k, lev).lev = lev
  <1>1. /\ LineRows(c, k, lev) \in Nat /\ LineRows(c, k, 0) \in Nat
        /\ CeilSum(k, c, lev) > 0 => LineRows(c, k, lev) >= 1
    BY StackIs DEF LineRows
  <1>2. LineFrom(c, k, lev) \in Int
    <2>1. WindowTop(k, c, MultiBottomScale) \in Int
      BY StackIs
    <2> QED BY <1>1, <2>1 DEF LineFrom
  <1>3. k \in Nat
    BY WindowNumbers
  <1> DEFINE x == LineFrom(c, k, lev)
             y == LineTo(c, k, lev)
             o == 2 * k + lev
  <1>4. Line(c, k, lev) = Bar(o, k, lev, x, y)
    BY DEF Line
  <1> HIDE DEF x, y, o
  <1>5. /\ Line(c, k, lev).from = x /\ Line(c, k, lev).to = y /\ Line(c, k, lev).order = o
        /\ Line(c, k, lev).win = k /\ Line(c, k, lev).lev = lev
    BY <1>4 DEF Bar
  <1>6. y \in Int /\ x <= y /\ y <= x + LineRows(c, k, lev)
    BY <1>1, <1>2, LineEndIs DEF x, y, LineTo
  <1> QED BY <1>1, <1>2, <1>3, <1>5, <1>6 DEF x, o

\* A line that is painted later starts where the one before ends, or below.
LEMMA LinesInOrder ==
    ASSUME IInv, NEW c \in Columns,
           NEW k \in Traffic, NEW m \in Traffic, NEW i \in {0, 1}, NEW j \in {0, 1},
           2 * k + i < 2 * m + j
    PROVE  LineFrom(c, k, i) + LineRows(c, k, i) <= LineFrom(c, m, j)
  <1> DEFINE x == WindowTop(k, c, MultiBottomScale)
             y == WindowTop(m, c, MultiBottomScale)
             k0 == LineRows(c, k, 0)
             k1 == LineRows(c, k, 1)
             m0 == LineRows(c, m, 0)
  <1>1. k \in Nat /\ m \in Nat
    BY WindowNumbers
  <1>2. /\ k0 \in Nat /\ k1 \in Nat /\ m0 \in Nat /\ x \in Int /\ y \in Int
        /\ k < m => x + (k0 + k1) <= y
    BY StackIs DEF LineRows
  <1>3. k < m \/ (k = m /\ i = 0 /\ j = 1)
    BY <1>1
  <1>4. /\ LineFrom(c, k, i) = x + (IF i = 1 THEN k0 ELSE 0)
        /\ LineRows(c, k, i) = (IF i = 1 THEN k1 ELSE k0)
        /\ LineFrom(c, m, j) = y + (IF j = 1 THEN m0 ELSE 0)
    BY DEF LineFrom
  <1>5. k = m => x = y /\ k0 = m0
    OBVIOUS
  <1> HIDE DEF x, y, k0, k1, m0
  <1>6. CASE k < m
    BY <1>2, <1>4, <1>6
  <1>7. CASE k = m /\ i = 0 /\ j = 1
    BY <1>2, <1>4, <1>5, <1>7
  <1> QED BY <1>3, <1>6, <1>7

\* The bars of update_multi_bottom() stay inside but for two rows per window.
LEMMA MultiBottomFits ==
    ASSUME IInv, InScale, NEW c \in Columns, NEW b \in update_multi_bottom[c]
    PROVE  Inside(b, M_TOP + 1, Base + 2 * (NWINS - W_OTHER))
  <1>1. PICK p \in Traffic \X {0, 1} : CeilSum(p[1], c, p[2]) > 0 /\ b = Line(c, p[1], p[2])
    BY LinesAre
  <1> DEFINE k == p[1]
             lev == p[2]
             x == WindowTop(k, c, MultiBottomScale)
             k0 == LineRows(c, k, 0)
             k1 == LineRows(c, k, 1)
             n == Cardinality(Traffic)
  <1>2. k \in Traffic /\ lev \in {0, 1} /\ b = Line(c, k, lev)
    BY <1>1
  <1>3. /\ k0 \in Nat /\ k1 \in Nat /\ x \in Int
        /\ M_TOP < x /\ x + (k0 + k1) <= Base + 2 * n
    BY <1>2, StackIs DEF LineRows
  <1>4. /\ b.from = x + (IF lev = 1 THEN k0 ELSE 0)
        /\ b.to \in Int /\ b.from <= b.to
        /\ b.to <= (x + (IF lev = 1 THEN k0 ELSE 0)) + (IF lev = 1 THEN k1 ELSE k0)
    <2>1. /\ b.from = LineFrom(c, k, lev) /\ b.to \in Int /\ b.from <= b.to
          /\ b.to <= LineFrom(c, k, lev) + LineRows(c, k, lev)
      BY <1>2, LineIs
    <2>2. LineFrom(c, k, lev) = x + (IF lev = 1 THEN k0 ELSE 0)
      BY DEF LineFrom
    <2> QED BY <1>2, <2>1, <2>2
  <1>5. n \in Nat /\ NWINS - W_OTHER = n /\ Base \in Nat /\ M_TOP \in Nat
    BY AreasHold DEF Areas
  <1> HIDE DEF k, lev, x, k0, k1, n
  <1> QED BY <1>2, <1>3, <1>4, <1>5 DEF Inside

\* The bars of all four pictures, from the invariant.
LEMMA BarsHold == IInv => BarsFit
  <1> SUFFICES ASSUME IInv, InScale, NEW w \in Wins
               PROVE  /\ \A h \in Hosts : \A b \in Upper(w)[h] : Inside(b, M_TOP + 1, Base)
                      /\ \A c \in Columns : \A b \in Lower(w)[c] :
                            Inside(b, IF w = W_NET THEN M_TOP + 1 ELSE M_TOP,
                                   IF w = W_NET THEN Base + 2 * (NWINS - W_OTHER) ELSE Base)
    BY DEF BarsFit, Inside
  <1>1. CASE w = W_NET
    BY <1>1, MultiTopFits, MultiBottomFits DEF Upper, Lower
  <1>2. CASE w # W_NET
    BY <1>2, TopFits, BottomFits DEF Upper, Lower
  <1> QED BY <1>1, <1>2

\* No bar leaves its area, but for the row and the rows BarsFit grants: it is an
\* invariant for every number of windows, hosts and buckets, every size of the
\* window, and whichever way each double is rounded.
THEOREM BarsFitAlways == Spec => []BarsFit
  BY InductiveInvariant, BarsHold, PTL

-----------------------------------------------------------------------------
(* What one sees of the lower area.                                        *)

\* A bar is seen in a row when all others there are painted before it.
LEMMA SeenIs ==
    ASSUME NEW bars, NEW b \in bars, NEW r, b.from <= r, r <= b.to, b.order \in Int,
           \A x \in bars : x # b /\ x.from <= r /\ r <= x.to =>
                              x.order \in Int /\ x.order < b.order
    PROVE  Seen(bars, r) = b
  <1> DEFINE here == {x \in bars : x.from <= r /\ r <= x.to}
             Last(x) == \A y \in here : y.order <= x.order
  <1>1. b \in here /\ Last(b)
    OBVIOUS
  <1>2. ASSUME NEW x \in here, Last(x) PROVE x = b
    BY <1>1, <1>2
  <1>3. Seen(bars, r) = CHOOSE x \in here : Last(x)
    BY DEF Seen
  <1> HIDE DEF here, Last
  <1> QED BY <1>1, <1>2, <1>3

\* The two levels of a window.
LEMMA BottomShows ==
    ASSUME IInv, NEW w \in Wins, NEW c \in Columns, NEW lev \in {0, 1}, Sum(w, c, lev) > 0
    PROVE  \E b \in update_bottom(w)[c] :
              /\ b.win = w /\ b.lev = lev
              /\ \E r \in b.from .. b.to : Seen(update_bottom(w)[c], r) = b
  <1> DEFINE ax == Sum(w, c, 0)
             bx == Sum(w, c, 1)
             x == LowerRows(w, c)
             y == BothRows(w, c)
             lower == Bar(0, w, 0, Base - x, Base)
             upper == Bar(1, w, 1, Base - y, Base - x)
             bars == update_bottom(w)[c]
  <1>1. /\ bars \subseteq {lower, upper}
        /\ ax > 0 => lower \in bars
        /\ bx > 0 => upper \in bars
    BY BottomBars
  <1>2. x \in Nat /\ y \in Nat /\ x <= y /\ (ax > 0 => x >= 1)
    BY BottomNumbers
  <1>3. Base \in Nat
    BY AreasHold DEF Areas
  <1> HIDE DEF x, y, bars
  <1>4. /\ lower.order = 0 /\ lower.win = w /\ lower.lev = 0
        /\ lower.from = Base - x /\ lower.to = Base
        /\ upper.order = 1 /\ upper.win = w /\ upper.lev = 1
        /\ upper.from = Base - y /\ upper.to = Base - x
    BY DEF Bar
  <1> HIDE DEF lower, upper
  <1>5. CASE lev = 0
    <2>1. ax > 0 /\ lower \in bars
      BY <1>1, <1>5
    <2>2. Base \in lower.from .. lower.to /\ ~ (Base <= upper.to)
      BY <1>2, <1>3, <1>4, <2>1
    <2>3. Seen(bars, Base) = lower
      <3>1. \A z \in bars : z # lower => z = upper
        BY <1>1
      <3>2. lower.from <= Base /\ Base <= lower.to /\ lower.order \in Int
        BY <1>2, <1>3, <1>4
      <3> QED BY <2>1, <2>2, <3>1, <3>2, SeenIs
    <2> QED BY <1>4, <1>5, <2>1, <2>2, <2>3 DEF bars
  <1>6. CASE lev = 1
    <2> DEFINE r == upper.from
    <2>1. bx > 0 /\ upper \in bars
      BY <1>1, <1>6
    <2>2. r \in upper.from .. upper.to /\ upper.from <= r /\ r <= upper.to
      BY <1>2, <1>3, <1>4
    <2> HIDE DEF r
    <2>3. Seen(bars, r) = upper
      <3>1. \A z \in bars : z # upper => z.order \in Int /\ z.order < upper.order
        BY <1>1, <1>4
      <3>2. upper.order \in Int
        BY <1>4
      <3> QED BY <2>1, <2>2, <3>1, <3>2, SeenIs
    <2> QED BY <1>4, <1>6, <2>1, <2>2, <2>3 DEF bars
  <1> QED BY <1>5, <1>6

\* The windows and levels of the aggregate.
LEMMA MultiBottomShows ==
    ASSUME IInv, NEW c \in Columns, NEW w \in Traffic, NEW lev \in {0, 1},
           CeilSum(w, c, lev) > 0
    PROVE  \E b \in update_multi_bottom[c] :
              /\ b.win = w /\ b.lev = lev
              /\ \E r \in b.from .. b.to : Seen(update_multi_bottom[c], r) = b
  <1> DEFINE bars == update_multi_bottom[c]
             b == Line(c, w, lev)
             r == LineFrom(c, w, lev)
  <1>1. b \in bars
    <2>1. <<w, lev>> \in {d \in Traffic \X {0, 1} : CeilSum(d[1], c, d[2]) > 0}
      OBVIOUS
    <2>2. Line(c, <<w, lev>>[1], <<w, lev>>[2]) = b
      OBVIOUS
    <2> HIDE DEF b
    <2> QED BY <2>1, <2>2, LinesAre
  <1>2. /\ b.from = r /\ r \in Int /\ b.to \in Int /\ r <= b.to
        /\ LineRows(c, w, lev) \in Nat /\ LineRows(c, w, lev) >= 1
        /\ b.order = 2 * w + lev /\ w \in Nat /\ b.win = w /\ b.lev = lev
    BY LineIs
  <1>3. ASSUME NEW x \in bars, x # b, x.from <= r PROVE x.order \in Int /\ x.order < b.order
    <2>1. PICK p \in Traffic \X {0, 1} : x = Line(c, p[1], p[2])
      BY LinesAre
    <2> DEFINE k == p[1]
               i == p[2]
    <2>2. k \in Traffic /\ i \in {0, 1} /\ x = Line(c, k, i)
      BY <2>1
    <2> HIDE DEF k, i
    <2>3. x.from = LineFrom(c, k, i) /\ LineFrom(c, k, i) \in Int
          /\ x.order = 2 * k + i /\ k \in Nat
      BY <2>2, LineIs
    <2>4. 2 * k + i # 2 * w + lev
      <3>1. ASSUME 2 * k + i = 2 * w + lev PROVE FALSE
        <4>1. k = w /\ i = lev
          BY <1>2, <2>2, <2>3, <3>1
        <4> QED BY <1>3, <2>2, <4>1
      <3> QED BY <3>1
    <2>5. ASSUME 2 * w + lev < 2 * k + i PROVE FALSE
      <3>1. r + LineRows(c, w, lev) <= LineFrom(c, k, i)
        BY <2>2, <2>5, LinesInOrder
      <3> HIDE DEF r
      <3> QED BY <1>2, <1>3, <2>3, <3>1
    <2> QED BY <1>2, <2>2, <2>3, <2>4, <2>5
  <1>4. r \in b.from .. b.to /\ b.from <= r /\ r <= b.to /\ b.order \in Int
    <2> HIDE DEF r, b
    <2> QED BY <1>2
  <1> HIDE DEF bars, b, r
  <1>5. Seen(bars, r) = b
    BY <1>1, <1>3, <1>4, SeenIs
  <1> QED BY <1>1, <1>2, <1>4, <1>5 DEF bars

\* The history, from the invariant.
LEMMA HistoryHolds == IInv => HistoryShowsAll
  <1> SUFFICES ASSUME IInv, NEW g \in Wins, NEW c \in Columns,
                      NEW w \in (IF g = W_NET THEN Traffic ELSE {g}),
                      NEW h \in Hosts, NEW lev \in {0, 1},
                      NEW t \in Merged(c), samps[w][<<t, h, lev>>] > 0
               PROVE  \E b \in Lower(g)[c] :
                         /\ b.win = w /\ b.lev = lev
                         /\ \E r \in b.from .. b.to : Seen(Lower(g)[c], r) = b
    BY DEF HistoryShowsAll
  <1>1. CASE g = W_NET
    <2>1. w \in Traffic /\ w \in Wins
      BY <1>1, AreasHold DEF Areas
    <2>2. CeilSum(w, c, lev) > 0
      BY <2>1, SumIs
    <2> QED BY <1>1, <2>1, <2>2, MultiBottomShows DEF Lower
  <1>2. CASE g # W_NET
    <2>1. w = g
      BY <1>2
    <2>2. Sum(g, c, lev) > 0
      BY <2>1, SumIs
    <2> QED BY <1>2, <2>1, <2>2, BottomShows DEF Lower
  <1> QED BY <1>1, <1>2

\* Whatever was received stays visible in the history, in the window itself and
\* in the aggregate: HistoryShowsAll is an invariant, for every scale, size and
\* number of windows, and without a bound on the amounts.
THEOREM HistoryAlways == Spec => []HistoryShowsAll
  BY InductiveInvariant, HistoryHolds, PTL
=============================================================================
