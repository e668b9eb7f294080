------------------------------- MODULE Graph -------------------------------
(***************************************************************************)
(* What mwmg.c draws: blank() and the update_... functions it calls.  A    *)
(* window has two areas.  The upper one has a bar for each host, for the   *)
(* bucket that was completed last (update_top, update_multi_top); the      *)
(* lower one a column for every sperpx buckets since the start             *)
(* (update_bottom, update_multi_bottom).  The aggregate window W_NET       *)
(* stacks the traffic windows, those from W_OTHER on.                      *)
(*                                                                         *)
(* A picture is a function from columns to the bars that are painted in    *)
(* the column; a bar is a range of pixel rows, the window and level its    *)
(* colour stands for, and its place in the order of painting.  Rows count  *)
(* downwards.                                                              *)
(*                                                                         *)
(* The doubles of the code are ratios of integers here.  One that takes    *)
(* several operations to compute is off by up to one part in UNIT, in the  *)
(* direction Rounded gives, and ceil() is of what was computed.  Texts,    *)
(* frames and the legend's image are left out.                             *)
(*                                                                         *)
(* All windows have the same size here, since no window's picture depends  *)
(* on another's.  Module Mwmg has the way of a sample from the pipe to its *)
(* cell; here a sample is added to any bucket at any time.                 *)
(***************************************************************************)
EXTENDS Integers, Functions, FiniteSetsExt

CONSTANTS
    DEFTLEN,    \* buckets
    TSINTER,    \* seconds between the times of day under the lower area
    nsys,       \* hosts
    Intervals,  \* values of -i
    gauge,      \* samples are absolute (-g)
    NWINS,      \* windows
    BAR,        \* BAR_PAD + BAR_MIN, the pixels every host has at least
    cwidth,     \* of a character
    cheight,
    BASES,      \* the decades roundup() tries, 12 in the code
    Height,     \* of an area
    UNIT,       \* a computed double is right up to one part in so many
    Rounded(_, _),  \* "up" or "down": where the double of a ratio lies
    Extras,     \* how much wider than at least a window may be
    Amounts,    \* what a sample may be
    Windows,    \* windows that get samples
    Filled,     \* bound: buckets that get samples
    MaxSamples  \* bound on the samples

W_MEM == 0
W_CPU == 1
W_TIME == 2
W_NET == 3
W_OTHER == 4

M_LEFT == 4 * cwidth + 1
M_RIGHT == 1 + cheight
M_TOP == cheight \div 2
M_BOT == cheight

ASSUME GraphAssumption ==
    /\ {DEFTLEN, TSINTER, nsys, BAR, cwidth, cheight, BASES} \subseteq Nat \ {0}
    /\ Intervals \subseteq Nat \ {0}
    /\ Extras \subseteq Nat /\ MaxSamples \in Nat
    /\ gauge \in BOOLEAN
    /\ NWINS \in Nat /\ NWINS > W_OTHER
    /\ Height \in Nat /\ Height > M_TOP + M_BOT + 2 + NWINS - W_OTHER
    /\ UNIT \in Nat /\ UNIT > 2 * Height
    /\ Amounts \subseteq Nat
    /\ Filled \subseteq 0 .. DEFTLEN - 1
    /\ Windows \subseteq 0 .. NWINS - 1

VARIABLES
    interval,   \* seconds between two updates (-i)
    samps,      \* by window, bucket, host and level
    curtime,    \* buckets drawn
    width,      \* of an area; 0 until the window is configured
    sperpx,     \* buckets per column
    rm,         \* the right margin of the lower area
    nsamples    \* samples so far

vars == <<interval, samps, curtime, width, sperpx, rm, nsamples>>

Wins == 0 .. NWINS - 1
Traffic == W_OTHER .. NWINS - 1
Buckets == 0 .. DEFTLEN - 1
Hosts == 0 .. nsys - 1

\* The smallest width gtk_drawing_area_size() and the window's policy allow.
MinWidth == BAR * nsys + 2 + M_LEFT + M_RIGHT

Init ==
    /\ interval \in Intervals
    /\ samps = [w \in Wins |-> [c \in Buckets \X Hosts \X {0, 1} |-> 0]]
    /\ curtime = 0 /\ width = 0 /\ nsamples = 0
    /\ sperpx = 1 /\ rm = M_RIGHT

-----------------------------------------------------------------------------
(* Scales.                                                                 *)

\* ceil(n / d): one division, which a double gets right next to whole numbers.
Ceil(n, d) == (n + d - 1) \div d

\* The double computed for n / d, in parts of 1 / (d * UNIT).
Computed(n, d) ==
    n * (UNIT + (IF Rounded(n, d) = "up" THEN 1 ELSE IF Rounded(n, d) = "down" THEN -1 ELSE 0))

\* Mutant: the double is cut, as a conversion to an int does.
CeilComputedCut(n, d) == Computed(n, d) \div (d * UNIT)

\* ceil() of that double.
CeilComputed(n, d) == Ceil(Computed(n, d), d * UNIT)

\* The powers of ten.
Decade[base \in 0 .. BASES + 1] == IF base = 0 THEN 1 ELSE 10 * Decade[base - 1]

Steps == {i * Decade[base] : i \in 1 .. 9, base \in 1 .. BASES}

\* Mutant: the largest step that is not above the value.
roundupDown(n, d) == Max({s \in Steps : s * d <= n} \union {10})

\* The scale's end for a maximum of n / d.
roundup(n, d) ==
    LET above == {s \in Steps : Computed(n, d) <= s * (d * UNIT)}
    IN  IF above = {} THEN Decade[BASES + 1] ELSE Min(above)

\* Seconds a sample is spread over.
Per == IF gauge THEN 1 ELSE interval

\* The bucket that is drawn in the upper area, and the last of the lower.
cxtime == IF curtime = 0 THEN 0 ELSE curtime - 1

drawh == Height - M_TOP - M_BOT - 1
Base == Height - M_BOT

\* The rows a stack of bars may lose to rounding.
delta == 1 + NWINS - W_OTHER

Bar(order, w, lev, from, to) ==
    [order |-> order, win |-> w, lev |-> lev, from |-> from, to |-> to]

-----------------------------------------------------------------------------
(* The upper area: a column for each host.                                 *)

At(w, h, lev) == samps[w][<<cxtime, h, lev>>]

TopScale(w) == roundup(Max({At(w, h, 0) + At(w, h, 1) : h \in Hosts}), Per)

\* The bars of a host: the upper level stands on the lower.  A product of
\* doubles grows with its factors, so both together have the most rows.
TopBars(w, h, lmax) ==
    LET rows(v) == CeilComputed(v * drawh, lmax * Per)
        both == Max({rows(At(w, h, 0) + At(w, h, 1)), rows(At(w, h, 0)), rows(At(w, h, 1))})
        gb == Base + 1
        top(lev) == gb - (IF lev = 1 THEN both ELSE rows(At(w, h, 0)))
    IN  {Bar(lev, w, lev, top(lev), top(lev) + rows(At(w, h, lev)) - 1) :
            lev \in {e \in {0, 1} : At(w, h, e) > 0}}

update_top(w) ==
    LET lmax == TopScale(w) IN [h \in Hosts |-> TopBars(w, h, lmax)]

\* What a host has in all windows of traffic.
HostTotal(h) == SumFunction([k \in Traffic |-> At(k, h, 0) + At(k, h, 1)])
MultiTopScale == roundup(Max({HostTotal(h) : h \in Hosts}), Per)

\* The rows of a bar of an aggregate picture.
MultiRows(v, lmax) == CeilComputed(v * (drawh - delta), lmax * Per)

\* The row where window k starts in a stack: those from k on are below it.
StackTop(k, h, lev, lmax) ==
    Base - SumFunction([j \in k .. NWINS - 1 |-> MultiRows(At(j, h, lev), lmax)])

\* The windows of one level are stacked; the two levels start at the same row.
MultiTopBars(h, lmax) ==
    LET top(k, lev) == StackTop(k, h, lev, lmax)
    IN  {Bar(b[2] * NWINS + b[1], b[1], b[2], top(b[1], b[2]),
             top(b[1], b[2]) + MultiRows(At(b[1], h, b[2]), lmax) - 1) :
            b \in {c \in Traffic \X {0, 1} : At(c[1], h, c[2]) > 0}}

update_multi_top ==
    LET lmax == MultiTopScale IN [h \in Hosts |-> MultiTopBars(h, lmax)]

-----------------------------------------------------------------------------
(* The lower area: a column for every sperpx buckets.                      *)

Columns == 0 .. cxtime \div sperpx

\* The buckets of a column.
Merged(c) == {t \in c * sperpx .. c * sperpx + sperpx - 1 : t <= cxtime}

\* The memory, processor and delay windows average over the samples there
\* are: those of the lower level that are not 0.
reps(w, c) ==
    IF w \in {W_CPU, W_MEM, W_TIME}
    THEN Cardinality({x \in Merged(c) \X Hosts : samps[w][<<x[1], x[2], 0>>] > 0})
    ELSE 0

\* ax and bx are Sum(w, c, lev) / (Per * Share(w, c)).
Share(w, c) == IF reps(w, c) > 0 THEN reps(w, c) ELSE sperpx

Sum(w, c, lev) ==
    SumFunction([x \in Merged(c) \X Hosts |-> samps[w][<<x[1], x[2], lev>>]])

BottomScale(w) ==
    Max({roundup(Sum(w, c, 0) + Sum(w, c, 1), Per * Share(w, c)) : c \in Columns})

update_bottom(w) ==
    LET lmax == BottomScale(w)
        rows(c, v) == CeilComputed(v * drawh, lmax * (Per * Share(w, c)))
        ax(c) == Sum(w, c, 0)
        bx(c) == Sum(w, c, 1)
        both(c) == Max({rows(c, ax(c) + bx(c)), rows(c, ax(c))})
    IN  [c \in Columns |->
            (IF ax(c) > 0
             THEN {Bar(0, w, 0, Base - rows(c, ax(c)), Base)}
             ELSE {})
            \union
            (IF bx(c) > 0
             THEN {Bar(1, w, 1, Base - both(c), Base - rows(c, ax(c)))}
             ELSE {})]

\* Every sample is divided by sperpx and rounded up before it is added.
CeilSum(k, c, lev) ==
    SumFunction([x \in Merged(c) \X Hosts |->
                    Ceil(samps[k][<<x[1], x[2], lev>>], sperpx)])

ColumnTotal(c) == SumFunction([k \in Traffic |-> CeilSum(k, c, 0) + CeilSum(k, c, 1)])
MultiBottomScale == roundup(Max({ColumnTotal(c) : c \in Columns}), 1)

\* The row where window k starts: the height of the stack is that of the
\* windows, each rounded up, but a window is as high as its levels.
WindowTop(k, c, lmax) ==
    Base - SumFunction([j \in Traffic |->
                          MultiRows(CeilSum(j, c, 0) + CeilSum(j, c, 1), lmax)])
         + SumFunction([j \in W_OTHER .. k - 1 |->
                          MultiRows(CeilSum(j, c, 0), lmax)
                            + MultiRows(CeilSum(j, c, 1), lmax)])

\* Where the line for v ends that starts at row s: the sum is rounded again.
LineEnd(s, v, lmax) ==
    LET exact == Ceil(v * (drawh - delta), lmax * Per)
        kept == Rounded(s * (lmax * Per) + v * (drawh - delta), lmax * Per) = "up"
    IN  s + (IF kept THEN MultiRows(v, lmax) ELSE Min({MultiRows(v, lmax), exact}))

\* The "bounding line" before the bars is one pixel, which the first of them covers.
\* A line includes the row where the next one starts, unless it is a row for
\* a rounding up alone that its end, ceil(s + ax * yscal), loses in the sum.
MultiBottomBars(c, lmax) ==
    LET rows(k, lev) == MultiRows(CeilSum(k, c, lev), lmax)
        from(k, lev) == WindowTop(k, c, lmax) + (IF lev = 1 THEN rows(k, 0) ELSE 0)
        end(k, lev) == LineEnd(from(k, lev), CeilSum(k, c, lev), lmax)
    IN  {Bar(2 * b[1] + b[2], b[1], b[2], from(b[1], b[2]), end(b[1], b[2])) :
            b \in {d \in Traffic \X {0, 1} : CeilSum(d[1], c, d[2]) > 0}}

update_multi_bottom ==
    LET lmax == MultiBottomScale IN [c \in Columns |-> MultiBottomBars(c, lmax)]

-----------------------------------------------------------------------------
(* blank(): the pictures of a window, and the times of day.                *)

Upper(w) == IF w = W_NET THEN update_multi_top ELSE update_top(w)
Lower(w) == IF w = W_NET THEN update_multi_bottom ELSE update_bottom(w)

incr == Max({1, (TSINTER \div Per) \div sperpx})

\* The columns with a line and a time of day, and which of the times it is.
Labelled ==
    {i \in incr .. DEFTLEN \div sperpx - 1 : (i - incr) % (3 * incr) = 0}

\* Mutant: the times are taken one per column.
LabelColumn(i) == i

Label(i) == i \div incr

\* whens[k] is so many seconds after the start; there are DEFTLEN / TSINTER + 1.
Whens == [k \in 0 .. DEFTLEN \div TSINTER |-> k * TSINTER]

-----------------------------------------------------------------------------
(* Events.                                                                 *)

\* Mutant: the remainder of the buckets gets no column.
SamplesPerPixelFloor(inner) == Max({1, DEFTLEN \div inner})

\* inner is the width between the smallest margins.
SamplesPerPixel(inner) == Ceil(DEFTLEN, inner)

configure_event(wd) ==
    /\ width' = wd
    /\ sperpx' = SamplesPerPixel(wd - M_LEFT - M_RIGHT - 2)
    /\ rm' = wd - DEFTLEN \div sperpx' - M_LEFT - 2
    /\ UNCHANGED <<interval, samps, curtime, nsamples>>

\* readin() adds to a cell of any bucket, also one that has been drawn.
Sample(w, c, v) ==
    /\ nsamples < MaxSamples
    /\ nsamples' = nsamples + 1
    /\ samps' = [samps EXCEPT ![w][c] = @ + v]
    /\ UNCHANGED <<interval, curtime, width, sperpx, rm>>

update ==
    /\ curtime < DEFTLEN
    /\ curtime' = curtime + 1
    /\ UNCHANGED <<interval, samps, width, sperpx, rm, nsamples>>

Next ==
    \/ \E e \in Extras : configure_event(MinWidth + e)
    \/ \E w \in Windows, c \in Filled \X Hosts \X {0, 1}, v \in Amounts : Sample(w, c, v)
    \/ update

Spec == Init /\ [][Next]_vars

-----------------------------------------------------------------------------
(* Properties.                                                             *)

\* No amount that is drawn is more than roundup() knows.
InScale ==
    /\ \A w \in Wins, h \in Hosts : At(w, h, 0) + At(w, h, 1) <= Decade[BASES + 1] * Per
    /\ \A h \in Hosts : HostTotal(h) <= Decade[BASES + 1] * Per
    /\ \A w \in Wins, c \in Columns :
          Sum(w, c, 0) + Sum(w, c, 1) <= Decade[BASES + 1] * (Per * Share(w, c))
    /\ \A c \in Columns : ColumnTotal(c) <= Decade[BASES + 1]

\* No bar leaves its area, as long as the amounts are in scale: the scale of
\* drawymarks() covers the highest one up to the rounding of the doubles.  It
\* shows in two places.  The highest line of a window's own history may be a
\* row too high and cover the frame, as 30 * (249 / 30.0) > 249 does.  And the
\* history of the aggregate, where every level of a window is rounded up on its
\* own, may run into the rows below, by two rows for each window.
BarsFit ==
    width > 0 /\ InScale => \A w \in Wins :
        LET upper == Upper(w)
            lower == Lower(w)
            first == IF w = W_NET THEN M_TOP + 1 ELSE M_TOP
            last == IF w = W_NET THEN Base + 2 * (NWINS - W_OTHER) ELSE Base
            Within(b, m, n) == m <= b.from /\ b.from <= b.to /\ b.to <= n
        IN  /\ \A h \in Hosts : \A b \in upper[h] : Within(b, M_TOP + 1, Base)
            /\ \A c \in Columns : \A b \in lower[c] : Within(b, first, last)

\* The bar one sees at row r of a column: the one painted last.
Seen(bars, r) ==
    LET here == {b \in bars : b.from <= r /\ r <= b.to}
    IN  CHOOSE b \in here : \A c \in here : c.order <= b.order

\* "If a given traffic type appeared during the interval or run, it will always
\* be at least one pixel tall" (config/mwmg/README.md), of the history: what was
\* received of a window and level in a bucket is not hidden by what is painted
\* after it.
HistoryShowsAll ==
    width > 0 => \A g \in Wins :
        LET lower == Lower(g)
            shown == IF g = W_NET THEN Traffic ELSE {g}
        IN  \A c \in Columns, w \in shown, h \in Hosts, lev \in {0, 1} :
                (\E t \in Merged(c) : samps[w][<<t, h, lev>>] > 0) =>
                    \E b \in lower[c] :
                        /\ b.win = w /\ b.lev = lev
                        /\ \E r \in b.from .. b.to : Seen(lower[c], r) = b

\* Each bucket up to the last is in one column, its column is inside of the
\* frame, and the margin has room for the legend, for every width the window
\* can be given.
ColumnsTrue ==
    width > 0 =>
        /\ rm >= M_RIGHT
        /\ \A t \in 0 .. cxtime :
               \E c \in Columns : /\ {d \in Columns : t \in Merged(d)} = {c}
                                  /\ M_LEFT + 1 + c < width - rm

\* The time of day under a column is near the one of its first bucket, when a
\* bucket is a second: each time from the start on may have added one column's
\* seconds, less one, to the difference.  It is the very time, and one of those
\* computed in whens, when a whole number of columns lies between two times.
\* Else neither is certain: blank() then counts the times in whole columns, and
\* may go on after the last that has been computed.
LabelsNear ==
    width > 0 /\ Per = 1 =>
        \A i \in Labelled :
            LET k == Label(i)
            IN  /\ k * TSINTER - i * sperpx \in -(k * (sperpx - 1)) .. k * (sperpx - 1)
                /\ TSINTER % sperpx = 0 =>
                      k \in DOMAIN Whens /\ Whens[k] = i * sperpx
=============================================================================
