------------------------- MODULE SvcreqollectProofs -------------------------
(***************************************************************************)
(* Proofs about module Svcreqollect, for any hosts, addresses, ports and   *)
(* answers, and any interval: the counts are those of the poll, the totals *)
(* are the sums of the counts, the lines tagged X are true, and the text   *)
(* that is parsed is the whole answer to this poll.                        *)
(***************************************************************************)
EXTENDS Svcreqollect, Sums, SequenceTheorems, TLAPS

\* The tables are large enough for what is entered: there are no more entries than
\* lines, no two hosts have one name, and time is counted up to its limit.
Bounded ==
    /\ Len(ports) <= MaxLines
    /\ \A i, k \in 1 .. Len(map) : map[i].host = map[k].host => i = k
    /\ elapsed <= MaxElapsed

NothingCounted == count = Zero /\ seen = <<>>

\* What is left from the poll before: counts are kept until the next poll
\* begins, but the configuration is read before there are any, and the text is
\* released before the next poll.
Tidy ==
    /\ pc \in {"prios", "hosts"} => NothingCounted
    /\ pc \notin {"perform", "parse"} => text = <<>>

\* The lines of the entry for other ports have been taken from the table.
Lines ==
    pc \in {"reported", "wait"} =>
        \A j \in 1 .. nhosts, l \in Level : report[0][j][l] = count[0][j][l]

IInv == TypeOK /\ Bounded /\ Tidy /\ CountsTrue /\ Lines /\ WholeAnswer

-----------------------------------------------------------------------------
(* Facts about the model's operators.                                      *)

\* The search of a table gives the first hit, or 0.
LEMMA FindIs ==
    ASSUME NEW S, S \subseteq Nat \ {0}
    PROVE  /\ S = {} => Find(S) = 0
           /\ S # {} => Find(S) \in S /\ \A k \in S : Find(S) <= k
  <1>1. S = {} => Find(S) = 0
    BY DEF Find
  <1>2. ASSUME S # {} PROVE Find(S) \in S /\ \A k \in S : Find(S) <= k
    <2>1. PICK i \in S : \A k \in S : ~ (<<k, i>> \in OpToRel(<, Nat))
      BY <1>2, WFMin, NatLessThanWellFounded
    <2>2. \A k \in S : ~ (k < i)
      BY <2>1 DEF OpToRel
    <2>3. \A k \in S : i <= k
      BY <2>2
    <2>4. Least(S) \in S /\ \A k \in S : Least(S) <= k
      BY <2>3 DEF Least
    <2> QED BY <1>2, <2>4 DEF Find
  <1> QED BY <1>1, <1>2

\* A number is the one that is found when it is the first of the hits.
LEMMA FoundIs ==
    ASSUME NEW n \in Nat, NEW H, NEW i \in 1 .. n
    PROVE  LET S == {k \in 1 .. n : k \in H}
           IN  /\ Find(S) \in 0 .. n
               /\ i = Find(S) <=> i \in H /\ \A k \in 1 .. i - 1 : k \notin H
               /\ Find(S) = 0 <=> \A k \in 1 .. n : k \notin H
  <1> DEFINE S == {k \in 1 .. n : k \in H}
  <1>1. S \subseteq Nat \ {0} /\ S \subseteq 1 .. n
    OBVIOUS
  <1>2. /\ S = {} => Find(S) = 0
        /\ S # {} => Find(S) \in S /\ \A k \in S : Find(S) <= k
    BY <1>1, FindIs
  <1>3. \A k \in 1 .. n : k \in S <=> k \in H
    OBVIOUS
  <1> HIDE DEF S
  <1> DEFINE f == Find(S)
  <1>4. f \in 0 .. n
    <2>1. 0 \in 0 .. n /\ 1 .. n \subseteq 0 .. n
      OBVIOUS
    <2>2. f = 0 \/ f \in 1 .. n
      BY <1>1, <1>2
    <2> HIDE DEF f
    <2> QED BY <2>1, <2>2
  <1>5. f = 0 <=> \A k \in 1 .. n : k \notin H
    <2>1. S # {} => f \in 1 .. n /\ f \in H
      BY <1>1, <1>2, <1>3
    <2>2. f # 0 => S # {}
      BY <1>2
    <2>3. S # {} => f # 0
      BY <1>1, <1>2
    <2>4. S = {} <=> \A k \in 1 .. n : k \notin H
      BY <1>1, <1>3
    <2> QED BY <2>2, <2>3, <2>4
  <1>6. ASSUME i = f PROVE i \in H /\ \A k \in 1 .. i - 1 : k \notin H
    <2>1. S # {} /\ f \in S
      BY <1>2, <1>6
    <2>2. \A k \in S : f <= k
      BY <1>2, <2>1
    <2>3. \A k \in 1 .. i - 1 : k \in 1 .. n /\ ~ (f <= k)
      BY <1>6
    <2> QED BY <1>3, <1>6, <2>1, <2>2, <2>3
  <1>7. ASSUME i \in H, \A k \in 1 .. i - 1 : k \notin H PROVE i = f
    <2>1. i \in S
      BY <1>3, <1>7
    <2>2. f \in S /\ f <= i
      BY <1>2, <2>1
    <2>3. f \in 1 .. n /\ f \in H
      BY <1>1, <1>3, <2>2
    <2>4. ~ (f < i)
      BY <1>7, <2>3
    <2> HIDE DEF f
    <2> QED BY <2>2, <2>3, <2>4
  <1> QED BY <1>4, <1>5, <1>6, <1>7 DEF S

\* A name in the table is that of a host, and there is no more than one line for
\* each.
LEMMA HostBound ==
    ASSUME TypeOK, Bounded
    PROVE  nhosts \in Nat /\ nhosts <= Cardinality(Hosts) /\ 1 .. nhosts \subseteq Host
  <1>1. nhosts \in Nat /\ \A i \in 1 .. nhosts : map[i].host \in Hosts
    <2>1. map \in Seq([host : Hosts, ips : Seq(IPs)])
      BY DEF TypeOK
    <2>2. nhosts \in Nat /\ \A i \in 1 .. nhosts : map[i] \in [host : Hosts, ips : Seq(IPs)]
      BY <2>1, LenProperties, ElementOfSeq DEF nhosts
    <2> QED BY <2>2
  <1> DEFINE f == [i \in 1 .. nhosts |-> map[i].host]
  <1>2. f \in [1 .. nhosts -> Hosts]
    BY <1>1
  <1>3. ~ \E x, y \in 1 .. nhosts : x # y /\ f[x] = f[y]
    BY DEF Bounded, nhosts
  <1>4. IsFiniteSet(Hosts) /\ Cardinality(Hosts) \in Nat
    BY SvcAssumption, FS_CardinalityType
  <1>5. IsFiniteSet(1 .. nhosts) /\ Cardinality(1 .. nhosts) = nhosts
    BY <1>1, FS_Interval
  <1> HIDE DEF f
  <1>6. ~ (Cardinality(Hosts) < Cardinality(1 .. nhosts))
    BY <1>2, <1>3, <1>4, <1>5, FS_PigeonHole
  <1>7. nhosts <= Cardinality(Hosts)
    BY <1>1, <1>4, <1>5, <1>6
  <1> QED BY <1>1, <1>4, <1>7 DEF Host

\* The entry an element belongs to is the one find_port() finds.
LEMMA EntryIs ==
    ASSUME TypeOK, Bounded, NEW e
    PROVE  /\ find_port(e.port) \in 0 .. nprio - 1 /\ find_port(e.port) \in Prio
           /\ \A i \in 0 .. nprio - 1 : OfEntry(e, i) <=> i = find_port(e.port)
  <1> DEFINE n == Len(ports)
             H == {k \in 1 .. n : ports[k] = e.port}
  <1>1. n \in Nat /\ n <= MaxLines /\ MaxLines \in Nat /\ nprio - 1 = n
    BY SvcAssumption DEF TypeOK, Bounded, nprio
  <1>2. H = {k \in 1 .. n : k \in H} /\ find_port(e.port) = Find(H)
    BY DEF find_port
  <1>3. \A k \in 1 .. n : k \in H <=> ports[k] = e.port
    OBVIOUS
  <1>4. H \subseteq 1 .. n
    OBVIOUS
  <1> HIDE DEF n, H
  <1>5. /\ \A i \in 1 .. n : /\ Find(H) \in 0 .. n
                             /\ i = Find(H) <=> i \in H /\ \A k \in 1 .. i - 1 : k \notin H
                             /\ Find(H) = 0 <=> \A k \in 1 .. n : k \notin H
    BY <1>1, <1>2, FoundIs
  <1>6. H = {} => Find(H) = 0
    BY FindIs
  <1>7. Find(H) \in 0 .. n /\ (Find(H) = 0 <=> H = {})
    BY <1>1, <1>4, <1>5, <1>6
  <1>8. OfEntry(e, 0) <=> 0 = Find(H)
    BY <1>3, <1>4, <1>7 DEF OfEntry, n
  <1>9. ASSUME NEW i \in 1 .. n PROVE OfEntry(e, i) <=> i = Find(H)
    <2>1. i # 0 /\ \A k \in 1 .. i - 1 : k \in 1 .. n
      BY <1>1
    <2> QED BY <1>3, <1>5, <2>1 DEF OfEntry
  <1>10. \A i \in 0 .. n : i = 0 \/ i \in 1 .. n
    BY <1>1
  <1> QED BY <1>1, <1>2, <1>7, <1>8, <1>9, <1>10 DEF Prio

\* The host of an element that has one is the one main() takes.
LEMMA HostIs ==
    ASSUME TypeOK, Bounded, NEW e, tgthost(e) # 0
    PROVE  /\ tgthost(e) \in 1 .. nhosts /\ tgthost(e) \in Host
           /\ \A j \in 1 .. nhosts : OfHost(e, j) <=> j = tgthost(e)
  <1> DEFINE n == nhosts
  <1>1. n \in Nat /\ 1 .. n \subseteq Host
    BY HostBound
  <1>2. ASSUME NEW ip
        PROVE  /\ find_host(ip) \in 0 .. n
               /\ \A j \in 1 .. n : FirstWith(ip, j) <=> j = find_host(ip)
               /\ (\A k \in 1 .. n : ~ HasIp(k, ip)) <=> find_host(ip) = 0
    <2> DEFINE H == {k \in 1 .. n : HasIp(k, ip)}
    <2>1. H = {k \in 1 .. n : k \in H} /\ find_host(ip) = Find(H)
      BY DEF find_host
    <2>2. \A k \in 1 .. n : k \in H <=> HasIp(k, ip)
      OBVIOUS
    <2>3. H \subseteq 1 .. n /\ H \subseteq Nat \ {0}
      OBVIOUS
    <2> HIDE DEF n, H
    <2>4. \A i \in 1 .. n : /\ Find(H) \in 0 .. n
                            /\ i = Find(H) <=> i \in H /\ \A k \in 1 .. i - 1 : k \notin H
                            /\ Find(H) = 0 <=> \A k \in 1 .. n : k \notin H
      BY <1>1, <2>1, FoundIs
    <2>5. H = {} => Find(H) = 0
      BY <2>3, FindIs
    <2>6. Find(H) \in 0 .. n /\ (Find(H) = 0 <=> \A k \in 1 .. n : ~ HasIp(k, ip))
      BY <1>1, <2>2, <2>3, <2>4, <2>5
    <2>7. ASSUME NEW j \in 1 .. n PROVE FirstWith(ip, j) <=> j = Find(H)
      <3>1. \A k \in 1 .. j - 1 : k \in 1 .. n
        BY <1>1
      <3> QED BY <2>2, <2>4, <3>1 DEF FirstWith
    <2> QED BY <2>1, <2>6, <2>7
  <1> DEFINE s == find_host(e.src_ip)
             d == find_host(e.dst_ip)
  <1>3. /\ s \in 0 .. n /\ d \in 0 .. n
        /\ \A j \in 1 .. n : FirstWith(e.src_ip, j) <=> j = s
        /\ \A j \in 1 .. n : FirstWith(e.dst_ip, j) <=> j = d
        /\ (\A k \in 1 .. n : ~ HasIp(k, e.src_ip)) <=> s = 0
    BY <1>2
  <1>4. tgthost(e) = IF s # 0 THEN s ELSE d
    BY DEF tgthost
  <1>5. \A j \in 1 .. n : OfHost(e, j) <=> j = s \/ (j = d /\ s = 0)
    BY <1>3 DEF OfHost
  <1> HIDE DEF s, d, n
  <1>6. tgthost(e) \in 1 .. n
    BY <1>1, <1>3, <1>4
  <1>7. \A j \in 1 .. n : OfHost(e, j) <=> j = tgthost(e)
    BY <1>1, <1>3, <1>4, <1>5
  <1> QED BY <1>1, <1>6, <1>7 DEF n

-----------------------------------------------------------------------------
(* The table of counts.                                                    *)

Table == [Prio -> [Host -> [Level -> Nat]]]

\* The elements that a cell of the table counts.
Counted(i, j, l) ==
    {n \in 1 .. Len(seen) :
        /\ seen[n].sender
        /\ OfEntry(seen[n], i) /\ OfHost(seen[n], j)
        /\ (l = "accepted") = (seen[n].path = "some")}

\* The reference counts the elements that belong to a cell.
LEMMA ReferenceIs ==
    ASSUME NEW i, NEW j, NEW l
    PROVE  Reference(i, j, l) = Cardinality(Counted(i, j, l))
  BY DEF Reference, Counted

\* The table before the first element: every cell is 0.
LEMMA ZeroCounts == TypeOK /\ Bounded /\ NothingCounted => CountsTrue
  <1> SUFFICES ASSUME TypeOK, Bounded, count = Zero, seen = <<>>,
                      NEW i \in 0 .. nprio - 1, NEW j \in 1 .. nhosts, NEW l \in Level
               PROVE  count[i][j][l] = Reference(i, j, l)
    BY DEF CountsTrue, NothingCounted
  <1>1. i \in Prio
    <2> DEFINE n == Len(ports)
    <2>1. n \in Nat /\ n <= MaxLines /\ nprio = n + 1
      BY DEF TypeOK, Bounded, nprio
    <2>2. MaxLines \in Nat
      BY SvcAssumption
    <2> HIDE DEF n
    <2> QED BY <2>1, <2>2 DEF Prio
  <1>2. j \in Host
    BY HostBound
  <1>3. count[i][j][l] = 0
    BY <1>1, <1>2 DEF Zero
  <1>4. Counted(i, j, l) = {}
    BY DEF Counted
  <1> QED BY <1>3, <1>4, ReferenceIs, FS_EmptySet

\* A step that leaves the table and the elements alone.
LEMMA SameCounts ==
    ASSUME CountsTrue, UNCHANGED <<ports, map, count, seen>>
    PROVE  CountsTrue'
  <1>1. /\ nprio' = nprio /\ nhosts' = nhosts
        /\ \A x, i : OfEntry(x, i)' <=> OfEntry(x, i)
        /\ \A x, j : OfHost(x, j)' <=> OfHost(x, j)
    BY DEF nprio, nhosts, OfEntry, OfHost, FirstWith, HasIp
  <1>2. ASSUME NEW i, NEW j, NEW l PROVE Reference(i, j, l)' = Reference(i, j, l)
    <2>1. \A n : n \in Counted(i, j, l)' <=> n \in Counted(i, j, l)
      BY <1>1 DEF Counted
    <2>2. Counted(i, j, l)' = Counted(i, j, l)
      BY <2>1
    <2>3. Reference(i, j, l)' = Cardinality(Counted(i, j, l)')
      BY DEF Reference, Counted
    <2> QED BY <2>2, <2>3, ReferenceIs
  <1> QED BY <1>1, <1>2 DEF CountsTrue

\* One more in a cell of a table.
OneMore(t, p, h, o) == [t EXCEPT ![p][h][o] = @ + 1]

\* Adding to a cell changes that cell only.
LEMMA CellAdded ==
    ASSUME NEW t \in Table, NEW p \in Prio, NEW h \in Host, NEW o \in Level
    PROVE  /\ OneMore(t, p, h, o) \in Table
           /\ \A i \in Prio, j \in Host, l \in Level :
                 OneMore(t, p, h, o)[i][j][l] =
                    IF i = p /\ j = h /\ l = o THEN t[i][j][l] + 1 ELSE t[i][j][l]
  <1> DEFINE u == OneMore(t, p, h, o)
             cell == [t[p][h] EXCEPT ![o] = @ + 1]
             row == [t[p] EXCEPT ![h] = cell]
  <1>1. t[p] \in [Host -> [Level -> Nat]] /\ t[p][h] \in [Level -> Nat]
    BY DEF Table
  <1>2. /\ cell \in [Level -> Nat]
        /\ \A l \in Level : cell[l] = IF l = o THEN t[p][h][l] + 1 ELSE t[p][h][l]
    BY <1>1
  <1>3. u = [t EXCEPT ![p] = row]
    BY DEF OneMore
  <1> HIDE DEF cell
  <1>4. /\ row \in [Host -> [Level -> Nat]]
        /\ \A j \in Host : row[j] = IF j = h THEN cell ELSE t[p][j]
    BY <1>1, <1>2
  <1> HIDE DEF row
  <1>5. u \in Table /\ \A i \in Prio : u[i] = IF i = p THEN row ELSE t[i]
    BY <1>3, <1>4 DEF Table
  <1> QED BY <1>2, <1>4, <1>5

\* Element e of a sender is counted in its cell.
Tallied(e) ==
    count' = IF e.sender
             THEN [count EXCEPT ![find_port(e.port)][tgthost(e)]
                     [IF e.path = "some" THEN "accepted" ELSE "rejected"] = @ + 1]
             ELSE count

\* Where the elements of a poll are counted.
LEMMA CountStep ==
    ASSUME TypeOK, Bounded, CountsTrue, NEW e \in Element, tgthost(e) # 0,
           Tallied(e), seen' = Append(seen, e), UNCHANGED <<ports, map>>
    PROVE  count' \in Table /\ CountsTrue'
  <1> DEFINE p == find_port(e.port)
             h == tgthost(e)
             o == IF e.path = "some" THEN "accepted" ELSE "rejected"
  <1>1. /\ p \in 0 .. nprio - 1 /\ p \in Prio
        /\ \A i \in 0 .. nprio - 1 : OfEntry(e, i) <=> i = p
    BY EntryIs
  <1>2. /\ h \in 1 .. nhosts /\ h \in Host
        /\ \A j \in 1 .. nhosts : OfHost(e, j) <=> j = h
    BY HostIs
  <1>3. o \in Level /\ \A l \in Level : ((l = "accepted") = (e.path = "some")) <=> l = o
    BY DEF Level
  <1>4. count' = IF e.sender THEN [count EXCEPT ![p][h][o] = @ + 1] ELSE count
    BY DEF Tallied
  <1>5. /\ \A i \in 0 .. nprio - 1 : i \in Prio
        /\ \A j \in 1 .. nhosts : j \in Host
    <2>1. nprio - 1 <= MaxLines /\ nprio - 1 \in Nat /\ MaxLines \in Nat
      BY SvcAssumption DEF TypeOK, Bounded, nprio
    <2>2. \A i \in 0 .. nprio - 1 : i \in Prio
      BY <2>1 DEF Prio
    <2> QED BY <2>2, HostBound
  <1> HIDE DEF p, h, o
  <1>6. count \in Table
    BY DEF TypeOK, Table
  <1>u. ASSUME e.sender
        PROVE  /\ count' \in Table
               /\ \A i \in Prio, j \in Host, l \in Level :
                     count'[i][j][l] = IF i = p /\ j = h /\ l = o THEN count[i][j][l] + 1
                                       ELSE count[i][j][l]
    <2>1. count' = [count EXCEPT ![p][h][o] = @ + 1]
      BY <1>4, <1>u, Zenon
    <2>2. count' = OneMore(count, p, h, o)
      BY <2>1 DEF OneMore
    <2>3. p \in Prio /\ h \in Host /\ o \in Level
      BY <1>1, <1>2, <1>3
    <2> QED BY <1>6, <2>2, <2>3, CellAdded
  <1>7. count' \in Table
    BY <1>4, <1>6, <1>u, Zenon
  <1>8. ASSUME NEW i \in Prio, NEW j \in Host, NEW l \in Level
        PROVE  count'[i][j][l] = IF e.sender /\ i = p /\ j = h /\ l = o
                                 THEN count[i][j][l] + 1 ELSE count[i][j][l]
    <2>1. CASE e.sender
      BY <1>u, <1>8, <2>1
    <2>2. CASE ~ e.sender
      BY <1>4, <2>2, Zenon
    <2> QED BY <2>1, <2>2
  <1>9. /\ Len(seen) \in Nat /\ Len(seen') = Len(seen) + 1 /\ seen'[Len(seen) + 1] = e
        /\ \A n \in 1 .. Len(seen) : seen'[n] = seen[n]
    <2>1. seen \in Seq(Element)
      BY DEF TypeOK
    <2> QED BY <2>1
  <1>10. /\ nprio' = nprio /\ nhosts' = nhosts
         /\ \A x, i : OfEntry(x, i)' <=> OfEntry(x, i)
         /\ \A x, j : OfHost(x, j)' <=> OfHost(x, j)
    BY DEF nprio, nhosts, OfEntry, OfHost, FirstWith, HasIp
  <1>11. ASSUME NEW i \in 0 .. nprio - 1, NEW j \in 1 .. nhosts, NEW l \in Level
         PROVE  count'[i][j][l] = Reference(i, j, l)'
    <2> DEFINE C == Counted(i, j, l)
               new == Len(seen) + 1
               hit == e.sender /\ i = p /\ j = h /\ l = o
    <2>1. C \in SUBSET (1 .. Len(seen)) /\ new \notin C
      BY <1>9 DEF Counted
    <2>2. IsFiniteSet(C)
      <3>1. IsFiniteSet(1 .. Len(seen))
        BY <1>9, FS_Interval
      <3> HIDE DEF C
      <3> QED BY <2>1, <3>1, FS_Subset
    <2>3. hit <=> /\ e.sender /\ OfEntry(e, i) /\ OfHost(e, j)
                  /\ (l = "accepted") = (e.path = "some")
      BY <1>1, <1>2, <1>3, <1>11
    <2>4. Counted(i, j, l)' = IF hit THEN C \union {new} ELSE C
      <3>1. Counted(i, j, l)' = {n \in 1 .. new :
                /\ seen'[n].sender
                /\ OfEntry(seen'[n], i) /\ OfHost(seen'[n], j)
                /\ (l = "accepted") = (seen'[n].path = "some")}
        BY <1>9, <1>10 DEF Counted
      <3>2. \A n \in 1 .. new : n \in 1 .. Len(seen) \/ n = new
        BY <1>9
      <3>3. \A n \in 1 .. Len(seen) : n \in 1 .. new /\ seen'[n] = seen[n]
        BY <1>9
      <3>4. new \in 1 .. new /\ seen'[new] = e
        BY <1>9
      <3> HIDE DEF new, hit
      <3>5. \A n : n \in Counted(i, j, l)' <=> n \in C \/ (n = new /\ hit)
        BY <2>3, <3>1, <3>2, <3>3, <3>4 DEF Counted
      <3> QED BY <3>5
    <2> HIDE DEF C, new, hit
    <2>5. Cardinality(Counted(i, j, l)') = IF hit THEN Cardinality(C) + 1 ELSE Cardinality(C)
      BY <2>1, <2>2, <2>4, FS_AddElement
    <2>6. count[i][j][l] = Cardinality(C)
      BY <1>11, ReferenceIs DEF CountsTrue, C
    <2>7. Reference(i, j, l)' = Cardinality(Counted(i, j, l)')
      BY DEF Reference, Counted
    <2>8. count'[i][j][l] = IF hit THEN count[i][j][l] + 1 ELSE count[i][j][l]
      BY <1>5, <1>8, <1>11 DEF hit
    <2> QED BY <2>5, <2>6, <2>7, <2>8
  <1>12. CountsTrue'
    BY <1>10, <1>11 DEF CountsTrue
  <1> QED BY <1>7, <1>12

-----------------------------------------------------------------------------
(* The steps.                                                              *)

LeftRange == -MaxElapsed .. interval * Tick

\* The clock of a poll stays within its limit.
LEMMA TimeIs ==
    ASSUME elapsed \in Nat, elapsed <= MaxElapsed
    PROVE  /\ interval * Tick \in Nat /\ MaxElapsed \in Nat /\ MaxElapsed = interval * Tick + 1
           /\ \A d \in Nat : Later(d) \in Nat /\ Later(d) <= MaxElapsed
           /\ \A x \in Nat : x <= MaxElapsed =>
                interval * Tick - x \in LeftRange
  <1>1. interval * Tick \in Nat
    BY SvcAssumption
  <1> DEFINE m == interval * Tick
  <1>2. m \in Nat /\ MaxElapsed = m + 1
    BY <1>1 DEF MaxElapsed
  <1> HIDE DEF m
  <1>3. \A d \in Nat : Later(d) \in Nat /\ Later(d) <= MaxElapsed
    BY <1>2 DEF Later
  <1>4. \A x \in Nat : x <= MaxElapsed => m - x \in LeftRange
    BY <1>2 DEF LeftRange, m
  <1> QED BY <1>2, <1>3, <1>4 DEF m

\* The types of the variables, apart from the table's.
Data ==
    /\ ports \in Seq(1 .. UINT16 - 1)
    /\ map \in Seq([host : Hosts, ips : Seq(IPs)])
    /\ aa \in Nat /\ rr \in Nat /\ senders \in Nat /\ elapsed \in Nat /\ polls \in Nat
    /\ got \in Nat
    /\ text \in Seq(Nat)
    /\ left \in LeftRange
    /\ seen \in Seq(Element)

Places == {"prios", "hosts", "poll", "perform", "parse", "count", "reported", "wait",
           "exited", "crashed"}

Rest ==
    /\ pc \in Places /\ live \in BOOLEAN
    /\ count \in Table /\ report \in Table /\ rv \in {AddressCode} \union Nat

\* The types, in the two parts the steps are proved by.
LEMMA TypeParts == TypeOK <=> Data /\ Rest
  BY DEF TypeOK, Data, Rest, Places, Table, LeftRange

\* The end of the process.
LEMMA EndedStep ==
    ASSUME IInv, Ended, pc' \in {"exited", "crashed"}, rv' \in {AddressCode} \union Nat
    PROVE  IInv'
  <1>1. /\ ports' = <<>> /\ map' = <<>> /\ text' = <<>> /\ seen' = <<>>
        /\ count' = Zero /\ report' = Zero
        /\ aa' = 0 /\ rr' = 0 /\ senders' = 0 /\ elapsed' = 0 /\ left' = 0 /\ got' = 0
        /\ UNCHANGED <<live, polls>>
    BY DEF Ended
  <1>2. Zero \in Table
    BY DEF Zero, Table
  <1>3. Data /\ pc \in Places /\ live \in BOOLEAN
    BY TypeParts DEF IInv, Rest
  <1>4. 0 \in LeftRange /\ 0 <= MaxElapsed
    BY SvcAssumption DEF MaxElapsed, LeftRange
  <1>5. Data'
    <2>1. <<>> \in Seq(1 .. UINT16 - 1) /\ <<>> \in Seq([host : Hosts, ips : Seq(IPs)])
      BY EmptySeq
    <2>2. <<>> \in Seq(Nat) /\ <<>> \in Seq(Element)
      BY EmptySeq
    <2>3. left' \in LeftRange
      BY <1>1, <1>4
    <2> QED BY <1>1, <1>3, <2>1, <2>2, <2>3 DEF Data
  <1>6. TypeOK'
    <2>1. Rest'
      BY <1>1, <1>2, <1>3 DEF Places, Rest
    <2> QED BY <1>5, <2>1, TypeParts, PTL
  <1>7. Bounded'
    <2>1. Len(<<>>) = 0 /\ 0 <= MaxLines
      BY SvcAssumption
    <2>2. Len(ports') <= MaxLines /\ elapsed' <= MaxElapsed
      BY <1>1, <1>4, <2>1
    <2>3. \A i, k \in 1 .. Len(map') : map'[i].host = map'[k].host => i = k
      BY <1>1, <2>1
    <2> QED BY <2>2, <2>3 DEF Bounded
  <1>8. Tidy' /\ Lines' /\ WholeAnswer'
    BY <1>1 DEF Tidy, Lines, WholeAnswer, nhosts
  <1>9. CountsTrue'
    <2>1. NothingCounted'
      BY <1>1 DEF NothingCounted, Zero
    <2> QED BY <1>6, <1>7, <2>1, ZeroCounts, PTL
  <1> QED BY <1>6, <1>7, <1>8, <1>9 DEF IInv

\* A step of the poll or of the wait that leaves the configuration, the table and
\* the elements alone.
LEMMA QuietStep ==
    ASSUME IInv, UNCHANGED <<ports, map, count, seen, live, rv, report, polls>>,
           aa' \in Nat, rr' \in Nat, senders' \in Nat,
           pc' \in Places, pc' \in {"prios", "hosts"} => pc \in {"prios", "hosts"},
           pc' \in {"reported", "wait"} => pc \in {"reported", "wait"},
           elapsed' \in Nat, elapsed' <= MaxElapsed,
           left' \in LeftRange,
           got' \in Nat, text' \in Seq(Nat),
           pc' \notin {"perform", "parse"} => text' = <<>>,
           WholeAnswer'
    PROVE  IInv'
  <1>1. Data /\ Rest
    BY TypeParts DEF IInv
  <1>2. Data' /\ Rest'
    BY <1>1 DEF Data, Rest
  <1>3. TypeOK'
    BY <1>1, <1>2, TypeParts, PTL
  <1>4. Bounded'
    BY DEF IInv, Bounded, MaxElapsed
  <1>5. Tidy'
    BY DEF IInv, Tidy, NothingCounted, Zero
  <1>6. Lines'
    BY DEF IInv, Lines, nhosts
  <1>7. CountsTrue'
    BY SameCounts DEF IInv
  <1> QED BY <1>3, <1>4, <1>5, <1>6, <1>7 DEF IInv

\* A line of the configuration: nothing has been counted yet.
LEMMA AddPrioStep ==
    ASSUME IInv, NEW n \in Values, addprio(n)
    PROVE  IInv'
  <1>1. /\ pc = "prios" /\ Len(ports) < MaxLines
        /\ ports' = IF uint16(n) = 0 THEN ports ELSE Append(ports, uint16(n))
        /\ UNCHANGED <<pc, live, map, count, aa, rr, senders, text, report, elapsed, left, rv,
                       polls, got, seen>>
    BY DEF addprio, sums, time
  <1>2. Data /\ Rest
    BY TypeParts DEF IInv
  <1>3. uint16(n) # 0 => uint16(n) \in 1 .. UINT16 - 1
    <2>1. UINT16 \in Nat /\ UINT16 > 0
      BY DEF UINT16
    <2>2. n \in Nat
      BY SvcAssumption
    <2> QED BY <2>1, <2>2 DEF uint16
  <1>4. ports' \in Seq(1 .. UINT16 - 1) /\ Len(ports') <= MaxLines
    <2>1. ports \in Seq(1 .. UINT16 - 1) /\ Len(ports) \in Nat /\ MaxLines \in Nat
      BY <1>2, SvcAssumption DEF Data
    <2>2. CASE uint16(n) = 0
      BY <1>1, <2>1, <2>2
    <2>3. CASE uint16(n) # 0
      <3>1. ports' = Append(ports, uint16(n))
        BY <1>1, <2>3
      <3> QED BY <1>1, <1>3, <2>1, <2>3, <3>1
    <2> QED BY <2>2, <2>3
  <1>5. TypeOK'
    <2>1. Data' /\ Rest'
      BY <1>1, <1>2, <1>4 DEF Data, Rest
    <2> QED BY <2>1, TypeParts, PTL
  <1>6. Bounded'
    BY <1>1, <1>4 DEF IInv, Bounded, MaxElapsed
  <1>7. NothingCounted' /\ Tidy'
    BY <1>1 DEF IInv, Tidy, NothingCounted, Zero
  <1>8. Lines' /\ WholeAnswer'
    BY <1>1 DEF Lines, WholeAnswer
  <1>9. CountsTrue'
    BY <1>5, <1>6, <1>7, ZeroCounts, PTL
  <1> QED BY <1>5, <1>6, <1>7, <1>8, <1>9 DEF IInv

\* An address of node_info.json: the table of hosts keeps one line for each name.
LEMMA AddIpStep ==
    ASSUME IInv, NEW name \in Hosts, NEW a \in Addresses, add_ip_to_host(name, a)
    PROVE  IInv'
  <1> DEFINE n == nhosts
             Line == [host : Hosts, ips : Seq(IPs)]
             known == \E i \in 1 .. n : map[i].host = name
             more == [i \in 1 .. n |-> IF map[i].host = name
                                       THEN [map[i] EXCEPT !.ips = Append(@, a.ip)]
                                       ELSE map[i]]
             new == [host |-> name, ips |-> <<a.ip>>]
  <1>1. /\ pc = "hosts"
        /\ map' = IF known THEN more ELSE Append(map, new)
        /\ UNCHANGED <<pc, live, ports, count, aa, rr, senders, text, report, elapsed, left, rv,
                       polls, got, seen>>
    BY DEF add_ip_to_host, sums, time
  <1>2. Data /\ Rest
    BY TypeParts DEF IInv
  <1>3. map \in Seq(Line) /\ a.ip \in IPs /\ n = Len(map)
    BY <1>2, SvcAssumption DEF Data, nhosts
  <1>4. n \in Nat /\ \A i \in 1 .. n : map[i] \in Line
    BY <1>3, LenProperties, ElementOfSeq
  <1>5. \A i \in 1 .. n : map[i].host \in Hosts /\ map[i].ips \in Seq(IPs)
    BY <1>4
  <1>6. new \in Line /\ new.host = name
    BY <1>3
  <1>7. ASSUME NEW i \in 1 .. n
        PROVE  more[i] \in Line /\ more[i].host = map[i].host
    <2>1. Append(map[i].ips, a.ip) \in Seq(IPs)
      BY <1>3, <1>5
    <2>2. /\ [map[i] EXCEPT !.ips = Append(@, a.ip)] \in Line
          /\ [map[i] EXCEPT !.ips = Append(@, a.ip)].host = map[i].host
      BY <1>4, <2>1
    <2> QED BY <1>4, <2>2
  <1>8. more \in Seq(Line) /\ Len(more) = n
    <2>1. more \in [1 .. n -> Line]
      BY <1>7
    <2> HIDE DEF more
    <2> HIDE DEF n, Line
    <2>2. more \in Seq(Line)
      <3>1. Seq(Line) = UNION {[1 .. k -> Line] : k \in Nat}
        BY SeqDef
      <3> QED BY <1>4, <2>1, <3>1
    <2>3. Len(more) \in Nat /\ 1 .. Len(more) = 1 .. n
      BY <2>1, <2>2, LenProperties
    <2> DEFINE m == Len(more)
    <2>4. m \in Nat /\ 1 .. m = 1 .. n
      BY <2>3
    <2> HIDE DEF m
    <2>5. ~ (m < n) /\ ~ (n < m)
      <3>1. m < n => n \in 1 .. n /\ n \notin 1 .. m
        BY <1>4, <2>4
      <3>2. n < m => m \in 1 .. m /\ m \notin 1 .. n
        BY <1>4, <2>4
      <3> QED BY <2>4, <3>1, <3>2
    <2>6. m = n
      BY <1>4, <2>4, <2>5
    <2> QED BY <2>2, <2>6 DEF m
  <1> HIDE DEF more, new, Line
  <1>9. /\ map' \in Seq(Line)
        /\ \A i, k \in 1 .. Len(map') : map'[i].host = map'[k].host => i = k
    <2>0. \A i, k \in 1 .. n : map[i].host = map[k].host => i = k
      BY <1>3 DEF IInv, Bounded
    <2>1. CASE known
      <3>1. map' = more
        BY <1>1, <2>1
      <3>2. \A i, k \in 1 .. n : more[i].host = more[k].host => i = k
        BY <1>7, <2>0
      <3> QED BY <1>8, <3>1, <3>2
    <2>2. CASE ~ known
      <3>1. map' = Append(map, new)
        BY <1>1, <2>2
      <3>2. /\ map' \in Seq(Line) /\ Len(map') = n + 1 /\ map'[n + 1] = new
            /\ \A i \in 1 .. n : map'[i] = map[i]
        BY <1>3, <1>6, <3>1
      <3>3. \A i \in 1 .. n : map'[i].host = map[i].host /\ map'[i].host # name
        BY <2>2, <3>2
      <3>4. \A i \in 1 .. Len(map') : i \in 1 .. n \/ i = n + 1
        BY <1>4, <3>2
      <3> HIDE DEF n, known
      <3>5. ASSUME NEW i \in 1 .. Len(map'), NEW k \in 1 .. Len(map'),
                   map'[i].host = map'[k].host
            PROVE  i = k
        <4>1. CASE i \in 1 .. n /\ k \in 1 .. n
          BY <2>0, <3>3, <3>5, <4>1
        <4>2. CASE i = n + 1 \/ k = n + 1
          BY <1>6, <3>2, <3>3, <3>4, <3>5, <4>2
        <4> QED BY <3>4, <4>1, <4>2
      <3> QED BY <3>2, <3>5
    <2> QED BY <2>1, <2>2
  <1>10. TypeOK'
    <2>1. Data' /\ Rest'
      BY <1>1, <1>2, <1>9 DEF Data, Rest, Line
    <2> QED BY <2>1, TypeParts, PTL
  <1>11. Bounded'
    BY <1>1, <1>9 DEF IInv, Bounded, MaxElapsed
  <1>12. NothingCounted' /\ Tidy'
    BY <1>1 DEF IInv, Tidy, NothingCounted, Zero
  <1>13. Lines' /\ WholeAnswer'
    BY <1>1 DEF Lines, WholeAnswer
  <1>14. CountsTrue'
    BY <1>10, <1>11, <1>12, ZeroCounts, PTL
  <1> QED BY <1>10, <1>11, <1>12, <1>13, <1>14 DEF IInv

\* A new poll starts from nothing.
LEMMA BeginPollStep == ASSUME IInv, BeginPoll PROVE IInv'
  <1>1. /\ pc = "poll" /\ pc' \in {"perform", "parse"} /\ count' = Zero /\ report' = Zero
        /\ elapsed' = 0 /\ polls' = polls + 1 /\ got' = 0 /\ seen' = <<>>
        /\ UNCHANGED <<live, ports, map, aa, rr, senders, text, left, rv>>
    BY DEF BeginPoll, Cleared, conf
  <1>2. Data /\ Rest
    BY TypeParts DEF IInv
  <1>3. text = <<>>
    BY <1>1 DEF IInv, Tidy
  <1>4. Zero \in Table /\ <<>> \in Seq(Element) /\ 0 <= MaxElapsed
    BY SvcAssumption DEF Zero, Table, MaxElapsed
  <1>5. TypeOK'
    <2>1. Data'
      BY <1>1, <1>2, <1>4 DEF Data
    <2>2. Rest'
      BY <1>1, <1>2, <1>4 DEF Rest, Places
    <2> QED BY <2>1, <2>2, TypeParts, PTL
  <1>6. Bounded'
    <2>1. elapsed' <= MaxElapsed
      BY <1>1, <1>4
    <2> QED BY <1>1, <2>1 DEF IInv, Bounded
  <1>7. NothingCounted' /\ Tidy'
    BY <1>1 DEF Tidy, NothingCounted, Zero
  <1>8. Lines'
    BY <1>1 DEF Lines
  <1>9. WholeAnswer'
    BY <1>1, <1>3 DEF WholeAnswer
  <1>10. CountsTrue'
    BY <1>5, <1>6, <1>7, ZeroCounts, PTL
  <1> QED BY <1>5, <1>6, <1>7, <1>8, <1>9, <1>10 DEF IInv

\* An element of the answer is counted.
LEMMA ElementStep ==
    ASSUME IInv, NEW e \in Requests, Count(e), pc' # "exited"
    PROVE  IInv'
  <1>1. /\ pc = "count" /\ tgthost(e) # 0 /\ Tallied(e)
        /\ senders' = IF e.sender THEN senders + 1 ELSE senders
        /\ aa' = IF e.sender /\ e.path = "some" THEN aa + 1 ELSE aa
        /\ rr' = IF e.sender /\ Rejected(e) THEN rr + 1 ELSE rr
        /\ seen' = Append(seen, e)
        /\ UNCHANGED <<pc, live, ports, map, text, report, elapsed, left, rv, polls, got>>
    BY DEF Count, Exit, Tallied, conf, time
  <1>2. Data /\ Rest
    BY TypeParts DEF IInv
  <1>3. e \in Element
    BY SvcAssumption
  <1>4. count' \in Table /\ CountsTrue'
    BY <1>1, <1>3, CountStep DEF IInv
  <1>5. seen' \in Seq(Element)
    BY <1>1, <1>2, <1>3 DEF Data
  <1>6. aa' \in Nat /\ rr' \in Nat /\ senders' \in Nat
    BY <1>1, <1>2 DEF Data
  <1>7. TypeOK'
    <2>1. Data'
      BY <1>1, <1>2, <1>5, <1>6 DEF Data
    <2>2. Rest'
      BY <1>1, <1>2, <1>4 DEF Rest
    <2> QED BY <2>1, <2>2, TypeParts, PTL
  <1>8. Bounded'
    BY <1>1 DEF IInv, Bounded, MaxElapsed
  <1>9. Tidy' /\ Lines' /\ WholeAnswer'
    BY <1>1 DEF IInv, Tidy, Lines, WholeAnswer
  <1> QED BY <1>4, <1>7, <1>8, <1>9 DEF IInv

\* The lines are written from the table.
LEMMA ReportStep == ASSUME IInv, Report, pc' # "crashed" PROVE IInv'
  <1>1. /\ pc = "count" /\ pc' = "reported"
        /\ report' = [i \in Prio |-> [j \in Host |->
                IF i < nprio /\ j <= nhosts THEN LineOf(i, j) ELSE Zero[i][j]]]
        /\ UNCHANGED <<live, ports, map, count, aa, rr, senders, text, elapsed, left, rv, polls,
                       got, seen>>
    BY DEF Report, Crash, conf, sums, time
  <1>2. Data /\ Rest
    BY TypeParts DEF IInv
  <1>3. 0 \in Prio /\ 0 < nprio /\ nhosts \in Nat /\ 1 .. nhosts \subseteq Host
    <2>1. Len(ports) \in Nat /\ MaxLines \in Nat
      BY <1>2, SvcAssumption DEF Data
    <2> QED BY <2>1, HostBound DEF IInv, nprio, Prio
  <1>4. count[0] \in [Host -> [Level -> Nat]]
    BY <1>2, <1>3 DEF Rest, Table
  <1>5. report' \in Table
    <2>1. \A i \in Prio, j \in Host : Zero[i][j] \in [Level -> Nat]
      BY DEF Zero
    <2>2. \A i \in Prio, j \in Host : LineOf(i, j) \in [Level -> Nat]
      BY <1>4 DEF LineOf
    <2> QED BY <1>1, <2>1, <2>2 DEF Table
  <1>6. ASSUME NEW j \in 1 .. nhosts PROVE report'[0][j] = count[0][j]
    <2>1. j \in Host /\ j <= nhosts
      BY <1>3
    <2> QED BY <1>1, <1>3, <2>1 DEF LineOf
  <1>7. TypeOK'
    <2>1. Data' /\ Rest'
      BY <1>1, <1>2, <1>5 DEF Data, Rest, Places
    <2> QED BY <2>1, TypeParts, PTL
  <1>8. Bounded'
    BY <1>1 DEF IInv, Bounded, MaxElapsed
  <1>9. Tidy' /\ WholeAnswer'
    BY <1>1 DEF IInv, Tidy, WholeAnswer
  <1>10. Lines'
    BY <1>1, <1>6 DEF Lines, nhosts
  <1>11. CountsTrue'
    BY <1>1, SameCounts DEF IInv
  <1> QED BY <1>7, <1>8, <1>9, <1>10, <1>11 DEF IInv

\* The steps between: the configuration is complete, the answer arrives and is
\* parsed, and time passes.
LEMMA BetweenStep ==
    ASSUME IInv, pc' \notin {"exited", "crashed"},
           \/ PriosRead \/ HostsRead \/ ServiceTakesTime \/ curldata \/ Performed \/ Parse
           \/ BeginWait \/ Sleep \/ Interrupted \/ EndWait
    PROVE  IInv'
  <1>1. Data /\ Rest /\ Tidy /\ WholeAnswer /\ elapsed <= MaxElapsed
    BY TypeParts DEF IInv, Bounded
  <1>2. /\ aa \in Nat /\ rr \in Nat /\ senders \in Nat /\ elapsed \in Nat /\ got \in Nat
        /\ polls \in Nat /\ text \in Seq(Nat) /\ left \in LeftRange /\ pc \in Places
    BY <1>1 DEF Data, Rest
  <1>3. /\ \A d \in Nat : Later(d) \in Nat /\ Later(d) <= MaxElapsed
        /\ \A x \in Nat : x <= MaxElapsed => interval * Tick - x \in LeftRange
        /\ MaxElapsed \in Nat
    BY <1>1, <1>2, TimeIs
  <1>4. left % Tick \in Nat
    <2>1. left \in Int
      BY <1>2, SvcAssumption DEF LeftRange, MaxElapsed
    <2> QED BY <2>1, SvcAssumption
  <1>5. CASE PriosRead \/ HostsRead \/ EndWait
    <2>1. /\ UNCHANGED <<ports, map, count, seen, live, rv, report, polls, aa, rr, senders,
                         elapsed, left, got, text>>
          /\ \/ pc = "prios" /\ pc' = "hosts"
             \/ pc \in {"hosts", "wait"} /\ pc' = "poll"
      BY <1>5 DEF PriosRead, HostsRead, EndWait, Exit, Crash, conf, sums, time
    <2>2. WholeAnswer' /\ pc' \in Places /\ text' = <<>>
      BY <1>1, <2>1 DEF WholeAnswer, Places, Tidy
    <2> QED BY <1>1, <1>2, <2>1, <2>2, QuietStep
  <1>6. CASE ServiceTakesTime
    <2>1. /\ UNCHANGED <<ports, map, count, seen, live, rv, report, polls, aa, rr, senders,
                         left, got, text, pc>>
          /\ elapsed' = Later(1)
      BY <1>6 DEF ServiceTakesTime, conf, sums
    <2>2. WholeAnswer' /\ (pc' \notin {"perform", "parse"} => text' = <<>>)
      BY <1>1, <2>1 DEF WholeAnswer, Tidy
    <2> QED BY <1>1, <1>2, <1>3, <2>1, <2>2, QuietStep
  <1>7. CASE curldata
    <2>1. /\ UNCHANGED <<ports, map, count, seen, live, rv, report, polls, aa, rr, senders,
                         left, elapsed, pc>>
          /\ pc = "perform" /\ text' = Append(text, polls) /\ got' = got + 1
      BY <1>7 DEF curldata, conf, sums, time
    <2>2. /\ text' \in Seq(Nat) /\ Len(text') = Len(text) + 1 /\ Len(text) \in Nat
          /\ \A n \in 1 .. Len(text') : text'[n] = text[n] \/ text'[n] = polls
          /\ \A n \in 1 .. Len(text) : text'[n] = text[n]
          /\ text'[Len(text) + 1] = polls
      BY <1>2, <2>1
    <2>3. Len(text) = got /\ \A n \in 1 .. Len(text) : text[n] = polls
      BY <1>1, <2>1 DEF WholeAnswer
    <2>4. \A n \in 1 .. Len(text') : n \in 1 .. Len(text) \/ n = Len(text) + 1
      BY <2>2
    <2>5. Len(text') = got' /\ \A n \in 1 .. Len(text') : text'[n] = polls
      BY <1>2, <2>1, <2>2, <2>3, <2>4
    <2>6. WholeAnswer'
      BY <2>1, <2>5 DEF WholeAnswer
    <2> QED BY <1>1, <1>2, <2>1, <2>2, <2>6, QuietStep
  <1>8. CASE Performed
    <2>1. /\ UNCHANGED <<ports, map, count, seen, live, rv, report, polls, aa, rr, senders,
                         left, elapsed, got, text>>
          /\ pc = "perform" /\ pc' = "parse"
      BY <1>8 DEF Performed, Exit, conf, sums, time
    <2>2. WholeAnswer' /\ pc' \in Places
      BY <1>1, <2>1 DEF WholeAnswer, Places
    <2> QED BY <1>1, <1>2, <2>1, <2>2, QuietStep
  <1>9. CASE Parse
    <2>1. /\ UNCHANGED <<ports, map, count, seen, live, rv, report, polls, left, elapsed>>
          /\ aa' = 0 /\ rr' = 0 /\ senders' = 0 /\ got' = 0 /\ text' = <<>>
          /\ pc' = "count"
      BY <1>9 DEF Parse, Released, Exit, conf, time
    <2>2. WholeAnswer' /\ pc' \in Places /\ <<>> \in Seq(Nat)
      BY <2>1 DEF WholeAnswer, Places
    <2> QED BY <1>1, <1>2, <2>1, <2>2, QuietStep
  <1>10. CASE BeginWait
    <2>1. /\ UNCHANGED <<ports, map, count, seen, live, rv, report, polls, aa, rr, senders,
                         elapsed, got, text>>
          /\ pc = "reported" /\ pc' = "wait" /\ left' = interval * Tick - elapsed
      BY <1>10 DEF BeginWait, TimeLeft, conf, sums
    <2>2. WholeAnswer' /\ pc' \in Places /\ text' = <<>>
      BY <1>1, <2>1 DEF WholeAnswer, Places, Tidy
    <2>3. left' \in LeftRange
      BY <1>1, <1>2, <1>3, <2>1
    <2> QED BY <1>1, <1>2, <2>1, <2>2, <2>3, QuietStep
  <1>11. CASE Sleep \/ Interrupted
    <2>1. /\ UNCHANGED <<ports, map, count, seen, live, rv, report, polls, aa, rr, senders,
                         got, text, pc>>
          /\ pc = "wait"
          /\ \/ elapsed' = Later(left % Tick) /\ UNCHANGED left
             \/ /\ elapsed' \in elapsed .. Later(left % Tick)
                /\ left' = interval * Tick - elapsed'
      BY <1>11 DEF Sleep, Interrupted, conf, sums
    <2>2. WholeAnswer' /\ text' = <<>>
      BY <1>1, <2>1 DEF WholeAnswer, Tidy
    <2>3. Later(left % Tick) \in Nat /\ Later(left % Tick) <= MaxElapsed
      BY <1>3, <1>4
    <2>4. elapsed' \in Nat /\ elapsed' <= MaxElapsed
      <3> DEFINE t == Later(left % Tick)
      <3>1. /\ t \in Nat /\ t <= MaxElapsed /\ MaxElapsed \in Nat /\ elapsed \in Nat
            /\ elapsed' = t \/ elapsed' \in elapsed .. t
        BY <1>2, <1>3, <2>1, <2>3
      <3> HIDE DEF t
      <3>2. CASE elapsed' = t
        BY <3>1, <3>2
      <3>3. CASE elapsed' \in elapsed .. t
        <4>1. elapsed' \in Int /\ elapsed <= elapsed' /\ elapsed' <= t
          BY <3>1, <3>3
        <4> QED BY <3>1, <4>1
      <3> QED BY <3>1, <3>2, <3>3
    <2>5. left' \in LeftRange
      BY <1>2, <1>3, <2>1, <2>4
    <2> QED BY <1>1, <1>2, <2>1, <2>2, <2>4, <2>5, QuietStep
  <1> QED BY <1>5, <1>6, <1>7, <1>8, <1>9, <1>10, <1>11

-----------------------------------------------------------------------------
(* The theorems.                                                           *)

\* The invariant holds at the start.
LEMMA InitIInv == Init => IInv
  <1> SUFFICES ASSUME Init PROVE IInv
    OBVIOUS
  <1>1. /\ pc = "prios" /\ live \in BOOLEAN /\ ports = <<>> /\ map = <<>> /\ text = <<>>
        /\ seen = <<>> /\ count = Zero /\ report = Zero /\ aa = 0 /\ rr = 0 /\ senders = 0
        /\ elapsed = 0 /\ left = 0 /\ rv = 0 /\ polls = 0 /\ got = 0
    BY DEF Init
  <1>2. Zero \in Table
    BY DEF Zero, Table
  <1>3. 0 \in LeftRange /\ 0 <= MaxElapsed
    BY SvcAssumption DEF MaxElapsed, LeftRange
  <1>4. TypeOK
    <2>1. Data
      <3>1. <<>> \in Seq(1 .. UINT16 - 1) /\ <<>> \in Seq([host : Hosts, ips : Seq(IPs)])
        BY EmptySeq
      <3>2. <<>> \in Seq(Nat) /\ <<>> \in Seq(Element)
        BY EmptySeq
      <3> QED BY <1>1, <1>3, <3>1, <3>2 DEF Data
    <2>2. Rest
      BY <1>1, <1>2 DEF Rest, Places
    <2> QED BY <2>1, <2>2, TypeParts
  <1>5. Bounded
    <2>1. Len(ports) <= MaxLines /\ elapsed <= MaxElapsed
      BY <1>1, <1>3, SvcAssumption
    <2> QED BY <1>1, <2>1 DEF Bounded
  <1>6. NothingCounted /\ Tidy /\ Lines /\ WholeAnswer
    BY <1>1 DEF NothingCounted, Tidy, Lines, WholeAnswer
  <1>7. CountsTrue
    BY <1>4, <1>5, <1>6, ZeroCounts
  <1> QED BY <1>4, <1>5, <1>6, <1>7 DEF IInv

\* Every step keeps the invariant.
LEMMA NextIInv == IInv /\ [Next]_vars => IInv'
  <1> SUFFICES ASSUME IInv, [Next]_vars PROVE IInv'
    OBVIOUS
  <1>1. CASE pc' \in {"exited", "crashed"} /\ Ended /\ rv' \in {AddressCode} \union Nat
    BY <1>1, EndedStep
  <1>2. CASE UNCHANGED vars
    <2>1. UNCHANGED <<pc, live, ports, map, count, aa, rr, senders, text, report, elapsed, left,
                      rv, polls, got, seen>>
      BY <1>2 DEF vars, conf, sums, time
    <2>2. Data /\ Rest /\ elapsed <= MaxElapsed /\ WholeAnswer /\ Tidy
      BY TypeParts DEF IInv, Bounded
    <2>3. WholeAnswer' /\ (pc' \notin {"perform", "parse"} => text' = <<>>)
      BY <2>1, <2>2 DEF WholeAnswer, Tidy
    <2>4. /\ aa \in Nat /\ rr \in Nat /\ senders \in Nat /\ elapsed \in Nat /\ got \in Nat
          /\ text \in Seq(Nat) /\ left \in LeftRange /\ pc \in Places
      BY <2>2 DEF Data, Rest
    <2> QED BY <2>1, <2>2, <2>3, <2>4, QuietStep
  <1>3. ASSUME NEW code \in {AddressCode} \union Nat, Exit(code) PROVE IInv'
    BY <1>1, <1>3 DEF Exit
  <1>4. ASSUME Crash PROVE IInv'
    <2>1. rv \in {AddressCode} \union Nat
      BY TypeParts DEF IInv, Rest
    <2> QED BY <1>1, <1>4, <2>1 DEF Crash
  <1>5. \A code \in {0, 1, 2, 5, 6, 7, 9, 10, 12, 13, 14, 15, 16, 18, 19, 20, 22, AddressCode} :
            Exit(code) => IInv'
    BY <1>3
  <1>6. CASE PriosRead
    <2>1. Exit(2) \/ pc' = "hosts"
      BY <1>6 DEF PriosRead
    <2>2. pc' = "hosts" => IInv'
      BY <1>6, BetweenStep
    <2> QED BY <1>5, <2>1, <2>2
  <1>7. CASE HostsRead
    <2>1. Exit(0) \/ Exit(1) \/ Exit(22) \/ Crash \/ pc' = "poll"
      BY <1>7 DEF HostsRead
    <2>2. pc' = "poll" => IInv'
      BY <1>7, BetweenStep
    <2> QED BY <1>4, <1>5, <2>1, <2>2
  <1>8. CASE Performed
    <2>1. Exit(18) \/ Exit(19) \/ pc' = "parse"
      BY <1>8 DEF Performed
    <2>2. pc' = "parse" => IInv'
      BY <1>8, BetweenStep
    <2> QED BY <1>5, <2>1, <2>2
  <1>9. CASE Parse
    <2>1. Exit(AddressCode) \/ Exit(6) \/ pc' = "count"
      BY <1>9 DEF Parse
    <2>2. pc' = "count" => IInv'
      BY <1>9, BetweenStep
    <2> QED BY <1>5, <2>1, <2>2
  <1>10. CASE Report
    <2>1. Crash \/ pc' = "reported"
      BY <1>10 DEF Report
    <2>2. pc' = "reported" => IInv'
      BY <1>10, ReportStep
    <2> QED BY <1>4, <2>1, <2>2
  <1>11. ASSUME NEW e \in Requests, Count(e) PROVE IInv'
    <2>1. Exit(12) \/ pc' = "count"
      BY <1>11 DEF Count
    <2>2. pc' = "count" => IInv'
      BY <1>11, ElementStep
    <2> QED BY <1>5, <2>1, <2>2
  <1>12. CASE ServiceTakesTime \/ curldata \/ BeginWait \/ Sleep \/ Interrupted \/ EndWait
    <2>1. pc' \notin {"exited", "crashed"}
      BY <1>12 DEF ServiceTakesTime, curldata, BeginWait, Sleep, Interrupted, EndWait
    <2> QED BY <1>12, <2>1, BetweenStep
  <1>13. CASE Malformed \/ ClockFails
    BY <1>5, <1>13 DEF Malformed, ClockFails
  <1>14. CASE main
    BY <1>6, <1>7, <1>8, <1>9, <1>10, <1>12, <1>14, BeginPollStep DEF main
  <1>15. CASE Environment
    BY <1>11, <1>12, <1>13, <1>15, AddPrioStep, AddIpStep DEF Environment
  <1> QED BY <1>2, <1>14, <1>15 DEF Next

\* The inductive invariant holds in every state of the collector.
THEOREM InductiveInvariant == Spec => []IInv
  BY InitIInv, NextIInv, PTL DEF Spec

\* Every variable keeps its type; in particular the entries have ports of 16
\* bits that are not 0, and tv3 is never above the interval.
THEOREM TypesAlways == Spec => []TypeOK
  <1>1. IInv => TypeOK
    BY DEF IInv
  <1> QED BY <1>1, InductiveInvariant, PTL

\* Each cell of the table is the number of the senders' requests of this poll
\* that have its port, its host and its outcome, however many polls there were.
THEOREM CountsAlways == Spec => []CountsTrue
  <1>1. IInv => CountsTrue
    BY DEF IInv
  <1> QED BY <1>1, InductiveInvariant, PTL

\* The lines tagged X are the requests of this poll with a port that is not
\* configured.
THEOREM UnknownAlways == Spec => []UnknownTrue
  <1>1. IInv => UnknownTrue
    <2> SUFFICES ASSUME IInv, pc \in {"reported", "wait"}, NEW j \in 1 .. nhosts, NEW l \in Level
                 PROVE  report[0][j][l] = Reference(0, j, l)
      BY DEF UnknownTrue
    <2>1. report[0][j][l] = count[0][j][l]
      BY DEF IInv, Lines
    <2>2. 0 \in 0 .. nprio - 1
      <3>1. Len(ports) \in Nat
        BY DEF IInv, TypeOK
      <3> QED BY <3>1 DEF nprio
    <2>3. count[0][j][l] = Reference(0, j, l)
      BY <2>2 DEF IInv, CountsTrue
    <2> QED BY <2>1, <2>3
  <1> QED BY <1>1, InductiveInvariant, PTL

\* What is parsed is the answer to this poll, all of its pieces and no piece of
\* an earlier one.
THEOREM WholeAnswerAlways == Spec => []WholeAnswer
  <1>1. IInv => WholeAnswer
    BY DEF IInv
  <1> QED BY <1>1, InductiveInvariant, PTL

-----------------------------------------------------------------------------
(* The totals.                                                             *)

\* Nothing is counted before the answer has been parsed, and then the totals
\* agree with the table.
Totals == (pc \in {"perform", "parse"} => count = Zero) /\ TotalsAgree

\* The cells are finitely many, and each has a number.
LEMMA CellsFinite ==
    ASSUME count \in Table
    PROVE  /\ IsFiniteSet(Prio \X Host)
           /\ \A l \in Level : /\ DOMAIN Cells(l) = Prio \X Host
                               /\ \A c \in Prio \X Host : Cells(l)[c] \in Nat
  <1>1. IsFiniteSet(Prio) /\ IsFiniteSet(Host)
    <2>1. MaxLines \in Int /\ Cardinality(Hosts) \in Int
      BY SvcAssumption, FS_CardinalityType
    <2> QED BY <2>1, FS_Interval DEF Prio, Host
  <1>2. IsFiniteSet(Prio \X Host)
    BY <1>1, FS_Product
  <1> QED BY <1>2 DEF Cells, Table

\* The sum over an empty table is 0.
LEMMA ZeroTotals ==
    count = Zero => \A l \in Level : SumFunction(Cells(l)) = 0
  <1> SUFFICES ASSUME count = Zero, NEW l \in Level PROVE SumFunction(Cells(l)) = 0
    OBVIOUS
  <1>1. count \in Table
    BY DEF Zero, Table
  <1>2. \A c \in Prio \X Host : Cells(l)[c] = 0
    BY DEF Cells, Zero
  <1> QED BY <1>1, <1>2, CellsFinite, SumZero DEF SumFunction

\* Counting a sender's request adds one to the sum of its outcome, and nothing
\* to the other.
LEMMA TallyTotals ==
    ASSUME TypeOK, Bounded, NEW e \in Element, tgthost(e) # 0, e.sender, Tallied(e),
           NEW l \in Level
    PROVE  SumFunction(Cells(l))' =
             SumFunction(Cells(l)) + (IF (l = "accepted") = (e.path = "some") THEN 1 ELSE 0)
  <1> DEFINE p == find_port(e.port)
             h == tgthost(e)
             o == IF e.path = "some" THEN "accepted" ELSE "rejected"
             D == Prio \X Host
             f == Cells(l)
             g == [c \in D |-> count'[c[1]][c[2]][l]]
             a == <<p, h>>
  <1>1. p \in Prio /\ h \in Host
    BY EntryIs, HostIs
  <1>2. o \in Level /\ (((l = "accepted") = (e.path = "some")) <=> l = o)
    BY DEF Level
  <1>3. count' = [count EXCEPT ![p][h][o] = @ + 1]
    BY DEF Tallied
  <1>4. count \in Table
    BY DEF TypeOK, Table
  <1> HIDE DEF p, h, o
  <1>5. /\ count' \in Table
        /\ \A i \in Prio, j \in Host :
              count'[i][j][l] = IF i = p /\ j = h /\ l = o THEN count[i][j][l] + 1
                                ELSE count[i][j][l]
    <2>1. count' = OneMore(count, p, h, o)
      BY <1>3 DEF OneMore
    <2> QED BY <1>1, <1>2, <1>4, <2>1, CellAdded
  <1>6. IsFiniteSet(D) /\ a \in D
    BY <1>1, <1>4, CellsFinite
  <1>7. \A c \in D : /\ f[c] = count[c[1]][c[2]][l] /\ f[c] \in Nat
                     /\ g[c] = count'[c[1]][c[2]][l] /\ g[c] \in Nat
    BY <1>4, <1>5 DEF Cells, Table
  <1>8. \A c \in D : c # a => g[c] = f[c]
    BY <1>5, <1>7
  <1>9. g[a] = f[a] + (IF l = o THEN 1 ELSE 0)
    BY <1>1, <1>5, <1>7
  <1>10. SumFunction(Cells(l)) = SumFunctionOnSet(f, D)
    BY DEF SumFunction, Cells
  <1>11. SumFunction(Cells(l))' = SumFunctionOnSet(g, D)
    BY DEF SumFunction, Cells
  <1> HIDE DEF f, g, D, a
  <1>12. SumFunctionOnSet(g, D) = SumFunctionOnSet(f, D) + g[a] - f[a]
    BY <1>6, <1>7, <1>8, SumOneChanged
  <1>13. SumFunctionOnSet(f, D) \in Int /\ f[a] \in Int
    BY <1>6, <1>7, SumInt
  <1> DEFINE F == SumFunctionOnSet(f, D)
             G == SumFunctionOnSet(g, D)
             k == IF l = o THEN 1 ELSE 0
  <1>14. G = F + g[a] - f[a] /\ g[a] = f[a] + k /\ k \in Int /\ F \in Int /\ f[a] \in Int
    BY <1>9, <1>12, <1>13
  <1>15. G = F + k
    <2> HIDE DEF F, G, k
    <2> QED BY <1>14
  <1>16. k = IF (l = "accepted") = (e.path = "some") THEN 1 ELSE 0
    <2> HIDE DEF F, G
    <2> QED BY <1>2
  <1> HIDE DEF k
  <1> QED BY <1>10, <1>11, <1>15, <1>16, Zenon

\* Where the process ends, there is nothing to agree with.
LEMMA TotalsEnd ==
    ASSUME pc' \in {"exited", "crashed", "prios", "hosts", "poll"}
    PROVE  Totals'
  BY DEF Totals, TotalsAgree

\* Where nothing is counted, the totals stay with the table.
LEMMA TotalsQuiet ==
    ASSUME Totals, UNCHANGED sums,
           pc' = pc \/ (pc = "perform" /\ pc' = "parse")
             \/ (pc \in {"count", "reported"} /\ pc' \in {"reported", "wait"})
    PROVE  Totals'
  <1>1. UNCHANGED <<count, aa, rr, senders>>
    BY DEF sums
  <1>2. \A l : Cells(l)' = Cells(l)
    BY <1>1 DEF Cells
  <1>3. \A l : SumFunction(Cells(l))' = SumFunction(Cells(l))
    BY <1>2
  <1>4. pc' \in {"perform", "parse"} => count' = Zero
    BY <1>1 DEF Totals
  <1>5. ASSUME pc' \in {"count", "reported", "wait"}
        PROVE  /\ senders' = aa' + rr'
               /\ aa' = SumFunction(Cells("accepted"))'
               /\ rr' = SumFunction(Cells("rejected"))'
    <2>1. pc \in {"count", "reported", "wait"}
      BY <1>5
    <2>2. /\ senders = aa + rr
          /\ aa = SumFunction(Cells("accepted"))
          /\ rr = SumFunction(Cells("rejected"))
      BY <2>1 DEF Totals, TotalsAgree
    <2> QED BY <1>1, <1>3, <2>2
  <1> QED BY <1>4, <1>5 DEF Totals, TotalsAgree, Zero

\* Every step keeps the totals.
LEMMA TotalsStep == IInv /\ Totals /\ [Next]_vars => Totals'
  <1> SUFFICES ASSUME IInv, Totals, [Next]_vars PROVE Totals'
    OBVIOUS
  <1>1. ASSUME NEW code, Exit(code) PROVE Totals'
    BY <1>1, TotalsEnd DEF Exit
  <1>2. ASSUME Crash PROVE Totals'
    BY <1>2, TotalsEnd DEF Crash
  <1>3. CASE UNCHANGED vars
    BY <1>3, TotalsQuiet DEF vars, sums
  <1>4. CASE PriosRead
    BY <1>1, <1>4, TotalsEnd DEF PriosRead
  <1>5. CASE HostsRead
    BY <1>1, <1>2, <1>5, TotalsEnd DEF HostsRead
  <1>6. CASE BeginPoll
    BY <1>6 DEF BeginPoll, Cleared, Totals, TotalsAgree, Zero
  <1>7. CASE Performed
    BY <1>1, <1>7, TotalsQuiet DEF Performed
  <1>8. CASE Parse
    <2>1. CASE pc' = "count" /\ aa' = 0 /\ rr' = 0 /\ senders' = 0 /\ UNCHANGED count
      <3>1. count' = Zero
        BY <1>8, <2>1 DEF Parse, Totals
      <3>2. (\A l \in Level : SumFunction(Cells(l)) = 0)'
        <4>1. (count = Zero)'
          BY <3>1 DEF Zero
        <4> QED BY <4>1, ZeroTotals, PTL
      <3> QED BY <2>1, <3>2 DEF Totals, TotalsAgree, Level
    <2> QED BY <1>1, <1>8, <2>1 DEF Parse
  <1>9. CASE Report
    BY <1>2, <1>9, TotalsQuiet DEF Report
  <1>10. ASSUME NEW e \in Requests, Count(e) PROVE Totals'
    <2>1. CASE Exit(12)
      BY <1>1, <2>1
    <2>2. CASE ~ Exit(12)
      <3>1. /\ pc = "count" /\ pc' = "count" /\ tgthost(e) # 0 /\ Tallied(e)
            /\ senders' = IF e.sender THEN senders + 1 ELSE senders
            /\ aa' = IF e.sender /\ e.path = "some" THEN aa + 1 ELSE aa
            /\ rr' = IF e.sender /\ e.path # "some" THEN rr + 1 ELSE rr
        BY <1>10, <2>2 DEF Count, Tallied, Rejected
      <3>2. CASE ~ e.sender
        <4>1. UNCHANGED sums
          BY <3>1, <3>2 DEF sums, Tallied
        <4> QED BY <3>1, <4>1, TotalsQuiet
      <3>3. CASE e.sender
        <4>1. TypeOK /\ Bounded /\ e \in Element /\ aa \in Nat /\ rr \in Nat /\ senders \in Nat
          BY SvcAssumption DEF IInv, TypeOK
        <4>2. \A l \in Level : SumFunction(Cells(l))' = SumFunction(Cells(l)) +
                  (IF (l = "accepted") = (e.path = "some") THEN 1 ELSE 0)
          BY <3>1, <3>3, <4>1, TallyTotals
        <4>3. /\ SumFunction(Cells("accepted"))' =
                    SumFunction(Cells("accepted")) + (IF e.path = "some" THEN 1 ELSE 0)
              /\ SumFunction(Cells("rejected"))' =
                    SumFunction(Cells("rejected")) + (IF e.path = "some" THEN 0 ELSE 1)
          BY <4>2 DEF Level
        <4>4. /\ senders = aa + rr
              /\ aa = SumFunction(Cells("accepted")) /\ rr = SumFunction(Cells("rejected"))
          BY <3>1 DEF Totals, TotalsAgree
        <4>5. /\ senders' = aa' + rr'
              /\ aa' = SumFunction(Cells("accepted"))'
              /\ rr' = SumFunction(Cells("rejected"))'
          BY <3>1, <3>3, <4>1, <4>3, <4>4
        <4> QED BY <3>1, <4>5 DEF Totals, TotalsAgree
      <3> QED BY <3>2, <3>3
    <2> QED BY <2>1, <2>2
  <1>11. CASE ServiceTakesTime \/ curldata \/ BeginWait \/ Sleep \/ Interrupted
    BY <1>11, TotalsQuiet DEF ServiceTakesTime, curldata, BeginWait, Sleep, Interrupted
  <1>12. CASE EndWait
    BY <1>12, TotalsEnd DEF EndWait
  <1>13. CASE Malformed \/ ClockFails
    BY <1>1, <1>13 DEF Malformed, ClockFails
  <1>14. ASSUME NEW n \in Values, addprio(n) PROVE Totals'
    BY <1>14, TotalsQuiet DEF addprio
  <1>15. ASSUME NEW name \in Hosts, NEW ad \in Addresses, add_ip_to_host(name, ad)
         PROVE  Totals'
    BY <1>15, TotalsQuiet DEF add_ip_to_host
  <1>16. CASE main
    BY <1>4, <1>5, <1>6, <1>7, <1>8, <1>9, <1>11, <1>12, <1>16 DEF main
  <1>17. CASE Environment
    BY <1>10, <1>11, <1>13, <1>14, <1>15, <1>17 DEF Environment
  <1> QED BY <1>3, <1>16, <1>17 DEF Next

\* The totals agree with the table, however many entries, hosts and requests
\* there are: every sender's request is in one cell and in one total.
THEOREM TotalsAlways == Spec => []TotalsAgree
  <1>1. Init => Totals
    BY DEF Init, Totals, TotalsAgree
  <1>2. Totals => TotalsAgree
    BY DEF Totals
  <1> QED BY <1>1, <1>2, TotalsStep, InductiveInvariant, PTL DEF Spec
=============================================================================
