---------------------------- MODULE Svcreqollect ----------------------------
(***************************************************************************)
(* The other collector (svcreqollect.c): it asks a REST service for the    *)
(* service requests of the network, counts those of the senders by         *)
(* destination port and host, writes the counts as lines, and waits for    *)
(* the rest of its interval.  One thread does all of it; what makes it     *)
(* hard is the environment: answers in pieces, broken elements, a slow     *)
(* service and a clock that goes on.                                       *)
(*                                                                         *)
(* An element of the answer is a record of the keys that are read.  Time   *)
(* is in ticks, Tick of them a second, and is kept relative to the start   *)
(* of the poll.                                                            *)
(***************************************************************************)
EXTENDS Integers, Sequences, Functions, FiniteSetsExt

CONSTANTS
    Hosts,      \* names of the hosts in node_info.json
    Addresses,  \* their addresses: [ip, mask], a mask being cut off
    IPs,        \* what a request's src_ip and dst_ip are taken from
    Values,     \* the numbers behind '=' in the configuration
    Ports,      \* what a request's destination-port is taken from
    Requests,   \* the elements of answers that have all keys
    interval,   \* seconds (-t)
    Tick,       \* ticks in a second
    MaxLines,   \* bound on the lines of the configuration
    MaxIps,     \* bound on the addresses in node_info.json
    MaxChunks,  \* bound on the pieces of an answer
    MaxElems,   \* bound on the elements of an answer
    MaxPolls    \* bound on the polls

UINT16 == 2 ^ 16
Level == {"accepted", "rejected"}
Paths == {"none", "no array", "empty", "some"}
Element == [src_ip : IPs, dst_ip : IPs, port : Ports, sender : BOOLEAN, path : Paths]

ASSUME SvcAssumption ==
    /\ IsFiniteSet(Hosts)
    /\ Addresses \subseteq [ip : IPs, mask : BOOLEAN]
    /\ Values \subseteq Nat
    /\ Ports \subseteq 1 .. UINT16 - 1
    /\ Requests \subseteq Element
    /\ interval \in Nat \ {0} /\ Tick \in Nat \ {0}
    /\ {MaxLines, MaxIps, MaxChunks, MaxElems, MaxPolls} \subseteq Nat

VARIABLES
    pc,         \* where main() is
    live,       \* the service is asked; with -x a file is read
    ports,      \* priorities[i].dport, from i = 1; 0 is for other ports
    map,        \* the hosts and their addresses, in order
    count,      \* priorities[i].accepted[j] and .rejected[j], by level
    aa, rr, senders, \* totals of the poll
    text,       \* jsontext: the poll each of its pieces came from
    report,     \* the counts printed in this poll, by the line's number
    elapsed,    \* ticks since the poll began
    left,       \* tv3, in ticks
    rv,         \* the code main() returns
    \* for the properties
    polls,      \* polls begun
    got,        \* pieces the service sent in this poll, 0 once parsed
    seen        \* elements of this poll's answer looked at

conf == <<live, ports, map>>
sums == <<count, aa, rr, senders>>
time == <<elapsed, left>>
vars == <<pc, conf, sums, text, report, time, rv, polls, got, seen>>

nprio == Len(ports) + 1
nhosts == Len(map)
Prio == 0 .. MaxLines
Host == 1 .. Cardinality(Hosts)
AddressCode == -1   \* an exit code made of the bits of a pointer
Zero == [i \in Prio |-> [j \in Host |-> [l \in Level |-> 0]]]

Init ==
    /\ pc = "prios"
    /\ live \in BOOLEAN
    /\ ports = <<>> /\ map = <<>>
    /\ count = Zero /\ aa = 0 /\ rr = 0 /\ senders = 0
    /\ text = <<>> /\ report = Zero
    /\ elapsed = 0 /\ left = 0 /\ rv = 0
    /\ polls = 0 /\ got = 0 /\ seen = <<>>

\* The process ends, and with it what it held; main() releases it at abend.
Ended ==
    /\ ports' = <<>> /\ map' = <<>> /\ text' = <<>>
    /\ count' = Zero /\ report' = Zero /\ seen' = <<>>
    /\ aa' = 0 /\ rr' = 0 /\ senders' = 0
    /\ elapsed' = 0 /\ left' = 0
    /\ got' = 0
    /\ UNCHANGED <<live, polls>>

Exit(code) == pc' = "exited" /\ rv' = code /\ Ended

Crash == pc' = "crashed" /\ UNCHANGED rv /\ Ended

-----------------------------------------------------------------------------
(* The configuration.                                                      *)

\* Mutant: the number is not cut.
uint16Not(n) == n

uint16(n) == n % UINT16

\* A line whose port, cut to 16 bits, is 0 is no entry.
addprio(n) ==
    /\ pc = "prios" /\ Len(ports) < MaxLines
    /\ ports' = IF uint16(n) = 0 THEN ports ELSE Append(ports, uint16(n))
    /\ UNCHANGED <<pc, live, map, sums, text, report, time, rv, polls, got, seen>>

PriosRead ==
    /\ pc = "prios"
    /\ \/ /\ pc' = "hosts"
          /\ UNCHANGED <<conf, sums, text, report, time, rv, polls, got, seen>>
       \/ Exit(2)                   \* errno of fopen()

\* A new name gets the next number, an old one another address.  A mask is
\* cut off.
add_ip_to_host(name, a) ==
    /\ pc = "hosts"
    /\ MapThenSumSet(LAMBDA i : Len(map[i].ips), 1 .. nhosts) < MaxIps
    /\ map' = IF \E i \in 1 .. nhosts : map[i].host = name
              THEN [i \in 1 .. nhosts |->
                      IF map[i].host = name
                      THEN [map[i] EXCEPT !.ips = Append(@, a.ip)]
                      ELSE map[i]]
              ELSE Append(map, [host |-> name, ips |-> <<a.ip>>])
    /\ UNCHANGED <<pc, live, ports, sums, text, report, time, rv, polls, got, seen>>

\* A file that cannot be read is not noticed, and its NULL is followed.  When
\* it has no hosts, abend frees pointers of the configured entries that are
\* not set yet.  There, and when the set-up of cURL fails, abend also puts the
\* object of the file a second time.
HostsRead ==
    /\ pc = "hosts"
    /\ \/ /\ nhosts > 0
          /\ pc' = "poll"
          /\ UNCHANGED <<conf, sums, text, report, time, rv, polls, got, seen>>
       \/ nhosts > 0 /\ \E code \in {0, 1} : Exit(code)     \* set-up of cURL
       \/ nhosts = 0 /\ Exit(22)
       \/ Crash

-----------------------------------------------------------------------------
(* One poll: the answer.                                                   *)

\* Mutant: the counts of the last poll are kept.
ClearedNot == count

Cleared == Zero

BeginPoll ==
    /\ pc = "poll" /\ polls < MaxPolls
    /\ pc' = IF live THEN "perform" ELSE "parse"
    /\ count' = Cleared /\ report' = Zero
    /\ elapsed' = 0
    /\ polls' = polls + 1 /\ got' = 0 /\ seen' = <<>>
    /\ UNCHANGED <<conf, aa, rr, senders, text, left, rv>>

\* Once the interval is over, how long ago makes no difference.
MaxElapsed == interval * Tick + 1
Later(d) == IF elapsed + d < MaxElapsed THEN elapsed + d ELSE MaxElapsed

ServiceTakesTime ==
    /\ pc \in {"perform", "parse"} /\ elapsed < MaxElapsed
    /\ elapsed' = Later(1)
    /\ UNCHANGED <<pc, conf, sums, text, report, left, rv, polls, got, seen>>

curldata ==
    /\ pc = "perform" /\ got < MaxChunks
    /\ text' = Append(text, polls)
    /\ got' = got + 1
    /\ UNCHANGED <<pc, conf, sums, report, time, rv, polls, seen>>

\* curl_easy_perform() returns; an answer without a body leaves no text.
Performed ==
    /\ pc = "perform"
    /\ \/ Exit(18)                  \* curldata's failures too
       \/ text = <<>> /\ Exit(19)
       \/ /\ text # <<>>
          /\ pc' = "parse"
          /\ UNCHANGED <<conf, sums, text, report, time, rv, polls, got, seen>>

\* Mutant: the text is not released.
ReleasedNot == text

Released == <<>>

\* The sign of half a pointer is taken for the parser's error, and its real
\* error for an answer that is no array.
Parse ==
    /\ pc = "parse"
    /\ \/ Exit(AddressCode)
       \/ Exit(6)
       \/ /\ pc' = "count"
          /\ text' = Released
          /\ aa' = 0 /\ rr' = 0 /\ senders' = 0
          /\ got' = 0
          /\ UNCHANGED <<conf, count, report, time, rv, polls, seen>>

-----------------------------------------------------------------------------
(* One poll: the elements.                                                 *)

Least(S) == CHOOSE i \in S : \A k \in S : i <= k
Find(S) == IF S = {} THEN 0 ELSE Least(S)

HasIp(i, ip) == \E k \in 1 .. Len(map[i].ips) : map[i].ips[k] = ip

\* The host's number, 0 for none.
find_host(ip) == Find({i \in 1 .. nhosts : HasIp(i, ip)})

\* Mutant: the last entry of a port counts.
find_port_last(p) ==
    LET S == {i \in 1 .. Len(ports) : ports[i] = p} IN IF S = {} THEN 0 ELSE Max(S)

\* The entry's number; an unknown port counts as entry 0.
find_port(p) == Find({i \in 1 .. Len(ports) : ports[i] = p})

tgthost(e) ==
    IF find_host(e.src_ip) # 0 THEN find_host(e.src_ip) ELSE find_host(e.dst_ip)

\* Mutant: a request without a path is left out of the total.
RejectedMissing(e) == e.path \in {"no array", "empty"}

Rejected(e) == e.path # "some"

\* A key is missing, or the port is none: the code tells which.
Malformed == pc = "count" /\ \E code \in {7, 9, 10, 14, 15, 20} : Exit(code)

Count(e) ==
    /\ pc = "count" /\ Len(seen) < MaxElems
    /\ \/ tgthost(e) = 0 /\ Exit(12)
       \/ /\ tgthost(e) # 0
          /\ count' = IF e.sender
                      THEN [count EXCEPT ![find_port(e.port)][tgthost(e)]
                              [IF e.path = "some" THEN "accepted" ELSE "rejected"] = @ + 1]
                      ELSE count
          /\ senders' = IF e.sender THEN senders + 1 ELSE senders
          /\ aa' = IF e.sender /\ e.path = "some" THEN aa + 1 ELSE aa
          /\ rr' = IF e.sender /\ Rejected(e) THEN rr + 1 ELSE rr
          /\ seen' = Append(seen, e)
          /\ UNCHANGED <<pc, conf, text, report, time, rv, polls, got>>

\* Mutant: the lines of the hosts begin with the second.
LineNext(i, j) == IF j < nhosts THEN count[0][j + 1] ELSE count[0][j]

\* What the lines of an entry and a host say: always the counts of entry 0.
LineOf(i, j) == count[0][j]

\* All lines are written after the last element.  The message about the total
\* reads a clock that is not set, and may end the process with them unwritten.
Report ==
    /\ pc = "count"
    /\ \/ /\ report' = [i \in Prio |-> [j \in Host |->
                IF i < nprio /\ j <= nhosts THEN LineOf(i, j) ELSE Zero[i][j]]]
          /\ pc' = "reported"
          /\ UNCHANGED <<conf, sums, text, time, rv, polls, got, seen>>
       \/ Crash

-----------------------------------------------------------------------------
(* The wait.                                                               *)

TimeLeft == interval * Tick - elapsed

BeginWait ==
    /\ pc = "reported"
    /\ left' = TimeLeft
    /\ pc' = "wait"
    /\ UNCHANGED <<conf, sums, text, report, elapsed, rv, polls, got, seen>>

\* tv3 has whole seconds and a rest.
Waits == left \div Tick > 0 /\ left % Tick > 0

\* usleep() sleeps for the rest, and tv3 stays as it is.
Sleep ==
    /\ pc = "wait" /\ Waits
    /\ elapsed' = Later(left % Tick)
    /\ UNCHANGED <<pc, conf, sums, text, report, left, rv, polls, got, seen>>

Interrupted ==
    /\ pc = "wait" /\ Waits
    /\ elapsed' \in elapsed .. Later(left % Tick)
    /\ left' = interval * Tick - elapsed'
    /\ UNCHANGED <<pc, conf, sums, text, report, rv, polls, got, seen>>

EndWait ==
    /\ pc = "wait" /\ ~ Waits
    /\ pc' = "poll"
    /\ UNCHANGED <<conf, sums, text, report, time, rv, polls, got, seen>>

\* gettimeofday() fails, before a poll, before the wait or in it.
ClockFails ==
    \/ pc = "poll" /\ Exit(5)
    \/ pc = "reported" /\ Exit(13)
    \/ pc = "wait" /\ Waits /\ Exit(16)

main ==
    \/ PriosRead \/ HostsRead
    \/ BeginPoll \/ Performed \/ Parse \/ Report
    \/ BeginWait \/ Sleep \/ EndWait

Environment ==
    \/ \E n \in Values : addprio(n)
    \/ \E name \in Hosts, a \in Addresses : add_ip_to_host(name, a)
    \/ ServiceTakesTime \/ curldata
    \/ \E e \in Requests : Count(e)
    \/ Malformed \/ Interrupted \/ ClockFails

Next == main \/ Environment

Spec == Init /\ [][Next]_vars

\* The thread of the collector goes on; its input comes to an end.
FairSpec == Spec /\ WF_vars(main)

-----------------------------------------------------------------------------
(* Properties.                                                             *)

\* The type of every variable.  The entries have ports, and the time left is
\* never more than the interval.
TypeOK ==
    /\ pc \in {"prios", "hosts", "poll", "perform", "parse", "count", "reported",
               "wait", "exited", "crashed"}
    /\ live \in BOOLEAN
    /\ ports \in Seq(1 .. UINT16 - 1)
    /\ map \in Seq([host : Hosts, ips : Seq(IPs)])
    /\ count \in [Prio -> [Host -> [Level -> Nat]]]
    /\ report \in [Prio -> [Host -> [Level -> Nat]]]
    /\ {aa, rr, senders, elapsed, polls, got} \subseteq Nat
    /\ text \in Seq(Nat)
    /\ left \in -MaxElapsed .. interval * Tick
    /\ rv \in {AddressCode} \union Nat
    /\ seen \in Seq(Element)

\* An element belongs to entry i: its port is the entry's and no earlier one's,
\* or no entry's and i is 0.
OfEntry(e, i) ==
    IF i = 0
    THEN \A k \in 1 .. Len(ports) : ports[k] # e.port
    ELSE ports[i] = e.port /\ \A k \in 1 .. i - 1 : ports[k] # e.port

\* It belongs to host j: j is the first with its source, or no host has its
\* source and j is the first with its destination.
FirstWith(ip, j) == HasIp(j, ip) /\ \A k \in 1 .. j - 1 : ~ HasIp(k, ip)
OfHost(e, j) ==
    \/ FirstWith(e.src_ip, j)
    \/ /\ FirstWith(e.dst_ip, j)
       /\ \A k \in 1 .. nhosts : ~ HasIp(k, e.src_ip)

Reference(i, j, l) ==
    Cardinality({n \in 1 .. Len(seen) :
        /\ seen[n].sender
        /\ OfEntry(seen[n], i) /\ OfHost(seen[n], j)
        /\ (l = "accepted") = (seen[n].path = "some")})

\* The counts are those of this poll: each cell of the table is the number of
\* senders' requests in the answer so far with the cell's port, host and
\* outcome, whatever earlier polls have counted.
CountsTrue ==
    \A i \in 0 .. nprio - 1, j \in 1 .. nhosts, l \in Level :
        count[i][j][l] = Reference(i, j, l)

\* The cells of the table for one outcome.
Cells(l) == [c \in Prio \X Host |-> count[c[1]][c[2]][l]]

\* The totals agree with the table: every request of a sender is counted in
\* one cell, and in one of the two totals.
TotalsAgree ==
    pc \in {"count", "reported", "wait"} =>
        /\ senders = aa + rr
        /\ aa = SumFunction(Cells("accepted"))
        /\ rr = SumFunction(Cells("rejected"))

\* The lines tagged X say how many requests of each host have a port that is
\* not configured, for the poll just made.
UnknownTrue ==
    pc \in {"reported", "wait"} =>
        \A j \in 1 .. nhosts, l \in Level : report[0][j][l] = Reference(0, j, l)

\* What is parsed is the answer to this poll: its pieces, all of them, and
\* nothing of an earlier answer.
WholeAnswer ==
    pc = "perform" \/ (pc = "parse" /\ live) =>
        /\ Len(text) = got
        /\ \A n \in 1 .. Len(text) : text[n] = polls

\* "-t specifies the number of seconds to wait between measurements": a wait
\* comes to an end.
PollsAgain == (pc = "wait") ~> (pc # "wait")
=============================================================================
