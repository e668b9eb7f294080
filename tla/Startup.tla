------------------------------ MODULE Startup ------------------------------
(***************************************************************************)
(* main() of pcapper.c: the command line, the wait for the interfaces, the *)
(* filter, the capture, the listening socket and the threads, and the end. *)
(* The functions of linuxif.c are the queries it waits for.                *)
(*                                                                         *)
(* argv is a sequence of words, and a path through main() a sequence of    *)
(* steps.  What the kernel and libpcap answer is chosen in each step, and  *)
(* interfaces get and lose their addresses at any time.  The text of a     *)
(* filter is abstracted to what becomes of it: "asked" is the filter that  *)
(* was asked for, "other" a different one that compiles, "invalid" one     *)
(* that does not.                                                          *)
(***************************************************************************)
EXTENDS Integers, Sequences

CONSTANTS
    Words,      \* arguments
    Argvs,      \* command lines, without the program's name
    atoi,       \* the number each word begins with
    Exprs,      \* length of each word as a filter once %i and %m are replaced,
                \* and whether it ends with one of them
    Cut,        \* the first IFNAMSIZ - 1 characters of each word
    Devices,    \* interfaces
    WAIT        \* seconds to wait for an interface, 60 in the code

MODE_NONE == 0
MODE_SRC == 1
MODE_DST == 2
MODE_SPOOF == 3

LISTENDEV == "eth0"
PCAPPER_PORT == 7073
IFNAMSIZ == 16

ASSUME StartupAssumption ==
    /\ Argvs \subseteq Seq(Words)
    /\ DOMAIN Cut = Words
    /\ atoi \in [Words -> Int]
    /\ Exprs \in [Words -> [len : Nat, closed : BOOLEAN]]
    /\ WAIT \in Nat

VARIABLES
    mpc,        \* where main() is
    argv, argi, \* the command line, and the argument looked at next
    port, listendev, rtrdev, mode,  \* what the options have set
    counter,    \* failed queries
    filter,     \* what is installed on the capture
    open,       \* what main() has opened
    threads,    \* threads that were created
    code,       \* the status main() has returned
    addressed   \* interfaces that have an address

optVars == <<argv, port, listendev, rtrdev, mode>>
mainVars == <<mpc, optVars, argi, counter, filter, open, threads, code, addressed>>

Running == -1       \* no status yet
Crashed == -2       \* the process died instead
Same == "same"      \* rtrdev points to listendev

MainInit ==
    /\ mpc = "args" /\ argv \in Argvs /\ argi = 1
    /\ port = PCAPPER_PORT /\ listendev = LISTENDEV /\ rtrdev = Same
    /\ mode = MODE_SRC
    /\ counter = 0 /\ filter = "none" /\ open = {} /\ threads = {}
    /\ code = Running
    /\ addressed \in SUBSET Devices

-----------------------------------------------------------------------------
(* Returning.                                                              *)

\* Mutant: the listening socket stays open when bind() or listen() fails.
ReleasedCapture(c) == IF c \in {0, 1, 2, 3, 6, 7} THEN {"capture"} ELSE {}

\* What main() closes before it returns c.
Released(c) ==
    CASE c \in {1, 6, 7} -> {"capture"}
      [] c \in {0, 2, 3} -> {"capture", "listener"}
      [] OTHER -> {}

Return(c) ==
    /\ mpc' = "ended" /\ code' = c
    /\ open' = open \ Released(c)

Goto(p) == mpc' = p /\ UNCHANGED <<code, open>>

-----------------------------------------------------------------------------
(* The command line.                                                       *)

Arg == argv[argi]
Valued == argi < Len(argv)
Value == argv[argi + 1]

Reading(flag) == mpc = "args" /\ argi <= Len(argv) /\ Arg = flag

Flags == {"-p", "-f", "-i", "-m", "-r"}

\* The port is cut to 16 bits before it is tested for 0.
PortOf(word) == atoi[word] % 65536

Used == argi' = argi + 2 /\ Goto("args")

OptPort ==
    /\ Reading("-p")
    /\ \/ Valued /\ PortOf(Value) # 0 /\ port' = PortOf(Value) /\ Used
       \/ Valued /\ PortOf(Value) = 0 /\ Return(15) /\ UNCHANGED <<argi, port>>
       \/ ~ Valued /\ Return(14) /\ UNCHANGED <<argi, port>>
    /\ UNCHANGED <<argv, listendev, rtrdev, mode>>

OptLog ==
    /\ Reading("-f")
    /\ IF Valued THEN Used ELSE Return(18) /\ UNCHANGED argi
    /\ UNCHANGED optVars

\* The name is copied into IFNAMSIZ characters; the one of -r is not copied.
OptListen ==
    /\ Reading("-i")
    /\ \/ Valued /\ listendev' = Cut[Value] /\ Used
       \/ ~ Valued /\ Return(13) /\ UNCHANGED <<argi, listendev>>
    /\ UNCHANGED <<argv, port, rtrdev, mode>>

\* A word that is no mode is a filter, and mode is minus its index.
ModeOf(word, index) ==
    CASE word = "none" -> MODE_NONE
      [] word = "src" -> MODE_SRC
      [] word = "dst" -> MODE_DST
      [] word = "spoof" -> MODE_SPOOF
      [] OTHER -> - index

OptMode ==
    /\ Reading("-m")
    /\ \/ Valued /\ mode' = ModeOf(Value, argi + 1) /\ Used
       \/ ~ Valued /\ Return(20) /\ UNCHANGED <<argi, mode>>
    /\ UNCHANGED <<argv, port, listendev, rtrdev>>

\* Without a device, -r is complained about and ignored.
OptRouter ==
    /\ Reading("-r")
    /\ \/ Valued /\ rtrdev' = Value /\ Used
       \/ ~ Valued /\ argi' = argi + 1 /\ Goto("args") /\ UNCHANGED rtrdev
    /\ UNCHANGED <<argv, port, listendev, mode>>

OptUnknown ==
    /\ mpc = "args" /\ argi <= Len(argv) /\ Arg \notin Flags
    /\ Return(12) /\ UNCHANGED <<optVars, argi>>

ArgsDone ==
    /\ mpc = "args" /\ argi > Len(argv)
    /\ Goto("ip") /\ UNCHANGED <<optVars, argi>>

ReadArgs ==
    /\ OptPort \/ OptLog \/ OptListen \/ OptMode \/ OptRouter \/ OptUnknown \/ ArgsDone
    /\ UNCHANGED <<counter, filter, threads, addressed>>

-----------------------------------------------------------------------------
(* Waiting for the interfaces.                                             *)

ENOENT == 2
EIO == 5
EMFILE == 24

\* What the query may return: the socket cannot be had, an ioctl() fails, the
\* interface has no address and is not listed, or all went well.  The socket is
\* closed on every path.
manhandle(dev) == {EMFILE, EIO} \union (IF dev \in addressed THEN {0} ELSE {ENOENT})

\* Mutant: the wait is not limited.
TriesForever(n) == 0

Tries(n) == n + 1

\* Ask once; go on to next, try again in a second, or give up with status c.
Wait(dev, next, c) ==
    \E rv \in manhandle(dev) :
        \/ rv = 0 /\ counter' = 0 /\ Goto(next)
        \/ /\ rv # 0
           /\ counter' = Tries(counter)
           /\ IF counter' > WAIT THEN Return(c) ELSE Goto(mpc)

getip == mpc = "ip" /\ Wait(listendev, "mac", 16)

gettmac == mpc = "mac" /\ Wait(IF rtrdev = Same THEN listendev ELSE rtrdev, "filter", 22)

AwaitInterfaces ==
    /\ getip \/ gettmac
    /\ UNCHANGED <<optVars, argi, filter, threads, addressed>>

-----------------------------------------------------------------------------
(* The filter and the capture.                                             *)

\* The text fits in the IFNAMSIZ - 1 characters that are kept, and ends there or
\* with the zero of snprintf(): pcprintf() puts none after a character it copies.
Intact(e) == e.len = IFNAMSIZ - 1 \/ (e.len < IFNAMSIZ - 1 /\ e.closed)

\* What becomes of the filter's text.  All addresses are longer than what is kept
\* in modes src and dst; in mode spoof an IP address may be cut to another one.
\* A text without its zero ends with what is on the stack.
FilterText ==
    CASE mode = MODE_NONE -> {"none"}
      [] mode \in {MODE_SRC, MODE_DST} -> {"invalid"}
      [] mode = MODE_SPOOF -> {"other", "invalid"}
      [] mode < 0 ->
            LET e == Exprs[argv[- mode]]
            IN  IF Intact(e) THEN {"asked", "invalid"}
                ELSE IF e.len > IFNAMSIZ - 1 THEN {"other", "invalid"}
                ELSE {"asked", "other", "invalid"}

\* No mode but those named can be set, so that status 21 is never returned.
OpenCapture ==
    /\ mpc = "filter"
    /\ \/ Return(4) /\ UNCHANGED filter
       \/ /\ mpc' = "compile" /\ open' = open \union {"capture"} /\ UNCHANGED code
          /\ filter' \in FilterText

SetFilter ==
    /\ mpc = "compile"
    /\ \/ mode = MODE_NONE /\ Goto("socket")
       \/ /\ mode # MODE_NONE
          /\ \/ filter = "invalid" /\ Return(6)
             \/ filter # "invalid" /\ (Return(7) \/ Goto("socket"))
    /\ UNCHANGED filter

-----------------------------------------------------------------------------
(* The listening socket, the threads and the end.                          *)

OpenListener ==
    /\ mpc = "socket"
    /\ \/ Return(1)
       \/ mpc' = "bind" /\ open' = open \union {"listener"} /\ UNCHANGED code

\* bind() or listen() fails, or both succeed.
Listen ==
    /\ mpc = "bind"
    /\ Return(2) \/ Return(3) \/ Goto("acceptor")

\* pthread_create() reports a failure as a positive number, which is not tested
\* for: the thread is missing, and pthread_detach() gets an undefined identifier.
Create(t, next) ==
    \/ threads' = threads \union {t} /\ Goto(next)
    \/ UNCHANGED threads /\ Goto(next)
    \/ UNCHANGED threads /\ Return(Crashed)

StartThreads ==
    \/ mpc = "acceptor" /\ Create("acc", "watchstat")
    \/ mpc = "watchstat" /\ Create("stat", "loop")

\* pcap_loop() returns, the threads are cancelled and everything is closed.  To
\* cancel a thread that is not there may end the process, which closes as much.
LoopEnds ==
    /\ mpc = "loop"
    /\ Return(0) \/ (threads # {"acc", "stat"} /\ Return(Crashed))
    /\ UNCHANGED threads

Serve ==
    /\ \/ (OpenCapture \/ SetFilter) /\ UNCHANGED threads
       \/ (OpenListener \/ Listen) /\ UNCHANGED <<filter, threads>>
       \/ (StartThreads \/ LoopEnds) /\ UNCHANGED filter
    /\ UNCHANGED <<optVars, argi, counter, addressed>>

\* An interface gets or loses its address.
Readdress(d) ==
    /\ mpc \in {"ip", "mac"}
    /\ addressed' = IF d \in addressed THEN addressed \ {d} ELSE addressed \union {d}
    /\ UNCHANGED <<mpc, optVars, argi, counter, filter, open, threads, code>>

MainStep == ReadArgs \/ AwaitInterfaces \/ Serve

-----------------------------------------------------------------------------
(* Properties.                                                             *)

PortNumbers == 1 .. 65535

\* However main() ends, nothing it opened stays open, on any of its error paths.
\* It serves only with a capture, a listening socket and a port; a capture has a
\* filter unless the mode is none, and it is the one asked for whenever the text
\* of it survives the cut after IFNAMSIZ - 1 characters.
Outcome ==
    /\ mpc = "ended" /\ code # Crashed => open = {}
    /\ mpc = "loop" =>
         /\ open = {"capture", "listener"}
         /\ port \in PortNumbers
         /\ filter = "none" <=> mode = MODE_NONE
         /\ mode < 0 /\ Intact(Exprs[argv[- mode]]) => filter = "asked"

\* main() does not wait for an interface for ever: it serves or returns.
Settles == <>(mpc \in {"loop", "ended"})
=============================================================================
