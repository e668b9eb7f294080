------------------------------ MODULE MCAgent ------------------------------
(* An instance of Agent for TLC.                                           *)
EXTENDS Agent

MCExpressions == {"udp", "udp port 80 or 8", "udp and src %i"}

\* A name of 17 characters.
LongName == "veth-of-branch-10"

MCWords == Flags \union {"none", "src", "dst", "spoof", "80", "65536", "eth0", "eth1"}
                 \union {LongName}
                 \union MCExpressions

\* Every option with and without a value, and some longer command lines.
MCArgvs ==
    {<<>>} \union {<<w>> : w \in MCWords} \union
    {<<f, v>> : f \in Flags \ {"-m"}, v \in {"80", "65536", "eth1", LongName, "-p"}} \union
    {<<"-m", v>> : v \in {"none", "src", "dst", "spoof"} \union MCExpressions} \union
    {<<"-m", "none", "-r", "eth1">>, <<"-i", "eth1", "-m", "-p">>,
     <<"-m", "none", "-p", "80", "-r">>, <<"-m", "udp", "-p", "65536">>}

MCAtoi == [w \in MCWords |-> CASE w = "80" -> 80 [] w = "65536" -> 65536 [] OTHER -> 0]

MCCut ==
    [w \in MCWords |-> CASE w = LongName -> "veth-of-branch-"
                         [] w = "udp port 80 or 8" -> "udp port 80 or "
                         [] OTHER -> w]

MCExprs ==
    [w \in MCWords |->
        CASE w = "udp port 80 or 8" -> [len |-> 16, closed |-> FALSE]
          [] w = "udp and src %i" -> [len |-> 15, closed |-> TRUE]
          [] OTHER -> [len |-> 3, closed |-> FALSE]]

Line(t, n) == [tag |-> t, kb |-> n]

\* As older and newer kernels have it, 5 GiB in use, less free than ever was
\* there, malformed, and unreadable.
MCMeminfos ==
    {<<Line("MemTotal", 4000000), Line("MemFree", 1000), Line("Buffers", 300),
       Line("Cached", 700), Line("SwapCached", 0), Line("other", 9)>>,
     <<Line("MemTotal", 8000000), Line("MemFree", 5000000), Line("other", 9),
       Line("Buffers", 300)>>,
     <<Line("MemTotal", 8000000), Line("MemFree", 2757120), Line("other", 9)>>,
     <<Line("MemTotal", 1000), Line("MemFree", 2000), Line("other", 9)>>,
     <<Line("MemTotal", 0), Line("MemFree", 5)>>, <<>>}
=============================================================================
