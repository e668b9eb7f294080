------------------------------ MODULE MCGraph ------------------------------
(* Instances of Graph for TLC.                                             *)
EXTENDS Graph

\* The processors, whose history is an average, and two kinds of traffic.
MCWindows == {W_CPU, W_OTHER, W_OTHER + 1}

\* The direction changes from one ratio to the next, and some are exact.
MCRounded(n, d) == CASE (n + d) % 3 = 0 -> "up"
                     [] (n + d) % 3 = 1 -> "down"
                     [] OTHER -> "exact"
=============================================================================
