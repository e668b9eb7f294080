------------------------------- MODULE Agent -------------------------------
(***************************************************************************)
(* The agent from its start to its end, as far as its collectors do not    *)
(* matter: main() of module Startup, and watchstat() of module Measure,    *)
(* which runs from the moment main() has created its thread until main()   *)
(* ends.  Module Pcapper has what happens between, with the collectors.    *)
(***************************************************************************)
EXTENDS Startup, Measure

vars == <<mainVars, statVars>>

Init == MainInit /\ StatInit

Main == MainStep /\ UNCHANGED statVars

Interfaces == (\E d \in Devices : Readdress(d)) /\ UNCHANGED statVars

Watchstat ==
    /\ "stat" \in threads /\ mpc # "ended"
    /\ StatStep
    /\ UNCHANGED mainVars

Next == Main \/ Interfaces \/ Watchstat

\* main() is a thread that can always run: what it calls returns.
Spec == Init /\ [][Next]_vars /\ WF_vars(Main)
=============================================================================
