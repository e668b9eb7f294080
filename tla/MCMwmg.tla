------------------------------- MODULE MCMwmg -------------------------------
(* Instances of Mwmg for TLC.                                              *)
EXTENDS Mwmg

\* The processors and the first flow of the configuration.
MCTags == {C, 1}
=============================================================================
