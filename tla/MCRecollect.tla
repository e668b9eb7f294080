--------------------------- MODULE MCRecollect ---------------------------
(* Recollect for TLC; the configurations give the constants their values.  *)
EXTENDS Recollect
==========================================================================
