--------------------------- MODULE MCTokenRefresh ---------------------------
(* A small instance of TokenRefresh for TLC.  Nothing tells the workers     *)
(* apart.                                                                   *)
EXTENDS TokenRefresh, TLC

CONSTANTS w1, w2

\* The regime of GentleKeepsAccountAlive, and everything at once.
MCRegimes == {{"login", "restart"}, AllFaults}

Symmetry == Permutations(Workers)
=============================================================================
