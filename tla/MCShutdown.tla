----------------------------- MODULE MCShutdown -----------------------------
(* Model-checking instance of Shutdown: threads and components are model  *)
(* values.                                                                 *)
EXTENDS Shutdown, TLC

CONSTANTS w1, w2, k1, k2

MCWorkers == {w1, w2}
MCComps == {k1, k2}
=============================================================================
