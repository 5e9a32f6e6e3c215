---------------------------- MODULE MCKeyService ----------------------------
(* Model-checking instance of KeyService: threads and UUIDs are model      *)
(* values, and both sets are symmetric (UUIDs are only compared and drawn  *)
(* fresh; threads run the same code).                                      *)
EXTENDS KeyService, TLC

CONSTANTS t1, t2, u1, u2, u3

MCThreads == {t1, t2}
MCUuids == {u1, u2, u3}

Symmetry == Permutations(MCThreads) \cup Permutations(MCUuids)
=============================================================================
