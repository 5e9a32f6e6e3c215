--------------------------- MODULE MCLoggingClient ---------------------------
(* Model-checking instance of LoggingClient: the client threads, the flush *)
(* thread and the destructor are model values.                             *)
EXTENDS LoggingClient, TLC

CONSTANTS c1, c2, ft, dt

MCClients == {c1, c2}
=============================================================================
