-------------------------- MODULE MCInternalMessages --------------------------
(* TLC instance of InternalMessages: the two messages of the user reach two *)
(* processes, so that generations of both act as the pump.                  *)
EXTENDS InternalMessages
CONSTANTS p1, p2
OneEach == <<p1, p2>>
=============================================================================
