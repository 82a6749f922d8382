---------------------------- MODULE MCSessionPool ----------------------------
(* TLC instances of SessionPool: two processes, the session is at the first. *)
EXTENDS SessionPool
CONSTANTS p1, p2, s1
HomeOne == [s \in {s1} |-> p1]
=============================================================================
