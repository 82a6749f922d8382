--------------------------- MODULE MCTaskRegistry ---------------------------
(* TLC instances of TaskRegistry: two processes, two tasks. *)
EXTENDS TaskRegistry

CONSTANTS p1, p2, t1, t2, c1

\* Both tasks belong to chat c1 (a chat with two models, or two tabs), on
\* different processes.
SpreadHome == [t \in {t1, t2} |-> IF t = t1 THEN p1 ELSE p2]
SharedItem == [t \in {t1, t2} |-> c1]
=============================================================================
