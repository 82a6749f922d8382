----------------------------- MODULE MCLocalTasks ---------------------------
(* TLC instances of LocalTasks: up to three tasks of one chat. *)
EXTENDS LocalTasks
CONSTANTS t1, t2, t3, c1, s1, s2
ItemOfTwo == [t \in {t1, t2} |-> c1]
ItemOfThree == [t \in {t1, t2, t3} |-> c1]
=============================================================================
