-------------------------------- MODULE MCYdoc --------------------------------
(* TLC instances of Ydoc: two sessions on two processes. *)
EXTENDS Ydoc
CONSTANTS p1, p2, s1, s2, away, e1, e2, e3, u1, u2
HomeTwo == [s \in {s1, s2} |-> IF s = s1 THEN p1 ELSE p2]
AuthorTwo == [u \in Update |->
                 IF u = u1 THEN s1 ELSE IF u = u2 THEN s2 ELSE away]
\* One or two updates short of a compaction, which then merges two entries.
EarlierTwo == <<e1, e2>>
EarlierThree == <<e1, e2, e3>>
=============================================================================
