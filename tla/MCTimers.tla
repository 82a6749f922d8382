------------------------------- MODULE MCTimers -------------------------------
(* TLC instances of Timers: two timers of one chat or of two, or one timer. *)
EXTENDS Timers
CONSTANTS p1, p2, t1, t2, c1, c2
SameChat == {[t \in Timer |-> c1]}
InFirst == [q \in Request |-> c1]
OneOrTwoChats == {[t \in Timer |-> c1], [t \in Timer |-> IF t = t1 THEN c1 ELSE c2]}
AnyEvent == {{"chat.read", "chat.user_message"}}
=============================================================================
