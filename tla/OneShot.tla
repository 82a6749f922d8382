-------------------------------- MODULE OneShot --------------------------------
(***************************************************************************)
(* What set_timer promises: "a one-shot timer for this chat".  A timer     *)
(* that is set waits, is taken up to run, and from there puts its prompt   *)
(* into the chat once or goes back to wait.  What has been closed, by a    *)
(* cancel, an error or a fault, is never taken up again.  Nothing is said  *)
(* of rows, claims, schedulers and locks: Timers shows how they keep this. *)
(***************************************************************************)
EXTENDS Integers

CONSTANT Timer

VARIABLES
    phase,      \* phase[t]: where timer t is in its life
    prompts     \* prompts[t]: how often its prompt was put into the chat

vars == <<phase, prompts>>

Init ==
    /\ phase = [t \in Timer |-> "unset"]
    /\ prompts = [t \in Timer |-> 0]

Enter(S, from, to) ==
    /\ S # {}
    /\ \A t \in S : phase[t] \in from
    /\ phase' = [t \in Timer |-> IF t \in S THEN to ELSE phase[t]]

Set(t) == Enter({t}, {"unset"}, "waiting") /\ UNCHANGED prompts

\* One scheduler takes a batch at once.
Claim(S) == Enter(S, {"waiting"}, "running") /\ UNCHANGED prompts

Return(t) == Enter({t}, {"running"}, "waiting") /\ UNCHANGED prompts

Fire(t) ==
    /\ Enter({t}, {"running"}, "fired")
    /\ prompts' = [prompts EXCEPT ![t] = @ + 1]

\* One event cancels many, and one crash ends many.
Close(S) == Enter(S, {"waiting", "running"}, "over") /\ UNCHANGED prompts

Next ==
    \/ \E t \in Timer : Set(t) \/ Return(t) \/ Fire(t)
    \/ \E S \in SUBSET Timer : Claim(S) \/ Close(S)

Spec == Init /\ [][Next]_vars
=============================================================================
