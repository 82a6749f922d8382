--------------------------- MODULE InternalMessages ---------------------------
(***************************************************************************)
(* Background and foreground sub-agents of open_webui/utils/subagents.py   *)
(* and the way their results get back into the parent chat.  A background  *)
(* sub-agent that is done writes its result into the history of the parent *)
(* as an internal message without an answer.  Whoever finds the parent at  *)
(* rest takes the pending results and starts a generation that answers     *)
(* them: the sub-agent itself, or a generation of the parent that ends.    *)
(*                                                                         *)
(* One parent chat.  A step is what happens between two awaits, a          *)
(* transaction takes effect at its commit, RowLocks says whether           *)
(* SELECT ... FOR UPDATE locks (PostgreSQL) or is left out.                *)
(***************************************************************************)
EXTENDS Integers, FiniteSets, Sequences

CONSTANTS
    Proc,           \* application processes
    Sub,            \* delegations, each is made at most once
    Gen,            \* bound: the generations of the parent chat at a time
    NoProc, NoGen,
    RowLocks,
    MaxAsync,       \* subagents.max_async
    MaxConcurrent,  \* subagents.max_concurrent
    Serves,         \* bound: the processes the messages of the user reach, in order
    MaxLoad,        \* bound: messages of the user and delegations together
    MaxFaults       \* bound: crashes, errors of the database or Redis, late
                    \* cancels, and saves of a copy that has gone stale, together

ASSUME InternalMessagesAssumption ==
    /\ Gen \cap Sub = {}
    /\ NoProc \notin Proc
    /\ NoGen \notin Gen
    /\ RowLocks \in BOOLEAN
    /\ MaxAsync \in Nat \ {0}
    /\ MaxConcurrent \in Nat \ {0}
    /\ Serves \in Seq(Proc)
    /\ MaxLoad \in Nat
    /\ MaxFaults \in Nat

VARIABLES
    hist,       \* hist[d]: the result of d in the history of the parent chat
    active,     \* the registered tasks of the parent chat
    task,       \* task[k]: where the coroutine of generation or sub-agent k is
    call,       \* call[d]: the delegate() call of d
    used,       \* used[p]: _background_active of process p
    permits,    \* permits[p]: what is left of p's _foreground_semaphore
    turns,
    stale,
    faults,
    takes,      \* takes[d]: how often the result of d was taken (history)
    clobbered   \* results a save of an older copy took out or put back (history)

chatVars == <<hist, stale, takes, clobbered>>
slotVars == <<call, used, permits>>
vars == <<hist, active, task, call, used, permits, turns, stale, faults, takes, clobbered>>

Task == Gen \cup Sub
Results == [Sub -> {"none", "pending", "taken"}]
NoResults == [d \in Sub |-> "none"]

\* Where a generation is on its way to its own look at the registry.
Answering == {"save", "start", "run", "call", "final", "cleanup", "check"}
\* process_pending_internal_messages
Pump == {"wait", "lock", "select", "commit"}
\* The rest of run_background.
Put == {"put", "write", "told"}

Idle == [at |-> "idle", proc |-> NoProc, seen |-> NoResults, batch |-> {}]
Over == [Idle EXCEPT !.at = "over"]
NoCall == [at |-> "none", by |-> NoGen, background |-> FALSE]

Coroutines == [at : Answering \cup Pump \cup Put \cup {"idle", "work", "over"},
               proc : Proc \cup {NoProc}, seen : Results, batch : SUBSET Sub]
DelegateCalls == [at : {"none", "insert", "saving", "await", "done"},
                  by : Gen \cup {NoGen}, background : BOOLEAN]

TypeOK ==
    /\ hist \in Results
    /\ active \subseteq Gen
    /\ task \in [Task -> Coroutines]
    /\ call \in [Sub -> DelegateCalls]
    /\ used \in [Proc -> SUBSET Sub]
    /\ permits \in [Proc -> Nat]
    /\ turns \in 0..Len(Serves)
    /\ stale \in 0..MaxFaults
    /\ faults \in 0..MaxFaults
    /\ takes \in [Sub -> Nat]
    /\ clobbered \subseteq Sub

Init ==
    /\ hist = NoResults
    /\ active = {}
    /\ task = [k \in Task |-> Idle]
    /\ call = [d \in Sub |-> NoCall]
    /\ used = [p \in Proc |-> {}]
    /\ permits = [p \in Proc |-> MaxConcurrent]
    /\ turns = 0
    /\ stale = 0
    /\ faults = 0
    /\ takes = [d \in Sub |-> 0]
    /\ clobbered = {}

-----------------------------------------------------------------------------
(* Locks, copies and steps *)

At(k, here) == task[k].at = here
Go(k, there) == task' = [task EXCEPT ![k].at = there]
\* The coroutine returns; a generation id can then be used again.
Leave(k) == task' = [task EXCEPT ![k] = IF k \in Gen THEN Idle ELSE Over]

\* What a crash has left in the registry is never used again.
Fresh == {g \in Gen \ active : At(g, "idle")}

\* _parent_locks: held from the lock to the return, which for the pump is the
\* return of the completion handler it has called.  Taking it is one step with
\* the await that follows: nobody sees the difference.
Holds(k) == \/ task[k].at \in {"select", "commit", "write"}
            \/ task[k].at \in {"save", "start"} /\ task[k].batch # {}
LockFree(p) == \A k \in Task : task[k].proc = p => ~Holds(k)

\* The row of the parent chat is locked by an open transaction (mutant: never).
NeverLocked == FALSE
RowLocked == RowLocks /\ \E k \in Task : task[k].at \in {"commit", "write"}

\* A copy of the history written back, own changes included: what has happened
\* to the results of others since it was read is undone.
Overwrite(copy, others) ==
    /\ hist' = copy
    /\ clobbered' = clobbered \cup {d \in others : copy[d] # hist[d]}

\* The save of k, which holds no row lock, writes back the copy it has read.
SaveCopy(k, there) ==
    /\ ~RowLocked
    /\ IF task[k].seen = hist THEN stale' = stale ELSE stale + faults < MaxFaults /\ stale' = stale + 1
    /\ Overwrite(task[k].seen, Sub)
    /\ task' = [task EXCEPT ![k] = [@ EXCEPT !.at = there, !.seen = NoResults]]

Fault ==
    /\ stale + faults < MaxFaults
    /\ faults' = faults + 1

-----------------------------------------------------------------------------
(* A generation of the parent chat: chat_completion and process_chat *)

Load == turns + Cardinality({d \in Sub : call[d].at # "none"})

Turn(p) ==
    /\ turns < Len(Serves)
    /\ p = Serves[turns + 1]
    /\ Load < MaxLoad
    /\ turns' = turns + 1
    /\ Fresh # {}
    /\ task' = [task EXCEPT ![CHOOSE g \in Fresh : TRUE] =
                              [Idle EXCEPT !.at = "save", !.proc = p, !.seen = hist]]
    /\ UNCHANGED <<chatVars, active, slotVars, faults>>

\* The copy that a save will write back is read at some time before it.
Read(g) ==
    /\ task[g].at \in {"save", "final"}
    /\ task[g].seen # hist
    /\ task' = [task EXCEPT ![g].seen = hist]
    /\ UNCHANGED <<chatVars, active, slotVars, turns, faults>>

\* The messages of the turn enter the history that was read; no row is locked.
Save(g) ==
    /\ At(g, "save")
    /\ SaveCopy(g, "start")
    /\ UNCHANGED <<active, slotVars, turns, faults, takes>>

\* create_task registers the generation; the handler returns to the pump.
Start(g) ==
    /\ At(g, "start")
    /\ active' = active \cup {g}
    /\ task' = [task EXCEPT ![g] = [@ EXCEPT !.at = "run", !.batch = {}]]
    /\ UNCHANGED <<chatVars, slotVars, turns, faults>>

\* stop_task takes the task out of the registry before it has been cancelled.
Stop(g) ==
    /\ task[g].at \in {"run", "call"}
    /\ g \in active
    /\ active' = active \ {g}
    /\ UNCHANGED <<chatVars, task, slotVars, turns, faults>>

\* The answer is complete, failed or cancelled: it is saved into the chat ...
Finish(g) ==
    /\ At(g, "run")
    /\ task' = [task EXCEPT ![g] = [@ EXCEPT !.at = "final", !.seen = hist]]
    /\ UNCHANGED <<chatVars, active, slotVars, turns, faults>>

FinalSave(g) ==
    /\ At(g, "final")
    /\ SaveCopy(g, "cleanup")
    /\ UNCHANGED <<active, slotVars, turns, faults, takes>>

\* Mutant: the registry is asked before the task has left it.
CleanupLate(g) ==
    /\ At(g, "cleanup")
    /\ active' = active \ {g}
    /\ IF active = {} THEN Go(g, "wait") ELSE Leave(g)
    /\ UNCHANGED <<chatVars, slotVars, turns, faults>>

\* ... the task leaves the registry, and whoever leaves last becomes the pump.
Cleanup(g) ==
    /\ At(g, "cleanup")
    /\ active' = active \ {g}
    /\ Go(g, "check")
    /\ UNCHANGED <<chatVars, slotVars, turns, faults>>

Check(g) ==
    /\ At(g, "check")
    /\ IF active = {} THEN Go(g, "wait") ELSE Leave(g)
    /\ UNCHANGED <<chatVars, active, slotVars, turns, faults>>

-----------------------------------------------------------------------------
(* process_pending_internal_messages *)

PumpWait(k) ==
    /\ At(k, "wait")
    /\ active = {}
    /\ Go(k, "lock")
    /\ UNCHANGED <<chatVars, active, slotVars, turns, faults>>

PumpLock(k) ==
    /\ At(k, "lock")
    /\ LockFree(task[k].proc)
    /\ IF active = {} THEN Go(k, "select") ELSE Leave(k)
    /\ UNCHANGED <<chatVars, active, slotVars, turns, faults>>

Pending == {d \in Sub : hist[d] = "pending"}

\* The results that hang from the same message as the first one found.
PumpSelect(k) ==
    /\ At(k, "select")
    /\ ~RowLocked
    /\ \/ Pending = {} /\ Leave(k)
       \/ \E batch \in SUBSET Pending \ {{}} :
            task' = [task EXCEPT ![k] = [@ EXCEPT !.at = "commit", !.seen = hist, !.batch = batch]]
    /\ UNCHANGED <<chatVars, active, slotVars, turns, faults>>

\* The batch becomes one message with a placeholder for its answer, and the
\* completion handler is called for a generation of its own.
PumpCommit(k) ==
    LET batch == task[k].batch
        after == [d \in Sub |-> IF d \in batch THEN "taken" ELSE task[k].seen[d]]
        free == Fresh \cup (Gen \cap {k})
        answer == CHOOSE g \in free : TRUE
    IN  /\ At(k, "commit")
        /\ free # {}
        /\ Overwrite(after, Sub \ batch)
        /\ takes' = [d \in Sub |-> IF d \in batch THEN takes[d] + 1 ELSE takes[d]]
        /\ task' = [task EXCEPT ![k] = IF k \in Gen THEN Idle ELSE Over,
                                ![answer] = [task[k] EXCEPT !.at = "save", !.seen = after]]
        /\ UNCHANGED <<active, slotVars, turns, stale, faults>>

-----------------------------------------------------------------------------
(* delegate, called by a generation of the parent *)

Caller(d) == call[d].by
\* Mutant: the slot is not given back.
Keep(d, p) == UNCHANGED <<used, permits>>
Release(d, p) ==
    IF call[d].background
    THEN used' = [used EXCEPT ![p] = @ \ {d}] /\ UNCHANGED permits
    ELSE permits' = [permits EXCEPT ![p] = @ + 1] /\ UNCHANGED used

\* The caller waits for the tool call.
Delegate(g, d) ==
    LET p == task[g].proc
    IN  /\ At(g, "run")
        /\ call[d].at = "none"
        /\ Load < MaxLoad
        /\ \E background \in BOOLEAN :
             /\ IF background
                THEN /\ Cardinality(used[p]) < MaxAsync
                     /\ used' = [used EXCEPT ![p] = @ \cup {d}]
                     /\ UNCHANGED permits
                ELSE /\ permits[p] > 0
                     /\ permits' = [permits EXCEPT ![p] = @ - 1]
                     /\ UNCHANGED used
             /\ call' = [call EXCEPT ![d] = [at |-> "insert", by |-> g, background |-> background]]
        /\ Go(g, "call")
        /\ UNCHANGED <<chatVars, active, turns, faults>>

\* The chat of the sub-agent is there; create_task starts its coroutine.
Insert(d) ==
    /\ call[d].at = "insert"
    /\ call' = [call EXCEPT ![d].at = "saving"]
    /\ task' = [task EXCEPT ![d] = [@ EXCEPT !.at = "work", !.proc = task[Caller(d)].proc]]
    /\ UNCHANGED <<chatVars, active, used, permits, turns, faults>>

\* The task is registered; a foreground call goes on to await it.
Saved(d) ==
    /\ call[d].at = "saving"
    /\ IF call[d].background \/ At(d, "over")
       THEN call' = [call EXCEPT ![d].at = "done"] /\ Go(Caller(d), "run")
       ELSE call' = [call EXCEPT ![d].at = "await"] /\ UNCHANGED task
    /\ UNCHANGED <<chatVars, active, used, permits, turns, faults>>

\* The sub-agent has completed, failed or been cancelled: run_reserved's finally.
Worked(d) ==
    /\ At(d, "work")
    /\ Release(d, task[d].proc)
    /\ IF call[d].background THEN Go(d, "put") ELSE Leave(d)
    /\ UNCHANGED <<chatVars, active, call, turns, faults>>

\* The awaiting call has its result.
Return(d) ==
    /\ call[d].at = "await"
    /\ At(d, "over")
    /\ call' = [call EXCEPT ![d].at = "done"]
    /\ Go(Caller(d), "run")
    /\ UNCHANGED <<chatVars, active, used, permits, turns, faults>>

-----------------------------------------------------------------------------
(* run_background: the result enters the parent chat *)

PutSelect(d) ==
    /\ At(d, "put")
    /\ LockFree(task[d].proc)
    /\ ~RowLocked
    /\ task' = [task EXCEPT ![d] = [@ EXCEPT !.at = "write", !.seen = hist]]
    /\ UNCHANGED <<chatVars, active, slotVars, turns, faults>>

\* Mutant: the result is written with the status of the sub-agent.
PutCompleted(d) ==
    /\ At(d, "write")
    /\ Overwrite([task[d].seen EXCEPT ![d] = "completed"], Sub \ {d})
    /\ task' = [task EXCEPT ![d] = [@ EXCEPT !.at = "told", !.seen = NoResults]]
    /\ UNCHANGED <<active, slotVars, turns, stale, faults, takes>>

\* The registry is asked before the commit, but only for the status of the message.
PutCommit(d) ==
    /\ At(d, "write")
    /\ Overwrite([task[d].seen EXCEPT ![d] = "pending"], Sub \ {d})
    /\ task' = [task EXCEPT ![d] = [@ EXCEPT !.at = "told", !.seen = NoResults]]
    /\ UNCHANGED <<active, slotVars, turns, stale, faults, takes>>

\* Mutant: the registry is not asked again after the commit.
PutReturn(d) ==
    /\ At(d, "told")
    /\ Leave(d)
    /\ UNCHANGED <<chatVars, active, slotVars, turns, faults>>

PutCheck(d) ==
    /\ At(d, "told")
    /\ IF active = {} THEN Go(d, "wait") ELSE Leave(d)
    /\ UNCHANGED <<chatVars, active, slotVars, turns, faults>>

-----------------------------------------------------------------------------
(* Faults *)

\* The chat of the sub-agent cannot be made; the slot goes back.
InsertFails(d) ==
    /\ Fault
    /\ call[d].at = "insert"
    /\ Release(d, task[Caller(d)].proc)
    /\ call' = [call EXCEPT ![d].at = "done"]
    /\ Go(Caller(d), "run")
    /\ UNCHANGED <<chatVars, active, turns>>

\* The caller is stopped in that await: a cancellation is no Exception, the slot stays.
InsertCancelled(d) ==
    /\ Fault
    /\ call[d].at = "insert"
    /\ call' = [call EXCEPT ![d].at = "done"]
    /\ task' = [task EXCEPT ![Caller(d)] = [@ EXCEPT !.at = "final", !.seen = hist]]
    /\ active' = active \ {Caller(d)}
    /\ UNCHANGED <<chatVars, used, permits, turns>>

\* Redis fails in create_task: the slot goes back, but the coroutine runs.
SaveFails(d) ==
    /\ Fault
    /\ call[d].at = "saving"
    /\ Release(d, task[Caller(d)].proc)
    /\ call' = [call EXCEPT ![d].at = "done"]
    /\ Go(Caller(d), "run")
    /\ UNCHANGED <<chatVars, active, turns>>

\* An exception, or a stop that comes when the answer is already complete, ends
\* a coroutine outside of what its handlers catch.  The done callback cleans up.
Dies(k) ==
    /\ Fault
    /\ task[k].at \in Pump \cup Put \cup {"save", "start", "cleanup", "check"}
    /\ active' = active \ {k}
    /\ Leave(k)
    /\ UNCHANGED <<chatVars, slotVars, turns>>

\* The entries of the process stay in the registry.
Crash(p) ==
    /\ Fault
    /\ task' = [k \in Task |-> IF task[k].proc # p THEN task[k]
                               ELSE IF k \in Gen THEN Idle ELSE Over]
    /\ call' = [d \in Sub |-> IF call[d].at # "none" /\ call[d].at # "done"
                                 /\ task[Caller(d)].proc = p
                              THEN [call[d] EXCEPT !.at = "done"] ELSE call[d]]
    /\ used' = [used EXCEPT ![p] = {}]
    /\ permits' = [permits EXCEPT ![p] = MaxConcurrent]
    /\ UNCHANGED <<chatVars, active, turns>>

-----------------------------------------------------------------------------
PumpStep(k) ==
    PumpWait(k) \/ PumpLock(k) \/ PumpSelect(k) \/ PumpCommit(k)
GenStep(g) ==
    Read(g) \/ Save(g) \/ Start(g) \/ FinalSave(g) \/ Cleanup(g) \/ Check(g)
CallStep(d) == Insert(d) \/ Saved(d) \/ Return(d)
PutStep(d) == PutSelect(d) \/ PutCommit(d) \/ PutCheck(d)

Next ==
    \/ \E p \in Proc : Turn(p) \/ Crash(p)
    \/ \E g \in Gen : GenStep(g) \/ Stop(g) \/ Finish(g)
    \/ \E g \in Gen, d \in Sub : Delegate(g, d)
    \/ \E d \in Sub : \/ CallStep(d) \/ Worked(d) \/ PutStep(d)
                      \/ InsertFails(d) \/ InsertCancelled(d) \/ SaveFails(d)
    \/ \E k \in Task : PumpStep(k) \/ Dies(k)

Spec == Init /\ [][Next]_vars

\* A generation that has been stopped is cancelled, with the call it waits for.
Cancelled(g) ==
    /\ g \notin active
    /\ \/ Finish(g)
       \/ \E d \in Sub : Caller(d) = g /\ ~call[d].background /\ Worked(d)

\* Every await on the database, on Redis or on a lock is answered, and the pump
\* polls for ever.  No generation and no sub-agent is promised to end by itself.
FairSpec ==
    /\ Spec
    /\ \A k \in Task : WF_vars(PumpStep(k))
    /\ \A g \in Gen : WF_vars(GenStep(g)) /\ WF_vars(Cancelled(g))
    /\ \A d \in Sub : WF_vars(CallStep(d)) /\ WF_vars(PutStep(d))

-----------------------------------------------------------------------------
(* Properties *)

\* The result of a background sub-agent is answered at most once, whichever of
\* the sub-agents and generations of several processes act as the pump, unless
\* the save of an older copy of the history has put it back.
TakenOnce == \A d \in Sub : d \notin clobbered => takes[d] <= 1

\* Who will still look for pending results, by itself or through the generation
\* it starts.
WillLook(k) == task[k].at \in Answering \cup Pump \cup {"told"}

\* No lost wake-up: between the commit of a result and the end of the last
\* generation somebody is left who looks for it, whatever the order of the
\* checks on both sides (run_background's and process_chat's).
NoneForgotten ==
    (faults = 0 /\ Pending # {}) => \E k \in Task : WillLook(k)

\* The capacity is neither lost nor exceeded by calls and sub-agents that end
\* in whatever way they end, as long as nothing fails or is stopped half-way.
HasSlot(d, p) ==
    \/ call[d].at = "insert" /\ task[Caller(d)].proc = p
    \/ At(d, "work") /\ task[d].proc = p
Holding(p, background) == {d \in Sub : call[d].background = background /\ HasSlot(d, p)}
SlotsAccounted ==
    faults = 0 => \A p \in Proc : /\ used[p] = Holding(p, TRUE)
                                  /\ permits[p] + Cardinality(Holding(p, FALSE)) = MaxConcurrent

\* A result that reached the parent chat is taken up once the chat comes to
\* rest, if nothing fails and no save of an older copy takes it out again.
Answered ==
    \A d \in Sub :
        <>[](active = {})
          => (hist[d] = "pending" ~> (hist[d] = "taken" \/ d \in clobbered \/ faults > 0))
=============================================================================
