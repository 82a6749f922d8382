----------------------------- MODULE LocalTasks -----------------------------
(***************************************************************************)
(* The task registry of open_webui/tasks.py without Redis: one process,    *)
(* one event loop.  Between two awaits a handler runs alone, so every      *)
(* dictionary operation is atomic; what can go wrong is what an await      *)
(* lets in.  stop_item_tasks iterates over the list object that item_tasks *)
(* holds, while cleanup_task removes entries from that same object.        *)
(***************************************************************************)
EXTENDS Naturals, Sequences, SequencesExt

CONSTANTS
    Task, Item,
    ItemOf,         \* ItemOf[t]: the id argument of create_task
    SelfCleaning,   \* tasks that call cleanup_task themselves (process_chat)
    Stopper         \* concurrent requests to stop an item or a task

ASSUME ConstantsAssumption ==
    /\ ItemOf \in [Task -> Item]
    /\ SelfCleaning \subseteq Task
    /\ "none" \notin Item

Stage == {"idle", "running", "cancelling", "tail", "ended", "cleaned"}

\* "loop" is between two iterations of stop_item_tasks; it ends with "all"
\* (`All tasks for item stopped`), "failed" (`Task with ID not found`) or
\* "raised" (the awaited task's own exception).
StopPc == {"idle", "loop", "await", "all", "failed", "raised"}

VARIABLES
    stage,      \* stage[t]: "tail" is process_chat after its cleanup_task,
                \* "cleaned" an ended task whose done callback has run
    raised,     \* the tasks that ended with an exception
    tasks,      \* the ids in the dictionary `tasks`
    itemTasks,  \* itemTasks[i]: the list item_tasks[i], empty when absent
    stop,       \* stop[s]: the local state of a request
    popper      \* history, popper[t]: the requests that have popped t

vars == <<stage, raised, tasks, itemTasks, stop, popper>>

\* Mutant: the loop starts at the second task.
NoStopOffByOne ==
    [pc |-> "idle", item |-> "none", next |-> 2, cur |-> "none",
     detached |-> FALSE, asked |-> {}]

\* Mutant: a cursor that starts before the list.
NoStopZero ==
    [pc |-> "idle", item |-> "none", next |-> 0, cur |-> "none",
     detached |-> FALSE, asked |-> {}]

\* A request before it starts.
NoStop == [pc |-> "idle", item |-> "none", next |-> 1, cur |-> "none",
           detached |-> FALSE, asked |-> {}]

\* The local state of a request: the item (none for the single-task endpoint),
\* the position and the task it is at, and what it was asked to stop.
Stops == [pc : StopPc, item : Item \cup {"none"}, next : Nat \ {0},
          cur : Task \cup {"none"}, detached : BOOLEAN, asked : SUBSET Task]

TypeOK ==
    /\ stage \in [Task -> Stage]
    /\ raised \subseteq Task
    /\ tasks \subseteq Task
    /\ itemTasks \in [Item -> Seq(Task)]
    /\ \A i \in Item : IsInjective(itemTasks[i])
    /\ stop \in [Stopper -> Stops]
    /\ popper \in [Task -> SUBSET Stopper]

Init ==
    /\ stage = [t \in Task |-> "idle"]
    /\ raised = {}
    /\ tasks = {}
    /\ itemTasks = [i \in Item |-> <<>>]
    /\ stop = [s \in Stopper |-> NoStop]
    /\ popper = [t \in Task |-> {}]

-----------------------------------------------------------------------------
\* No handler is in the middle of an iteration: the event loop is free.
LoopFree == \A s \in Stopper : stop[s].pc # "loop"

Create(t) ==
    /\ LoopFree
    /\ stage[t] = "idle"
    /\ stage' = [stage EXCEPT ![t] = "running"]
    /\ tasks' = tasks \cup {t}
    /\ itemTasks' = [itemTasks EXCEPT ![ItemOf[t]] = Append(@, t)]
    /\ UNCHANGED <<raised, stop, popper>>

\* Mutant: cleanup_task forgets the list of the item.
CleanupDictOnly(t) ==
    /\ tasks' = tasks \ {t}
    /\ UNCHANGED <<itemTasks, stop>>

\* cleanup_task.  The entry of an item whose list has become empty is popped:
\* a loop over that list goes on with an empty object of its own.
Cleanup(t) ==
    LET left == RemoveFirst(itemTasks[ItemOf[t]], t)
    IN  /\ tasks' = tasks \ {t}
        /\ itemTasks' = [itemTasks EXCEPT ![ItemOf[t]] = left]
        /\ stop' = [s \in Stopper |->
                      IF stop[s].item = ItemOf[t] /\ left = <<>>
                      THEN [stop[s] EXCEPT !.detached = TRUE] ELSE stop[s]]

\* The coroutine returns, or ends with its cancellation; the done callback is
\* scheduled.
Finish(t) ==
    /\ LoopFree
    /\ \/ stage[t] \in {"cancelling", "tail"}
       \/ stage[t] = "running" /\ t \notin SelfCleaning
    /\ stage' = [stage EXCEPT ![t] = "ended"]
    /\ UNCHANGED <<raised, tasks, itemTasks, stop, popper>>

\* It ends with an exception; process_chat stores its errors and returns.
Raise(t) ==
    /\ LoopFree
    /\ t \notin SelfCleaning
    /\ stage[t] \in {"running", "cancelling"}
    /\ stage' = [stage EXCEPT ![t] = "ended"]
    /\ raised' = raised \cup {t}
    /\ UNCHANGED <<tasks, itemTasks, stop, popper>>

\* process_chat's finally clause.
SelfCleanup(t) ==
    /\ LoopFree
    /\ t \in SelfCleaning
    /\ stage[t] \in {"running", "cancelling"}
    /\ stage' = [stage EXCEPT ![t] = "tail"]
    /\ Cleanup(t)
    /\ UNCHANGED <<raised, popper>>

\* The done callback's cleanup_task.  It is a task of its own, scheduled
\* behind the wake-up of whoever awaits t.
Callback(t) ==
    /\ LoopFree
    /\ stage[t] = "ended"
    /\ \A s \in Stopper : ~(stop[s].pc = "await" /\ stop[s].cur = t)
    /\ stage' = [stage EXCEPT ![t] = "cleaned"]
    /\ Cleanup(t)
    /\ UNCHANGED <<raised, popper>>

-----------------------------------------------------------------------------
\* stop_item_tasks starts its loop on the list as it is.
StopItemTasks(s, i) ==
    /\ LoopFree
    /\ stop[s].pc = "idle"
    /\ itemTasks[i] # <<>>
    /\ stop' = [stop EXCEPT ![s] = [NoStop EXCEPT !.pc = "loop", !.item = i,
                                      !.asked = ToSet(itemTasks[i])]]
    /\ UNCHANGED <<stage, raised, tasks, itemTasks, popper>>

\* The list the loop of s runs over, and the task it is at.
LoopList(s) == IF stop[s].detached THEN <<>> ELSE itemTasks[stop[s].item]
InLoop(s) == stop[s].pc = "loop" /\ stop[s].next <= Len(LoopList(s))
Current(s) == LoopList(s)[stop[s].next]

\* Where `await task` leads: into a wait unless the task is done already.
AwaitPc(t) ==
    CASE stage[t] # "ended" -> "await"
      [] stage[t] = "ended" /\ t \in raised -> "raised"
      [] OTHER -> "loop"

\* Mutant: pop and await without the cancel.
StopFoundUncancelled(s) ==
    /\ InLoop(s)
    /\ Current(s) \in tasks
    /\ LET t == Current(s)
       IN  /\ tasks' = tasks \ {t}
           /\ stop' = [stop EXCEPT ![s].pc = AwaitPc(t), ![s].cur = t,
                                    ![s].next = @ + 1]
    /\ UNCHANGED <<stage, raised, itemTasks, popper>>

\* stop_task finds the task: pop and cancel.
PopAndCancel(s, t) ==
    /\ tasks' = tasks \ {t}
    /\ stage' = [stage EXCEPT ![t] = IF @ = "running" THEN "cancelling" ELSE @]
    /\ popper' = [popper EXCEPT ![t] = @ \cup {s}]
    /\ UNCHANGED <<raised, itemTasks>>

\* The loop stops the task it is at and awaits it.
StopFound(s) ==
    /\ InLoop(s)
    /\ Current(s) \in tasks
    /\ PopAndCancel(s, Current(s))
    /\ stop' = [stop EXCEPT ![s].pc = AwaitPc(Current(s)), ![s].cur = Current(s),
                             ![s].next = @ + 1]

\* stop_task does not find it: stop_item_tasks returns this first failure.
StopMissing(s) ==
    /\ InLoop(s)
    /\ Current(s) \notin tasks
    /\ stop' = [stop EXCEPT ![s].pc = "failed", ![s].cur = Current(s)]
    /\ UNCHANGED <<stage, raised, tasks, itemTasks, popper>>

\* The list is exhausted.
StopReturns(s) ==
    /\ stop[s].pc = "loop"
    /\ ~InLoop(s)
    /\ stop' = [stop EXCEPT ![s].pc = "all"]
    /\ UNCHANGED <<stage, raised, tasks, itemTasks, popper>>

\* `await task` is over; only CancelledError is caught.
Awaited(s) ==
    /\ LoopFree
    /\ stop[s].pc = "await"
    /\ stage[stop[s].cur] = "ended"
    /\ stop' = [stop EXCEPT ![s].pc = AwaitPc(stop[s].cur)]
    /\ UNCHANGED <<stage, raised, tasks, itemTasks, popper>>

\* stop_task_endpoint: an administrator stops one task by an id that
\* list_tasks has shown, in a loop of one, as it were, that is over after it ...
StopTask(s, t) ==
    /\ LoopFree
    /\ stop[s].pc = "idle"
    /\ t \in tasks
    /\ PopAndCancel(s, t)
    /\ stop' = [stop EXCEPT ![s] = [NoStop EXCEPT !.pc = AwaitPc(t), !.cur = t,
                       !.next = 2, !.detached = TRUE, !.asked = {t}]]

\* ... or that is no longer in the dictionary.
StopTaskMissing(s, t) ==
    /\ LoopFree
    /\ stop[s].pc = "idle"
    /\ stage[t] # "idle" /\ t \notin tasks
    /\ stop' = [stop EXCEPT ![s] = [NoStop EXCEPT !.pc = "failed", !.cur = t]]
    /\ UNCHANGED <<stage, raised, tasks, itemTasks, popper>>

-----------------------------------------------------------------------------
Next ==
    \/ \E t \in Task :
         Create(t) \/ Finish(t) \/ Raise(t) \/ SelfCleanup(t) \/ Callback(t)
    \/ \E s \in Stopper :
         \/ StopFound(s) \/ StopMissing(s) \/ StopReturns(s) \/ Awaited(s)
         \/ \E i \in Item : StopItemTasks(s, i)
         \/ \E t \in Task : StopTask(s, t) \/ StopTaskMissing(s, t)

\* A coroutine that a cancellation reaches ends, and the event loop runs every
\* callback and wake-up; a running coroutine or the tail of process_chat (it
\* may be generating) need not end.
Fairness ==
    /\ \A t \in Task :
         /\ WF_vars(stage[t] = "cancelling" /\ (Finish(t) \/ SelfCleanup(t)))
         /\ WF_vars(Callback(t))
    /\ \A s \in Stopper : WF_vars(StopFound(s) \/ StopMissing(s) \/ StopReturns(s) \/ Awaited(s))

Spec == Init /\ [][Next]_vars /\ Fairness

-----------------------------------------------------------------------------
(* Properties *)

\* stop_item_tasks: "Stop all tasks associated with a specific item ID".  When
\* it reports that all are stopped, no task it was asked to stop still runs.
AllStopped ==
    \A s \in Stopper : stop[s].pc = "all" =>
        \A t \in stop[s].asked : stage[t] # "running"

\* Up to two tasks that leave the list only after their end are all reached.
PairStopped ==
    \A s \in Stopper :
        /\ stop[s].pc = "all"
        /\ \E t, u \in Task : stop[s].asked \subseteq {t, u}
        /\ stop[s].asked \cap SelfCleaning = {}
        => \A t \in stop[s].asked : stage[t] # "running"

\* The list of an item and the dictionary agree, but for a task that stop_task
\* has popped and whose own cleanup is still to come.
ListMatchesTasks ==
    /\ \A t \in tasks : t \in ToSet(itemTasks[ItemOf[t]])
    /\ \A i \in Item : \A t \in ToSet(itemTasks[i]) \ tasks :
         stage[t] \in {"cancelling", "ended"}

\* A request to stop an item fails only when another request (for the item, or
\* for that one task) has popped the very task it has come to: neither the
\* tasks' own cleanups nor its own pops ever make it fail.
FailureMeansContention ==
    \A s \in Stopper : stop[s].pc = "failed" /\ stop[s].item \in Item =>
        \E r \in Stopper \ {s} : r \in popper[stop[s].cur]

\* A request always gets an answer (no growing list keeps the loop going, no
\* cancelled task keeps it waiting), unless it awaits the tail of process_chat,
\* which no cancellation reaches any more.
StopAnswers ==
    \A s \in Stopper :
        stop[s].pc \in {"loop", "await"} ~>
            \/ stop[s].pc \in {"all", "failed", "raised"}
            \/ stop[s].pc = "await" /\ stage[stop[s].cur] = "tail"
=============================================================================
