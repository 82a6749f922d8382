---------------------------- MODULE TaskRegistry ----------------------------
(***************************************************************************)
(* The distributed task registry of open_webui/tasks.py, with Redis.       *)
(*                                                                         *)
(* Every process keeps the asyncio tasks it started in the dictionary      *)
(* `tasks`; all processes share the Redis hash REDIS_TASKS_KEY (task ->    *)
(* item) and one Redis set per item (the item's task ids).  The await of   *)
(* every Redis command is a point where the others run, so each handler is *)
(* split there.  An entry is removed by up to three cleaners: the task's   *)
(* own `finally` clause ("self"), the done callback ("callback") and       *)
(* stop_task ("stop").                                                     *)
(***************************************************************************)
EXTENDS Naturals, FiniteSets

CONSTANTS
    Proc,        \* the server processes that share one Redis
    Task,        \* task ids (uuid4: never reused)
    Item,        \* the ids tasks are grouped by: chats and documents
    Home,        \* Home[t]: the process that calls create_task for t
    ItemOf,      \* ItemOf[t]: the id argument of that call
    Stoppable,   \* the tasks a client may ask to stop
    NoItem,      \* None
    MaxFaults    \* bound: crashes, lost messages and failed commands

ASSUME ConstantsAssumption ==
    /\ Home \in [Task -> Proc]
    /\ ItemOf \in [Task -> Item]
    /\ Stoppable \subseteq Task
    /\ NoItem \notin Item
    /\ "absent" \notin Item
    /\ MaxFaults \in Nat

Absent == "absent"                     \* no field of the hash
Cleaner == {"self", "callback", "stop"}

\* The life of the coroutine.  "finally" is process_chat's cleanup_task call,
\* "tail" what process_chat does after it, "unwinding" a finally clause that
\* a cancellation has interrupted, "killed" a crash.
Stage == {"idle", "running", "cancelling", "finally", "tail", "unwinding",
          "ended", "killed"}
Live  == {"running", "cancelling", "finally", "tail", "unwinding"}

\* Where a cleaner stands; "lookup" and "publish" are stop_task's own steps.
CleanerPc == {"idle", "lookup", "publish", "remove", "count", "drop",
              "forget", "done", "dead"}

VARIABLES
    stage,      \* stage of each coroutine
    save,       \* create_task's `await redis_save_task`
    tasks,      \* tasks[p]: the ids in process p's dictionary
    hash,       \* hash[t]: the item stored under t, or Absent
    sets,       \* sets[i]: members of the Redis set of item i
    clean,      \* clean[t][c]: the program counter of t's cleaner c
    stopItem,   \* stopItem[t]: what stop_task's hget returned
    inbox,      \* inbox[p]: stop commands published and not yet read by p
    late,       \* history: tasks saved after their done callback's removal
    faults      \* faults so far

redis == <<hash, sets, late>>
vars == <<stage, save, tasks, hash, sets, clean, stopItem, inbox, late, faults>>

TypeOK ==
    /\ stage \in [Task -> Stage]
    /\ save \in [Task -> {"none", "sending", "stored", "failed"}]
    /\ tasks \in [Proc -> SUBSET Task]
    /\ hash \in [Task -> Item \cup {NoItem, Absent}]
    /\ sets \in [Item -> SUBSET Task]
    /\ clean \in [Task -> [Cleaner -> CleanerPc]]
    /\ stopItem \in [Task -> Item \cup {NoItem}]
    /\ inbox \in [Proc -> SUBSET Task]
    /\ late \subseteq Task
    /\ faults \in 0..MaxFaults

Init ==
    /\ stage = [t \in Task |-> "idle"]
    /\ save = [t \in Task |-> "none"]
    /\ tasks = [p \in Proc |-> {}]
    /\ hash = [t \in Task |-> Absent]
    /\ sets = [i \in Item |-> {}]
    /\ clean = [t \in Task |-> [c \in Cleaner |-> "idle"]]
    /\ stopItem = [t \in Task |-> NoItem]
    /\ inbox = [p \in Proc |-> {}]
    /\ late = {}
    /\ faults = 0

\* list_task_ids_by_item_id and has_active_tasks, Redis branch.
ItemTasks(i) == sets[i]
HasActiveTasks(i) == ItemTasks(i) # {}

\* One more fault.
Fault == faults < MaxFaults /\ faults' = faults + 1

-----------------------------------------------------------------------------
(* create_task: everything up to the await is one step. *)

Create(t) ==
    /\ stage[t] = "idle"
    /\ stage' = [stage EXCEPT ![t] = "running"]
    /\ tasks' = [tasks EXCEPT ![Home[t]] = @ \cup {t}]
    /\ save' = [save EXCEPT ![t] = "sending"]
    /\ UNCHANGED <<redis, clean, stopItem, inbox, faults>>

\* The save pipeline (hset, sadd) executes in Redis.  The clients of a process
\* come from a connection pool, so this pipeline and that of a cleaner are not
\* ordered: the done callback of a coroutine that ends at once can be first.
Stored(t) ==
    /\ hash' = [hash EXCEPT ![t] = ItemOf[t]]
    /\ sets' = [sets EXCEPT ![ItemOf[t]] = @ \cup {t}]
    /\ late' = IF clean[t]["callback"] \in {"idle", "remove", "dead"}
               THEN late ELSE late \cup {t}

Save(t) ==
    /\ save[t] = "sending"
    /\ Stored(t)
    /\ save' = [save EXCEPT ![t] = "stored"]
    /\ UNCHANGED <<stage, tasks, clean, stopItem, inbox, faults>>

\* The await raises: whether or not Redis executed the pipeline, create_task
\* fails although the coroutine is already running.
SaveFails(t) ==
    /\ save[t] = "sending"
    /\ Fault
    /\ Stored(t) \/ UNCHANGED redis
    /\ save' = [save EXCEPT ![t] = "failed"]
    /\ UNCHANGED <<stage, tasks, clean, stopItem, inbox>>

-----------------------------------------------------------------------------
(* The coroutine. *)

\* Mutant: no done callback for a task that has cleaned up after itself.
EndUnlessCleaned(t) ==
    /\ stage' = [stage EXCEPT ![t] = "ended"]
    /\ clean' = [clean EXCEPT ![t]["callback"] =
                   IF clean[t]["self"] = "done" THEN "idle" ELSE "remove"]

\* The task is done: its done callback spawns cleanup_task.
End(t) ==
    /\ stage' = [stage EXCEPT ![t] = "ended"]
    /\ clean' = [clean EXCEPT ![t]["callback"] = "remove"]

\* A coroutine without a cleanup of its own (a debounced save, a sub-agent)
\* returns, or its cancellation is thrown into it.
Finish(t) ==
    /\ stage[t] \in {"running", "cancelling", "unwinding"}
    /\ End(t)
    /\ UNCHANGED <<save, tasks, redis, stopItem, inbox, faults>>

\* Mutant: process_chat deregisters before it generates.
EnterFinallyEarly(t) ==
    /\ stage[t] \in {"running", "cancelling"}
    /\ clean[t]["self"] = "idle"
    /\ clean' = [clean EXCEPT ![t]["self"] = "remove"]
    /\ UNCHANGED <<stage, save, tasks, redis, stopItem, inbox, faults>>

\* process_chat reaches its finally clause and calls cleanup_task.
EnterFinally(t) ==
    /\ stage[t] \in {"running", "cancelling"}
    /\ stage' = [stage EXCEPT ![t] = "finally"]
    /\ clean' = [clean EXCEPT ![t]["self"] = "remove"]
    /\ UNCHANGED <<save, tasks, redis, stopItem, inbox, faults>>

\* With cleanup_task done, process_chat goes on to the pending internal
\* messages when the chat has no active task, and returns otherwise.
EnterTail(t) ==
    /\ stage[t] = "finally"
    /\ clean[t]["self"] = "done"
    /\ ~HasActiveTasks(ItemOf[t])
    /\ stage' = [stage EXCEPT ![t] = "tail"]
    /\ UNCHANGED <<save, tasks, redis, clean, stopItem, inbox, faults>>

LeaveFinally(t) ==
    /\ stage[t] = "finally"
    /\ clean[t]["self"] = "done"
    /\ HasActiveTasks(ItemOf[t])
    /\ End(t)
    /\ UNCHANGED <<save, tasks, redis, stopItem, inbox, faults>>

LeaveTail(t) ==
    /\ stage[t] = "tail"
    /\ End(t)
    /\ UNCHANGED <<save, tasks, redis, stopItem, inbox, faults>>

-----------------------------------------------------------------------------
(* cleanup_task and redis_cleanup_task *)

Goto(t, c, pc) == clean' = [clean EXCEPT ![t][c] = pc]

\* Mutant: the done callback is registered without the id.
KnownItemLost(t, c) ==
    CASE c = "stop" -> stopItem[t]
      [] c = "self" -> ItemOf[t]
      [] c = "callback" -> NoItem

\* item_id as the cleaner knows it: stop_task has only what hget returned.
KnownItem(t, c) == IF c = "stop" THEN stopItem[t] ELSE ItemOf[t]

\* Mutant: stop_task also pops the task, as it does without Redis.
AfterRedisPop(c) == "forget"

\* What follows the Redis part: stop_task returns, cleanup_task goes on to
\* the process' own dictionaries.
AfterRedis(c) == IF c = "stop" THEN "idle" ELSE "forget"

\* The pipeline hdel, srem.
Remove(t, c) ==
    /\ clean[t][c] = "remove"
    /\ hash' = [hash EXCEPT ![t] = Absent]
    /\ sets' = [i \in Item |->
                  IF i = KnownItem(t, c) THEN sets[i] \ {t} ELSE sets[i]]
    /\ Goto(t, c, IF KnownItem(t, c) = NoItem THEN AfterRedis(c) ELSE "count")
    /\ UNCHANGED <<stage, save, tasks, stopItem, inbox, late, faults>>

\* scard: an empty set is about to be deleted.
Count(t, c) ==
    /\ clean[t][c] = "count"
    /\ Goto(t, c, IF sets[KnownItem(t, c)] = {} THEN "drop" ELSE AfterRedis(c))
    /\ UNCHANGED <<stage, save, tasks, redis, stopItem, inbox, faults>>

\* delete: the whole key, whatever it holds by now.
Drop(t, c) ==
    /\ clean[t][c] = "drop"
    /\ sets' = [sets EXCEPT ![KnownItem(t, c)] = {}]
    /\ Goto(t, c, AfterRedis(c))
    /\ UNCHANGED <<stage, save, tasks, hash, stopItem, inbox, late, faults>>

\* tasks.pop(task_id, None)
Forget(t, c) ==
    /\ clean[t][c] = "forget"
    /\ tasks' = [tasks EXCEPT ![Home[t]] = @ \ {t}]
    /\ Goto(t, c, "done")
    /\ UNCHANGED <<stage, save, redis, stopItem, inbox, faults>>

\* A Redis command of the cleanup raises.  process_chat swallows it and goes
\* on; a done callback or a stop request ends there.
CleanFails(t, c) ==
    /\ clean[t][c] \in {"remove", "count", "drop"}
    /\ Fault
    /\ Goto(t, c, CASE c = "self" -> "done"
                    [] c = "callback" -> "dead"
                    [] c = "stop" -> "idle")
    /\ UNCHANGED <<stage, save, tasks, redis, stopItem, inbox>>

-----------------------------------------------------------------------------
(* stop_task, stop_item_tasks and redis_task_command_listener *)

\* stop_task_endpoint: an administrator picks an id from list_tasks.
StopTask(t) ==
    /\ t \in Stoppable
    /\ hash[t] # Absent
    /\ clean[t]["stop"] = "idle"
    /\ Goto(t, "stop", "lookup")
    /\ UNCHANGED <<stage, save, tasks, redis, stopItem, inbox, faults>>

\* stop_item_tasks reads the ids and calls stop_task on each of them.
StopItemTasks(i) ==
    LET ids == {t \in ItemTasks(i) \cap Stoppable : clean[t]["stop"] = "idle"}
    IN  /\ ids # {}
        /\ clean' = [t \in Task |->
                       IF t \in ids THEN [clean[t] EXCEPT !["stop"] = "lookup"]
                                    ELSE clean[t]]
        /\ UNCHANGED <<stage, save, tasks, redis, stopItem, inbox, faults>>

\* Mutant: the answer of hget is used as it comes.
LookupRaw(t) ==
    /\ clean[t]["stop"] = "lookup"
    /\ stopItem' = [stopItem EXCEPT ![t] = hash[t]]
    /\ Goto(t, "stop", "publish")
    /\ UNCHANGED <<stage, save, tasks, redis, inbox, faults>>

\* hget, `item_id or None`
Lookup(t) ==
    /\ clean[t]["stop"] = "lookup"
    /\ stopItem' = [stopItem EXCEPT
                      ![t] = IF hash[t] = Absent THEN NoItem ELSE hash[t]]
    /\ Goto(t, "stop", "publish")
    /\ UNCHANGED <<stage, save, tasks, redis, inbox, faults>>

\* Mutant: the command reaches one process only.
PublishToOne(t) ==
    /\ clean[t]["stop"] = "publish"
    /\ inbox' = [inbox EXCEPT ![CHOOSE p \in Proc : TRUE] = @ \cup {t}]
    /\ Goto(t, "stop", "remove")
    /\ UNCHANGED <<stage, save, tasks, redis, stopItem, faults>>

\* redis_send_command: every subscribed process gets the command.
Publish(t) ==
    /\ clean[t]["stop"] = "publish"
    /\ inbox' = [p \in Proc |-> inbox[p] \cup {t}]
    /\ Goto(t, "stop", "remove")
    /\ UNCHANGED <<stage, save, tasks, redis, stopItem, faults>>

\* Task.cancel() on a coroutine that is suspended at an await.  Inside the
\* finally clause CancelledError escapes `except Exception`.
Cancel(t) ==
    /\ stage' = [stage EXCEPT ![t] =
                   IF @ = "running" THEN "cancelling"
                   ELSE IF @ \in {"finally", "tail"} THEN "unwinding" ELSE @]
    /\ clean' = [clean EXCEPT ![t]["self"] =
                   IF stage[t] = "finally" THEN "done" ELSE @]

\* redis_task_command_listener reads a command for a task of its own ...
Deliver(p, t) ==
    /\ t \in inbox[p] \cap tasks[p]
    /\ inbox' = [inbox EXCEPT ![p] = @ \ {t}]
    /\ Cancel(t)
    /\ UNCHANGED <<save, tasks, redis, stopItem, faults>>

\* ... or for a task it does not have.
Ignore(p, t) ==
    /\ t \in inbox[p] \ tasks[p]
    /\ inbox' = [inbox EXCEPT ![p] = @ \ {t}]
    /\ UNCHANGED <<stage, save, tasks, redis, clean, stopItem, faults>>

-----------------------------------------------------------------------------
(* Faults *)

\* Pub/sub keeps nothing for a subscriber that is reconnecting.
LoseCommand(p, t) ==
    /\ t \in inbox[p]
    /\ Fault
    /\ inbox' = [inbox EXCEPT ![p] = @ \ {t}]
    /\ UNCHANGED <<stage, save, tasks, redis, clean, stopItem>>

\* Process p dies and restarts with empty dictionaries: its coroutines and
\* their cleaners are gone, and so are the stop requests it was serving.
Crash(p) ==
    LET lost == {t \in Task : Home[t] = p /\ stage[t] # "idle"}
    IN  /\ Fault
        /\ stage' = [t \in Task |->
                       IF t \in lost /\ stage[t] # "ended" THEN "killed"
                       ELSE stage[t]]
        /\ save' = [t \in Task |->
                      IF t \in lost /\ save[t] = "sending" THEN "failed"
                      ELSE save[t]]
        /\ \E served \in SUBSET {t \in Task : clean[t]["stop"] # "idle"} :
             clean' = [t \in Task |-> [c \in Cleaner |->
               IF c = "stop" THEN IF t \in served THEN "idle" ELSE clean[t][c]
               ELSE IF t \in lost /\ clean[t][c] # "done" THEN "dead"
               ELSE clean[t][c]]]
        /\ tasks' = [tasks EXCEPT ![p] = {}]
        /\ inbox' = [inbox EXCEPT ![p] = {}]
        /\ UNCHANGED <<redis, stopItem>>

-----------------------------------------------------------------------------
CleanStep(t, c) == Remove(t, c) \/ Count(t, c) \/ Drop(t, c) \/ Forget(t, c)

Next ==
    \/ \E t \in Task :
         \/ Create(t) \/ Save(t) \/ SaveFails(t)
         \/ Finish(t) \/ EnterFinally(t) \/ EnterTail(t) \/ LeaveFinally(t)
         \/ LeaveTail(t)
         \/ StopTask(t) \/ Lookup(t) \/ Publish(t)
         \/ \E c \in Cleaner : CleanStep(t, c) \/ CleanFails(t, c)
    \/ \E i \in Item : StopItemTasks(i)
    \/ \E p \in Proc :
         \/ Crash(p)
         \/ \E t \in Task : Deliver(p, t) \/ Ignore(p, t) \/ LoseCommand(p, t)

Spec == Init /\ [][Next]_vars

\* The event loop resumes every await that has its answer; nothing obliges a
\* coroutine that is "running" or in its "tail" (a model is generating) to
\* end, nor a client to ask for anything.
CancelledEnds(t) ==
    /\ stage[t] # "running"
    /\ Finish(t) \/ EnterFinally(t) \/ EnterTail(t) \/ LeaveFinally(t)

Fairness ==
    /\ \A t \in Task :
         /\ WF_vars(Save(t))
         /\ WF_vars(Lookup(t)) /\ WF_vars(Publish(t))
         /\ WF_vars(CancelledEnds(t))
         /\ \A c \in Cleaner : WF_vars(CleanStep(t, c))
    /\ \A p \in Proc, t \in Task : WF_vars(Deliver(p, t))

FairSpec == Spec /\ Fairness
-----------------------------------------------------------------------------
(* Properties *)

Listed(t) == hash[t] # Absent \/ \E i \in Item : t \in sets[i]

\* The registry lists a task only while its coroutine is live, or while the
\* done callback has still to remove it (list_tasks: "currently active" ids).
\* It delimits the two ways to an entry that nothing ever removes, the entries
\* having no expiry: the callback died (a crash, a failed command), or Redis
\* executed create_task's save after the callback's removal, which nothing in
\* the code prevents.  No interleaving of the three cleaners is a third.
NoOrphanEntry ==
    \A t \in Task : Listed(t) =>
        \/ stage[t] \in Live
        \/ clean[t]["callback"] \in {"remove", "dead"}
        \/ t \in late

\* A member of an item's set has its field in the hash, under that item: so
\* stop_task, which learns the item from the hash, also cleans the set.
SetWithinHash ==
    \A t \in Task, i \in Item : t \in sets[i] => hash[t] = i

\* Until a task reaches its own finally clause, the process that runs it finds
\* it in `tasks`: a stop command delivered there is never ignored, however far
\* the registry's cleanup by stop_task has come.
RunningTaskHasHandle ==
    \A t \in Task :
        stage[t] \in {"running", "cancelling"} => t \in tasks[Home[t]]

Unstopped(t) == save[t] = "stored" /\ stage[t] = "running" /\ stopItem[t] = NoItem

\* No cleaner of another task removes a running task from the hash.
RunningIsListed ==
    \A t \in Task : Unstopped(t) => hash[t] = ItemOf[t]

\* "Remove the set key entirely if no tasks remain for this item": deleting
\* the key costs no running task its membership.
RunningIsActive ==
    \A t \in Task : Unstopped(t) => t \in sets[ItemOf[t]]

\* Where the three cleaners of a task can stand, and what the registry holds
\* meanwhile: the strengthening that makes the invariants above inductive.
CleanerInv ==
    \A t \in Task :
        /\ stage[t] = "idle" => save[t] = "none"
        /\ hash[t] \in {ItemOf[t], Absent}
        /\ Listed(t) => save[t] \in {"stored", "failed"}
        /\ t \in late => save[t] \in {"stored", "failed"} /\ stage[t] = "ended"
        /\ clean[t]["callback"] = "idle" <=> stage[t] \in Live \cup {"idle"}
        /\ clean[t]["callback"] \notin {"idle", "dead"} => stage[t] = "ended"
        /\ stage[t] \in {"idle", "running", "cancelling"} => clean[t]["self"] = "idle"
        /\ clean[t]["stop"] \in {"idle", "lookup", "publish", "remove", "count", "drop"}
        /\ clean[t]["stop"] # "idle" => save[t] \in {"stored", "failed"}
        /\ clean[t]["stop"] \in {"publish", "remove"} =>
              \A i \in Item : t \in sets[i] => stopItem[t] = i
        /\ clean[t]["stop"] = "lookup" /\ save[t] = "stored"
              /\ stage[t] = "running" => hash[t] = ItemOf[t]
        /\ clean[t]["stop"] \in {"publish", "remove"} => ~Unstopped(t)

\* Unless something fails, a task that is running when its stop command is out
\* does not run on.
StopTakesEffect ==
    \A t \in Task :
        stage[t] = "running" /\ clean[t]["stop"] = "remove"
            ~> stage[t] # "running" \/ faults > 0

\* Unless something fails, or the save comes late, the entry of a finished task
\* goes away for good.
EndedIsUnlisted ==
    \A t \in Task :
        stage[t] = "ended" ~> [](~Listed(t)) \/ t \in late \/ faults > 0
=============================================================================
