------------------------ MODULE TaskRegistry_proofs ------------------------
(***************************************************************************)
(* Theorems about TaskRegistry, for every set of processes, tasks and      *)
(* items and every number of faults.                                       *)
(***************************************************************************)
EXTENDS TaskRegistry, TLAPS

USE ConstantsAssumption DEF ConstantsAssumption

\* The type invariant of the registry.
THEOREM TypeCorrect == Spec => []TypeOK
<1>1. Init => TypeOK
  BY DEF Init, TypeOK, Stage, Cleaner, CleanerPc
<1>2. TypeOK /\ [Next]_vars => TypeOK'
  <2> SUFFICES ASSUME TypeOK, [Next]_vars PROVE TypeOK'
    OBVIOUS
  <2> USE DEF TypeOK, Stage, Cleaner, CleanerPc, redis, Fault, Goto
  <2>1. ASSUME NEW t \in Task, Create(t) PROVE TypeOK'
    BY <2>1 DEF Create
  <2>2a. ASSUME NEW t \in Task, Save(t) PROVE TypeOK'
    BY <2>2a DEF Save, Stored
  <2>2b. ASSUME NEW t \in Task, SaveFails(t) PROVE TypeOK'
    <3>1. CASE Stored(t)
      BY <2>2b, <3>1 DEF SaveFails, Stored
    <3>2. CASE UNCHANGED redis
      BY <2>2b, <3>2 DEF SaveFails
    <3>3. QED
      BY <2>2b, <3>1, <3>2 DEF SaveFails
  <2>3a. ASSUME NEW t \in Task, Finish(t) PROVE  TypeOK'
    BY <2>3a DEF Finish, End
  <2>3b. ASSUME NEW t \in Task, EnterFinally(t) PROVE  TypeOK'
    BY <2>3b DEF EnterFinally
  <2>3c. ASSUME NEW t \in Task, LeaveFinally(t) PROVE  TypeOK'
    BY <2>3c DEF LeaveFinally, End
  <2>3e. ASSUME NEW t \in Task, EnterTail(t) PROVE  TypeOK'
    BY <2>3e DEF EnterTail
  <2>3d. ASSUME NEW t \in Task, LeaveTail(t) PROVE  TypeOK'
    BY <2>3d DEF LeaveTail, End
  <2>4a. ASSUME NEW t \in Task, StopTask(t) PROVE TypeOK'
    BY <2>4a DEF StopTask
  <2>4b. ASSUME NEW t \in Task, Lookup(t) PROVE TypeOK'
    BY <2>4b DEF Lookup
  <2>4c. ASSUME NEW t \in Task, Publish(t) PROVE TypeOK'
    BY <2>4c DEF Publish
  <2>5a. ASSUME NEW t \in Task, NEW c \in Cleaner, Remove(t, c)
        PROVE  TypeOK'
    BY <2>5a DEF Remove, AfterRedis
  <2>5b. ASSUME NEW t \in Task, NEW c \in Cleaner, Count(t, c)
        PROVE  TypeOK'
    BY <2>5b DEF Count, AfterRedis
  <2>5c. ASSUME NEW t \in Task, NEW c \in Cleaner, Drop(t, c)
        PROVE  TypeOK'
    BY <2>5c DEF Drop, AfterRedis
  <2>5d. ASSUME NEW t \in Task, NEW c \in Cleaner, Forget(t, c)
        PROVE  TypeOK'
    BY <2>5d DEF Forget
  <2>6. ASSUME NEW t \in Task, NEW c \in Cleaner, CleanFails(t, c)
        PROVE  TypeOK'
    BY <2>6 DEF CleanFails
  <2>7. ASSUME NEW i \in Item, StopItemTasks(i) PROVE TypeOK'
    BY <2>7 DEF StopItemTasks, ItemTasks
  <2>8. ASSUME NEW p \in Proc, Crash(p) PROVE TypeOK'
    BY <2>8 DEF Crash
  <2>9. ASSUME NEW p \in Proc, NEW t \in Task, Deliver(p, t) PROVE TypeOK'
    BY <2>9 DEF Deliver, Cancel
  <2>9a. ASSUME NEW p \in Proc, NEW t \in Task, Ignore(p, t) PROVE TypeOK'
    BY <2>9a DEF Ignore
  <2>10. ASSUME NEW p \in Proc, NEW t \in Task, LoseCommand(p, t) PROVE TypeOK'
    BY <2>10 DEF LoseCommand
  <2>11. CASE UNCHANGED vars
    BY <2>11 DEF vars
  <2>12. QED
    BY <2>1, <2>2a, <2>2b, <2>3a, <2>3b, <2>3c, <2>3d, <2>3e, <2>4a, <2>4b, <2>4c, <2>5a, <2>5b, <2>5c,
       <2>5d, <2>6, <2>7, <2>8, <2>9, <2>9a, <2>10, <2>11 DEF Next, CleanStep
<1>3. QED
  BY <1>1, <1>2, PTL DEF Spec

-----------------------------------------------------------------------------
\* What the cleaners of one task and the entries of that task have to do with
\* each other: CleanerInv and the safety properties, task by task.
TaskInv(t) ==
    /\ stage[t] = "idle" => save[t] = "none"
    /\ hash[t] \in {ItemOf[t], Absent}
    /\ \A i \in Item : t \in sets[i] => i = ItemOf[t] /\ hash[t] = i
    /\ hash[t] # Absent => save[t] \in {"stored", "failed"}
    /\ hash[t] # Absent =>
          stage[t] \in Live \/ clean[t]["callback"] \in {"remove", "dead"} \/ t \in late
    /\ t \in late => save[t] \in {"stored", "failed"} /\ stage[t] = "ended"
    /\ clean[t]["callback"] = "idle" <=> stage[t] \in Live \cup {"idle"}
    /\ clean[t]["callback"] \notin {"idle", "dead"} => stage[t] = "ended"
    /\ stage[t] \in {"idle", "running", "cancelling"} => clean[t]["self"] = "idle"
    /\ stage[t] \in {"running", "cancelling"} => t \in tasks[Home[t]]
    /\ clean[t]["stop"] \in {"idle", "lookup", "publish", "remove", "count", "drop"}
    /\ clean[t]["stop"] # "idle" => save[t] \in {"stored", "failed"}
    /\ clean[t]["stop"] \in {"publish", "remove"} =>
          \A i \in Item : t \in sets[i] => stopItem[t] = i
    /\ clean[t]["stop"] = "lookup" /\ save[t] = "stored" /\ stage[t] = "running" =>
          hash[t] = ItemOf[t]
    /\ clean[t]["stop"] \in {"publish", "remove"} => ~Unstopped(t)
    /\ Unstopped(t) => hash[t] = ItemOf[t]

LEMMA TaskInvInit == Init => \A t \in Task : TaskInv(t)
BY DEF Init, TaskInv, Live, Unstopped, Cleaner, Absent

LEMMA TaskInvStep ==
    ASSUME TypeOK, \A t \in Task : TaskInv(t), [Next]_vars
    PROVE  \A t \in Task : TaskInv(t)'
<1> SUFFICES ASSUME NEW u \in Task PROVE TaskInv(u)'
  OBVIOUS
<1>0. TaskInv(u)
  OBVIOUS
<1> USE DEF TypeOK, Stage, Live, Cleaner, CleanerPc, redis, Fault, Goto, TaskInv, Unstopped, Absent
<1>1. ASSUME NEW t \in Task, Create(t) PROVE TaskInv(u)'
  BY <1>1 DEF Create
<1>2. ASSUME NEW t \in Task, Save(t) PROVE TaskInv(u)'
  BY <1>2 DEF Save, Stored
<1>3. ASSUME NEW t \in Task, SaveFails(t) PROVE TaskInv(u)'
  <2>1. CASE Stored(t)
    BY <1>3, <2>1 DEF SaveFails, Stored
  <2>2. CASE UNCHANGED redis
    BY <1>3, <2>2 DEF SaveFails
  <2>3. QED
    BY <1>3, <2>1, <2>2 DEF SaveFails
<1>4. ASSUME NEW t \in Task, Finish(t) PROVE TaskInv(u)'
  BY <1>4 DEF Finish, End
<1>5. ASSUME NEW t \in Task, EnterFinally(t) PROVE TaskInv(u)'
  BY <1>5 DEF EnterFinally
<1>6. ASSUME NEW t \in Task, EnterTail(t) PROVE TaskInv(u)'
  BY <1>6 DEF EnterTail
<1>7. ASSUME NEW t \in Task, LeaveFinally(t) PROVE TaskInv(u)'
  BY <1>7 DEF LeaveFinally, End
<1>8. ASSUME NEW t \in Task, LeaveTail(t) PROVE TaskInv(u)'
  BY <1>8 DEF LeaveTail, End
<1>9. ASSUME NEW t \in Task, StopTask(t) PROVE TaskInv(u)'
  BY <1>9 DEF StopTask
<1>10. ASSUME NEW t \in Task, Lookup(t) PROVE TaskInv(u)'
  BY <1>10 DEF Lookup
<1>11. ASSUME NEW t \in Task, Publish(t) PROVE TaskInv(u)'
  BY <1>11 DEF Publish
<1>12. ASSUME NEW t \in Task, NEW c \in Cleaner, Remove(t, c) PROVE TaskInv(u)'
  BY <1>12 DEF Remove, AfterRedis, KnownItem
<1>13. ASSUME NEW t \in Task, NEW c \in Cleaner, Count(t, c) PROVE TaskInv(u)'
  BY <1>13 DEF Count, AfterRedis
<1>14. ASSUME NEW t \in Task, NEW c \in Cleaner, Drop(t, c) PROVE TaskInv(u)'
  BY <1>14 DEF Drop, AfterRedis
<1>15. ASSUME NEW t \in Task, NEW c \in Cleaner, Forget(t, c) PROVE TaskInv(u)'
  BY <1>15 DEF Forget
<1>16. ASSUME NEW t \in Task, NEW c \in Cleaner, CleanFails(t, c) PROVE TaskInv(u)'
  BY <1>16 DEF CleanFails
<1>17. ASSUME NEW i \in Item, StopItemTasks(i) PROVE TaskInv(u)'
  BY <1>17 DEF StopItemTasks, ItemTasks
<1>18. ASSUME NEW p \in Proc, Crash(p) PROVE TaskInv(u)'
  BY <1>18 DEF Crash
<1>19. ASSUME NEW p \in Proc, NEW t \in Task, Deliver(p, t) PROVE TaskInv(u)'
  BY <1>19 DEF Deliver, Cancel
<1>20. ASSUME NEW p \in Proc, NEW t \in Task, Ignore(p, t) PROVE TaskInv(u)'
  BY <1>20 DEF Ignore
<1>21. ASSUME NEW p \in Proc, NEW t \in Task, LoseCommand(p, t) PROVE TaskInv(u)'
  BY <1>21 DEF LoseCommand
<1>22. CASE UNCHANGED vars
  BY <1>22 DEF vars
<1> HIDE DEF TypeOK, Stage, Live, Cleaner, CleanerPc, redis, Fault, Goto, TaskInv, Unstopped, Absent
<1>23. QED
  BY <1>1, <1>2, <1>3, <1>4, <1>5, <1>6, <1>7, <1>8, <1>9, <1>10, <1>11, <1>12, <1>13, <1>14, <1>15, <1>16, <1>17, <1>18, <1>19, <1>20, <1>21, <1>22
     DEF Next, CleanStep

LEMMA TaskInvariant == Spec => [](TypeOK /\ \A t \in Task : TaskInv(t))
<1>1. TypeOK /\ (\A t \in Task : TaskInv(t)) /\ [Next]_vars
        => (\A t \in Task : TaskInv(t))'
  BY TaskInvStep
<1>2. QED
  BY TaskInvInit, TypeCorrect, <1>1, PTL DEF Spec

\* The bookkeeping of the cleaners, as TLC checks it.
THEOREM CleanersCorrect == Spec => []CleanerInv
<1>1. TypeOK /\ (\A t \in Task : TaskInv(t)) => CleanerInv
  BY DEF TypeOK, TaskInv, CleanerInv, Listed, Absent
<1>2. QED
  BY TaskInvariant, <1>1, PTL

\* Whatever stop requests, crashes and failed commands occur, a set never
\* names a task that the hash does not put under the same item.
THEOREM SetsAgreeWithHash == Spec => []SetWithinHash
<1>1. TypeOK /\ (\A t \in Task : TaskInv(t)) => SetWithinHash
  BY DEF TaskInv, SetWithinHash
<1>2. QED
  BY TaskInvariant, <1>1, PTL

\* A running task can always be cancelled by its own process.
THEOREM HandleKept == Spec => []RunningTaskHasHandle
<1>1. TypeOK /\ (\A t \in Task : TaskInv(t)) => RunningTaskHasHandle
  BY DEF TaskInv, RunningTaskHasHandle
<1>2. QED
  BY TaskInvariant, <1>1, PTL

\* A running task nobody has stopped keeps its field in the hash.
THEOREM RunningListed == Spec => []RunningIsListed
<1>1. TypeOK /\ (\A t \in Task : TaskInv(t)) => RunningIsListed
  BY DEF TaskInv, RunningIsListed
<1>2. QED
  BY TaskInvariant, <1>1, PTL

\* An entry outlives its task only if the done callback died or Redis executed
\* the save after the callback's removal: whatever stop requests, processes,
\* crashes and failed commands there are, the race of create_task's own two
\* pipelines and the loss of the callback are the only leaks.
THEOREM NoOrphans == Spec => []NoOrphanEntry
<1>1. TypeOK /\ (\A t \in Task : TaskInv(t)) => NoOrphanEntry
  BY DEF TypeOK, TaskInv, NoOrphanEntry, Listed, Absent
<1>2. QED
  BY TaskInvariant, <1>1, PTL

-----------------------------------------------------------------------------
(* What a fault is needed for *)

\* Only a fault takes the done callback away.
DeadByFault == faults = 0 => \A t \in Task : clean[t]["callback"] # "dead"

\* While nothing fails, list_tasks names a task that was not saved late only
\* while its coroutine is live or its done callback has still to take it off:
\* one leak takes a crash or a failed command, the other the late save.  This
\* is the safety half of EndedIsUnlisted; that the callback gets its turn is
\* the other half.
THEOREM LeaksTakeFaults ==
    Spec => [](faults = 0 => \A t \in Task :
                Listed(t) => \/ stage[t] \in Live
                             \/ clean[t]["callback"] = "remove"
                             \/ t \in late)
<1>1. Init => DeadByFault
  BY DEF Init, DeadByFault, Cleaner
<1>2. TypeOK /\ DeadByFault /\ [Next]_vars => DeadByFault'
  <2> SUFFICES ASSUME TypeOK, DeadByFault, [Next]_vars, faults' = 0, NEW u \in Task
               PROVE  clean'[u]["callback"] # "dead"
    BY DEF DeadByFault
  <2>0. clean \in [Task -> [Cleaner -> CleanerPc]] /\ faults \in Nat
    BY DEF TypeOK
  <2>1. faults = 0 => clean[u]["callback"] # "dead"
    BY DEF DeadByFault
  <2> USE DEF Goto, Cleaner
  <2>2. ASSUME NEW t \in Task, Create(t) \/ Save(t) \/ EnterTail(t)
        PROVE  clean'[u]["callback"] # "dead"
    BY <2>1, <2>2 DEF Create, Save, EnterTail
  <2>2a. ASSUME NEW t \in Task, EnterFinally(t) \/ StopTask(t) \/ Lookup(t) \/ Publish(t)
         PROVE  clean'[u]["callback"] # "dead"
    <3>1. faults = 0 /\ \E c \in {"self", "stop"}, pc \in CleanerPc :
                            clean' = [clean EXCEPT ![t][c] = pc]
      BY <2>2a DEF EnterFinally, StopTask, Lookup, Publish, CleanerPc
    <3>2. QED
      BY <2>0, <2>1, <3>1
  <2>3. ASSUME NEW t \in Task, Finish(t) \/ LeaveFinally(t) \/ LeaveTail(t)
        PROVE  clean'[u]["callback"] # "dead"
    <3>1. faults = 0 /\ clean' = [clean EXCEPT ![t]["callback"] = "remove"]
      BY <2>3 DEF Finish, LeaveFinally, LeaveTail, End
    <3>2. QED
      BY <2>0, <2>1, <3>1
  <2>4. ASSUME NEW t \in Task, NEW c \in Cleaner, CleanStep(t, c)
        PROVE  clean'[u]["callback"] # "dead"
    <3>1. faults = 0 /\ \E pc \in CleanerPc \ {"dead"} : clean' = [clean EXCEPT ![t][c] = pc]
      BY <2>4 DEF CleanStep, Remove, Count, Drop, Forget, AfterRedis, CleanerPc
    <3>2. QED
      BY <2>0, <2>1, <3>1
  <2>5. ASSUME NEW i \in Item, StopItemTasks(i) PROVE clean'[u]["callback"] # "dead"
    BY <2>0, <2>1, <2>5 DEF StopItemTasks
  <2>6. ASSUME NEW p \in Proc, NEW t \in Task, Deliver(p, t) PROVE clean'[u]["callback"] # "dead"
    <3>1. /\ faults = 0
          /\ clean' = [clean EXCEPT ![t]["self"] = IF stage[t] = "finally" THEN "done" ELSE @]
      BY <2>6 DEF Deliver, Cancel
    <3>2. clean'[u]["callback"] = clean[u]["callback"]
      BY <2>0, <3>1
    <3>3. QED
      BY <2>1, <3>1, <3>2
  <2>6a. ASSUME NEW p \in Proc, NEW t \in Task, Ignore(p, t) PROVE clean'[u]["callback"] # "dead"
    BY <2>1, <2>6a DEF Ignore
  <2> USE DEF Fault
  <2>7. ASSUME faults' = faults + 1 PROVE FALSE
    BY <2>0, <2>7
  <2>8. CASE UNCHANGED vars
    BY <2>1, <2>8 DEF vars
  <2>9. QED
    <3>1. ASSUME NEW t \in Task, SaveFails(t) PROVE FALSE
      BY <2>7, <3>1 DEF SaveFails
    <3>2. ASSUME NEW t \in Task, NEW c \in Cleaner, CleanFails(t, c) PROVE FALSE
      BY <2>7, <3>2 DEF CleanFails
    <3>3. ASSUME NEW p \in Proc, Crash(p) PROVE FALSE
      BY <2>7, <3>3 DEF Crash
    <3>4. ASSUME NEW p \in Proc, NEW t \in Task, LoseCommand(p, t) PROVE FALSE
      BY <2>7, <3>4 DEF LoseCommand
    <3>5. QED
      BY <2>2, <2>2a, <2>3, <2>4, <2>5, <2>6, <2>6a, <2>8, <3>1, <3>2, <3>3, <3>4 DEF Next
<1>3. NoOrphanEntry /\ DeadByFault
        => (faults = 0 => \A t \in Task :
              Listed(t) => \/ stage[t] \in Live
                           \/ clean[t]["callback"] = "remove"
                           \/ t \in late)
  BY DEF NoOrphanEntry, DeadByFault
<1>4. Spec => []NoOrphanEntry
  BY NoOrphans
<1>5. QED
  BY <1>1, <1>2, <1>3, <1>4, TypeCorrect, PTL DEF Spec

\* The stop command of a running task has still to be read by its process.
OnItsWay(t) ==
    stage[t] = "running" /\ clean[t]["stop"] \in {"remove", "count", "drop"}
        => t \in inbox[Home[t]]

\* While nothing fails, a running task whose stop command is out has that
\* command in the inbox of its own process, which finds it among its tasks
\* (HandleKept): no other process takes the command away and its own does not
\* ignore it.  This is the safety half of StopTakesEffect.
THEOREM StopIsOnItsWay == Spec => [](faults = 0 => \A t \in Task : OnItsWay(t))
<1> DEFINE AllOnTheirWay == faults = 0 => \A t \in Task : OnItsWay(t)
<1>1. Init => AllOnTheirWay
  BY DEF Init, OnItsWay
<1>2. TypeOK /\ (\A t \in Task : TaskInv(t)) /\ AllOnTheirWay /\ [Next]_vars => AllOnTheirWay'
  <2> SUFFICES ASSUME TypeOK, \A t \in Task : TaskInv(t), AllOnTheirWay, [Next]_vars,
                      faults' = 0, NEW u \in Task
               PROVE  OnItsWay(u)'
    OBVIOUS
  <2>a. /\ stage \in [Task -> Stage] /\ clean \in [Task -> [Cleaner -> CleanerPc]]
        /\ inbox \in [Proc -> SUBSET Task] /\ faults \in Nat /\ Home[u] \in Proc
    BY DEF TypeOK
  <2>b. /\ stage[u] = "running" => u \in tasks[Home[u]]
        /\ stage[u] = "idle" => clean[u]["stop"] = "idle"
    BY DEF TaskInv
  <2>c. faults = 0 => OnItsWay(u)
    OBVIOUS
  <2> HIDE DEF AllOnTheirWay
  <2> USE DEF OnItsWay, Fault, Goto, Cleaner, redis
  <2>1. ASSUME NEW t \in Task, Create(t) PROVE OnItsWay(u)'
    BY <2>a, <2>b, <2>c, <2>1 DEF Create
  <2>2. ASSUME NEW t \in Task, Save(t) PROVE OnItsWay(u)'
    BY <2>c, <2>2 DEF Save
  <2>3. ASSUME NEW t \in Task, Finish(t) \/ LeaveFinally(t) \/ LeaveTail(t) PROVE OnItsWay(u)'
    BY <2>a, <2>c, <2>3 DEF Finish, LeaveFinally, LeaveTail, End
  <2>4. ASSUME NEW t \in Task, EnterFinally(t) \/ EnterTail(t) PROVE OnItsWay(u)'
    BY <2>a, <2>c, <2>4 DEF EnterFinally, EnterTail
  <2>5. ASSUME NEW t \in Task, StopTask(t) \/ Lookup(t) PROVE OnItsWay(u)'
    BY <2>a, <2>c, <2>5 DEF StopTask, Lookup
  <2>6. ASSUME NEW t \in Task, Publish(t) PROVE OnItsWay(u)'
    BY <2>a, <2>c, <2>6 DEF Publish
  <2>7. ASSUME NEW t \in Task, NEW c \in Cleaner, CleanStep(t, c) PROVE OnItsWay(u)'
    <3>1. /\ stage' = stage /\ inbox' = inbox /\ faults' = faults
          /\ clean[t][c] \in {"remove", "count", "drop", "forget"}
          /\ \E pc \in CleanerPc : clean' = [clean EXCEPT ![t][c] = pc]
      BY <2>7 DEF CleanStep, Remove, Count, Drop, Forget, AfterRedis, CleanerPc
    <3>2. clean[u]["stop"] # "forget"
      BY DEF TaskInv
    <3>3. clean'[u]["stop"] \in {"remove", "count", "drop"}
            => clean[u]["stop"] \in {"remove", "count", "drop"}
      BY <2>a, <3>1, <3>2
    <3>4. QED
      BY <2>c, <3>1, <3>3
  <2>8. ASSUME NEW i \in Item, StopItemTasks(i) PROVE OnItsWay(u)'
    BY <2>a, <2>c, <2>8 DEF StopItemTasks
  <2>9. ASSUME NEW p \in Proc, NEW t \in Task, Deliver(p, t) PROVE OnItsWay(u)'
    <3>1. CASE t = u
      <4>0. stage' = [stage EXCEPT ![t] =
                        IF @ = "running" THEN "cancelling"
                        ELSE IF @ \in {"finally", "tail"} THEN "unwinding" ELSE @]
        BY <2>9 DEF Deliver, Cancel
      <4>1. stage'[u] # "running"
        BY <2>a, <3>1, <4>0
      <4>2. QED
        BY <4>1
    <3>2. CASE t # u
      <4>0. /\ stage' = [stage EXCEPT ![t] =
                             IF @ = "running" THEN "cancelling"
                             ELSE IF @ \in {"finally", "tail"} THEN "unwinding" ELSE @]
            /\ clean' = [clean EXCEPT ![t]["self"] = IF stage[t] = "finally" THEN "done" ELSE @]
            /\ faults' = faults
        BY <2>9 DEF Deliver, Cancel
      <4>1. stage'[u] = stage[u] /\ clean'[u]["stop"] = clean[u]["stop"] /\ faults' = faults
        BY <2>a, <3>2, <4>0
      <4>2. u \in inbox[Home[u]] => u \in inbox'[Home[u]]
        BY <2>a, <2>9, <3>2 DEF Deliver
      <4>3. QED
        BY <2>c, <4>1, <4>2
    <3>3. QED
      BY <3>1, <3>2
  <2>10. ASSUME NEW p \in Proc, NEW t \in Task, Ignore(p, t) PROVE OnItsWay(u)'
    BY <2>a, <2>b, <2>c, <2>10 DEF Ignore
  <2>11. ASSUME faults' = faults + 1 PROVE FALSE
    BY <2>a, <2>11
  <2>12. CASE UNCHANGED vars
    BY <2>c, <2>12 DEF vars
  <2>13. QED
    <3>1. ASSUME NEW t \in Task, SaveFails(t) PROVE FALSE
      BY <2>11, <3>1 DEF SaveFails
    <3>2. ASSUME NEW t \in Task, NEW c \in Cleaner, CleanFails(t, c) PROVE FALSE
      BY <2>11, <3>2 DEF CleanFails
    <3>3. ASSUME NEW p \in Proc, Crash(p) PROVE FALSE
      BY <2>11, <3>3 DEF Crash
    <3>4. ASSUME NEW p \in Proc, NEW t \in Task, LoseCommand(p, t) PROVE FALSE
      BY <2>11, <3>4 DEF LoseCommand
    <3>5. QED
      BY <2>1, <2>2, <2>3, <2>4, <2>5, <2>6, <2>7, <2>8, <2>9, <2>10, <2>12, <3>1, <3>2, <3>3, <3>4
         DEF Next
<1> HIDE DEF AllOnTheirWay
<1>3. AllOnTheirWay => (faults = 0 => \A t \in Task : OnItsWay(t))
  BY DEF AllOnTheirWay
<1>4. QED
  BY <1>1, <1>2, <1>3, TaskInvariant, PTL DEF Spec

-----------------------------------------------------------------------------
(* When deleting an empty set is safe *)

\* A stop request that has come to count the members knows the item it got
\* from the hash, and a running task that nobody has stopped is a member.
MemberInv(t) ==
    /\ stopItem[t] \in {ItemOf[t], NoItem}
    /\ clean[t]["stop"] \in {"count", "drop"} => stopItem[t] # NoItem
    /\ Unstopped(t) => t \in sets[ItemOf[t]]

LEMMA MemberStep ==
    ASSUME \A t, u \in Task : ItemOf[t] = ItemOf[u] => t = u,
           TypeOK, \A t \in Task : TaskInv(t), \A t \in Task : MemberInv(t), [Next]_vars
    PROVE  \A t \in Task : MemberInv(t)'
<1> SUFFICES ASSUME NEW u \in Task PROVE MemberInv(u)'
  OBVIOUS
<1>0. MemberInv(u) /\ TaskInv(u)
  OBVIOUS
<1>a. /\ sets \in [Item -> SUBSET Task] /\ stopItem \in [Task -> Item \cup {NoItem}]
      /\ clean \in [Task -> [Cleaner -> CleanerPc]]
      /\ stage \in [Task -> Stage]
      /\ save \in [Task -> {"none", "sending", "stored", "failed"}]
      /\ ItemOf[u] \in Item
  BY DEF TypeOK
<1>b. /\ hash[u] \in {ItemOf[u], Absent}
      /\ stage[u] = "idle" => save[u] = "none"
      /\ stage[u] = "running" => clean[u]["self"] = "idle" /\ clean[u]["callback"] = "idle"
      /\ clean[u]["stop"] \in {"publish", "remove"} => ~Unstopped(u)
      /\ clean[u]["stop"] # "idle" => save[u] \in {"stored", "failed"}
      /\ clean[u]["stop"] = "lookup" /\ save[u] = "stored" /\ stage[u] = "running" =>
            hash[u] = ItemOf[u]
      /\ clean[u]["stop"] \in {"idle", "lookup", "publish", "remove", "count", "drop"}
  BY <1>0 DEF TaskInv, Live
<1>c. /\ stopItem[u] \in {ItemOf[u], NoItem}
      /\ clean[u]["stop"] \in {"count", "drop"} => stopItem[u] # NoItem
      /\ Unstopped(u) => u \in sets[ItemOf[u]]
  BY <1>0 DEF MemberInv
<1> USE DEF MemberInv, Unstopped, Cleaner
<1>1. ASSUME NEW t \in Task, Create(t) PROVE MemberInv(u)'
  BY <1>a, <1>b, <1>c, <1>1 DEF Create, redis
<1>2. ASSUME NEW t \in Task, Save(t) PROVE MemberInv(u)'
  <2>1. /\ sets' = [sets EXCEPT ![ItemOf[t]] = @ \cup {t}]
        /\ save' = [save EXCEPT ![t] = "stored"]
        /\ UNCHANGED <<stage, clean, stopItem>>
    BY <1>2 DEF Save, Stored
  <2>2. ItemOf[t] \in Item
    OBVIOUS
  <2>3. QED
    BY <1>a, <1>b, <1>c, <2>1, <2>2
<1>3. ASSUME NEW t \in Task, SaveFails(t) PROVE MemberInv(u)'
  <2>0. sets' = [sets EXCEPT ![ItemOf[t]] = @ \cup {t}] \/ sets' = sets
    BY <1>3 DEF SaveFails, Stored, redis
  <2>1. \A i \in Item : sets[i] \subseteq sets'[i]
    BY <1>a, <2>0
  <2>2. QED
    BY <1>a, <1>b, <1>c, <1>3, <2>1 DEF SaveFails
<1>4. ASSUME NEW t \in Task, Finish(t) \/ LeaveFinally(t) \/ LeaveTail(t) PROVE MemberInv(u)'
  <2>1. /\ stage' = [stage EXCEPT ![t] = "ended"]
        /\ clean' = [clean EXCEPT ![t]["callback"] = "remove"]
        /\ UNCHANGED <<save, sets, stopItem>>
    BY <1>4 DEF Finish, LeaveFinally, LeaveTail, End, redis
  <2>2. clean'[u]["stop"] = clean[u]["stop"]
    BY <1>a, <2>1
  <2>3. stage'[u] = "running" => stage[u] = "running"
    BY <1>a, <2>1
  <2>4. QED
    BY <1>c, <2>1, <2>2, <2>3
<1>5. ASSUME NEW t \in Task, EnterFinally(t) \/ EnterTail(t) PROVE MemberInv(u)'
  <2>1. /\ \E e \in {"finally", "tail"} : stage' = [stage EXCEPT ![t] = e]
        /\ clean' = clean \/ clean' = [clean EXCEPT ![t]["self"] = "remove"]
        /\ UNCHANGED <<save, sets, stopItem>>
    BY <1>5 DEF EnterFinally, EnterTail, redis
  <2>2. clean'[u]["stop"] = clean[u]["stop"]
    BY <1>a, <2>1
  <2>3. stage'[u] = "running" => stage[u] = "running"
    BY <1>a, <2>1
  <2>4. QED
    BY <1>c, <2>1, <2>2, <2>3
<1>6. ASSUME NEW t \in Task, StopTask(t) \/ Publish(t) PROVE MemberInv(u)'
  <2>1. /\ \E pc \in {"lookup", "remove"} : clean' = [clean EXCEPT ![t]["stop"] = pc]
        /\ UNCHANGED <<stage, save, sets, stopItem>>
    BY <1>6 DEF StopTask, Publish, Goto, redis
  <2>2. clean'[u]["stop"] \in {"count", "drop"} => clean[u]["stop"] \in {"count", "drop"}
    BY <1>a, <2>1
  <2>3. QED
    BY <1>c, <2>1, <2>2
<1>7. ASSUME NEW t \in Task, Lookup(t) PROVE MemberInv(u)'
  <2>1. CASE t = u
    BY <1>a, <1>b, <1>c, <1>7, <2>1 DEF Lookup, Goto, redis, Absent
  <2>2. CASE t # u
    BY <1>a, <1>b, <1>c, <1>7, <2>2 DEF Lookup, Goto, redis
  <2>3. QED
    BY <2>1, <2>2
<1>8. ASSUME NEW t \in Task, NEW c \in Cleaner, Remove(t, c) PROVE MemberInv(u)'
  <2>1. CASE t = u
    <3>1. ~Unstopped(u)
      BY <1>b, <1>8, <2>1 DEF Remove
    <3>2. QED
      BY <1>a, <1>c, <1>8, <2>1, <3>1 DEF Remove, Goto, KnownItem, AfterRedis
  <2>2. CASE t # u
    BY <1>a, <1>b, <1>c, <1>8, <2>2 DEF Remove, Goto
  <2>3. QED
    BY <2>1, <2>2
<1>9. ASSUME NEW t \in Task, NEW c \in Cleaner, Count(t, c) \/ Forget(t, c) PROVE MemberInv(u)'
  BY <1>a, <1>b, <1>c, <1>9 DEF Count, Forget, Goto, AfterRedis, redis
<1>10. ASSUME NEW t \in Task, NEW c \in Cleaner, Drop(t, c) PROVE MemberInv(u)'
  <2>1. Unstopped(u) => KnownItem(t, c) # ItemOf[u]
    <3>1. CASE t = u
      BY <1>b, <1>c, <1>10, <3>1 DEF Drop
    <3>2. CASE t # u
      <4>1. MemberInv(t)
        OBVIOUS
      <4>2. QED
        BY <3>2, <4>1 DEF KnownItem
    <3>3. QED
      BY <3>1, <3>2
  <2>2. QED
    BY <1>a, <1>b, <1>c, <1>10, <2>1 DEF Drop, Goto, AfterRedis
<1>11. ASSUME NEW t \in Task, NEW c \in Cleaner, CleanFails(t, c) PROVE MemberInv(u)'
  BY <1>a, <1>b, <1>c, <1>11 DEF CleanFails, Goto, redis
<1>12. ASSUME NEW i \in Item, StopItemTasks(i) PROVE MemberInv(u)'
  BY <1>a, <1>b, <1>c, <1>12 DEF StopItemTasks, redis
<1>13. ASSUME NEW p \in Proc, Crash(p) PROVE MemberInv(u)'
  BY <1>a, <1>b, <1>c, <1>13 DEF Crash, redis
<1>14. ASSUME NEW p \in Proc, NEW t \in Task, Deliver(p, t) \/ Ignore(p, t) \/ LoseCommand(p, t)
       PROVE  MemberInv(u)'
  BY <1>a, <1>b, <1>c, <1>14 DEF Deliver, Ignore, LoseCommand, Cancel, redis
<1>15. CASE UNCHANGED vars
  BY <1>c, <1>15 DEF vars, redis
<1>16. QED
  BY <1>1, <1>2, <1>3, <1>4, <1>5, <1>6, <1>7, <1>8, <1>9, <1>10, <1>11, <1>12, <1>13, <1>14, <1>15
     DEF Next, CleanStep

\* "Remove the set key entirely if no tasks remain for this item": with one
\* task per chat or document at most, the deletion never costs a running task
\* its membership.  The run that refutes RunningIsActive therefore shows what
\* it takes: two tasks of one item.
THEOREM LoneTaskIsActive ==
    ASSUME \A t, u \in Task : ItemOf[t] = ItemOf[u] => t = u
    PROVE  Spec => []RunningIsActive
<1>1. Init => \A t \in Task : MemberInv(t)
  BY DEF Init, MemberInv, Unstopped, Cleaner
<1>2. TypeOK /\ (\A t \in Task : TaskInv(t)) /\ (\A t \in Task : MemberInv(t)) /\ [Next]_vars
        => (\A t \in Task : MemberInv(t))'
  BY MemberStep
<1>3. (\A t \in Task : MemberInv(t)) => RunningIsActive
  BY DEF MemberInv, RunningIsActive
<1>4. QED
  BY <1>1, <1>2, <1>3, TaskInvariant, PTL DEF Spec
=============================================================================
