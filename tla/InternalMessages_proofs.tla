------------------------ MODULE InternalMessages_proofs ------------------------
(***************************************************************************)
(* InternalMessages for every number of processes, delegations, messages   *)
(* and faults: its types, that no result is forgotten, and that a result   *)
(* is taken once where a row lock or a single process protects the chat.   *)
(***************************************************************************)
EXTENDS InternalMessages, FiniteSetTheorems, TLAPS

USE InternalMessagesAssumption DEF InternalMessagesAssumption

-----------------------------------------------------------------------------
(* Where calls and coroutines are *)

Open(d) == call[d].at \in {"insert", "saving", "await"}

\* An open delegate() call is made by one generation, which waits for it.
CallsInv ==
    /\ \A d \in Sub : Open(d) => Caller(d) \in Gen /\ At(Caller(d), "call")
    /\ \A c, d \in Sub : Open(c) /\ Open(d) /\ Caller(c) = Caller(d) => c = d
    /\ \A d \in Sub : call[d].at \in {"none", "insert"} => At(d, "idle")

\* A coroutine that is on its way has a process, one that is not has none.
PlacesInv ==
    \A k \in Task : task[k].proc \in Proc <=> task[k].at \notin {"idle", "over"}

Where == Answering \cup Pump \cup Put \cup {"idle", "work", "over"}

LEMMA Constructors ==
    /\ Idle \in Coroutines /\ Over \in Coroutines
    /\ NoResults \in Results /\ NoCall \in DelegateCalls
    /\ Idle.at = "idle" /\ Over.at = "over" /\ Idle.proc = NoProc /\ Over.proc = NoProc
    /\ Idle.batch = {} /\ Over.batch = {}
BY DEF Idle, Over, NoCall, NoResults, Results, Coroutines, DelegateCalls

LEMMA GoTyped ==
    ASSUME task \in [Task -> Coroutines], NEW k \in Task, NEW there \in Where, Go(k, there)
    PROVE  task' \in [Task -> Coroutines]
BY DEF Go, Where, Coroutines

LEMMA LeaveTyped ==
    ASSUME task \in [Task -> Coroutines], NEW k \in Task, Leave(k)
    PROVE  task' \in [Task -> Coroutines]
BY Zenon, Constructors DEF Leave

\* A coroutine that moves on, or reads the chat, stays one.
LEMMA CoroutineUpdates ==
    ASSUME NEW c \in Coroutines, NEW there \in Where, NEW copy \in Results
    PROVE  /\ [c EXCEPT !.seen = copy] \in Coroutines
           /\ [c EXCEPT !.at = there, !.seen = copy] \in Coroutines
           /\ \A batch \in SUBSET Sub :
                /\ [c EXCEPT !.at = there, !.batch = batch] \in Coroutines
                /\ [c EXCEPT !.at = there, !.seen = copy, !.batch = batch] \in Coroutines
           /\ \A p \in Proc : [c EXCEPT !.at = there, !.proc = p] \in Coroutines
BY Zenon DEF Coroutines, Where

LEMMA TaskTyped ==
    ASSUME task \in [Task -> Coroutines], NEW k, NEW c \in Coroutines, task' = [task EXCEPT ![k] = c]
    PROVE  task' \in [Task -> Coroutines]
OBVIOUS

LEMMA CallTyped ==
    ASSUME call \in [Sub -> DelegateCalls], NEW d \in Sub, NEW c \in {"saving", "await", "done"},
           call' = [call EXCEPT ![d].at = c]
    PROVE  call' \in [Sub -> DelegateCalls]
<1>1. [call[d] EXCEPT !.at = c] \in DelegateCalls
  BY DEF DelegateCalls
<1>2. call' = [call EXCEPT ![d] = [call[d] EXCEPT !.at = c]]
  OBVIOUS
<1>3. QED
  BY <1>1, <1>2

LEMMA SaveCopyTyped ==
    ASSUME TypeOK, NEW k \in Task, NEW there \in Where, SaveCopy(k, there)
    PROVE  /\ hist' \in Results
           /\ stale' \in 0..MaxFaults
           /\ clobbered' \subseteq Sub
           /\ task' \in [Task -> Coroutines]
<1>1. task[k] \in Coroutines /\ task[k].seen \in Results
  BY DEF TypeOK, Coroutines
<1>2. hist' = task[k].seen /\ clobbered' \subseteq Sub
  BY DEF SaveCopy, Overwrite, TypeOK
<1>3. stale' \in 0..MaxFaults
  BY DEF SaveCopy, TypeOK
<1>4. task' \in [Task -> Coroutines]
  BY <1>1, Constructors DEF SaveCopy, TypeOK, Coroutines, Where
<1>5. QED
  BY <1>1, <1>2, <1>3, <1>4

LEMMA FaultTyped == ASSUME TypeOK, Fault PROVE faults' \in 0..MaxFaults
BY DEF Fault, TypeOK

LEMMA ReleaseTyped ==
    ASSUME TypeOK, NEW d \in Sub, NEW p \in Proc, Release(d, p)
    PROVE  used' \in [Proc -> SUBSET Sub] /\ permits' \in [Proc -> Nat]
<1>1. CASE call[d].background
  BY <1>1 DEF Release, TypeOK
<1>2. CASE ~call[d].background
  <2>1. permits[p] + 1 \in Nat
    BY DEF TypeOK
  <2>2. permits' = [permits EXCEPT ![p] = permits[p] + 1] /\ used' = used
    BY <1>2 DEF Release
  <2>3. QED
    BY <2>1, <2>2 DEF TypeOK
<1>3. QED
  BY <1>1, <1>2

LEMMA TypeInit == Init => TypeOK
BY Constructors DEF Init, TypeOK

LEMMA TypeStep ==
    TypeOK /\ CallsInv /\ PlacesInv /\ [Next]_vars => TypeOK'
<1> SUFFICES ASSUME TypeOK, CallsInv, PlacesInv, [Next]_vars PROVE TypeOK'
  OBVIOUS
<1> USE Constructors DEF chatVars, slotVars
<1>1. CASE UNCHANGED vars
  BY <1>1 DEF vars, TypeOK
<1>2. ASSUME NEW p \in Proc, Turn(p) PROVE TypeOK'
  <2> DEFINE g == CHOOSE g \in Fresh : TRUE
  <2>1. g \in Task
    BY <1>2 DEF Turn, Fresh, Task
  <2>2. task' \in [Task -> Coroutines]
    <3> DEFINE new == [Idle EXCEPT !.at = "save", !.proc = p, !.seen = hist]
    <3>1. new \in Coroutines
      BY DEF TypeOK, Coroutines, Answering, Idle
    <3>2. task' = [task EXCEPT ![g] = new]
      BY <1>2 DEF Turn
    <3> HIDE DEF new
    <3>3. QED
      BY <3>1, <3>2, <2>1 DEF TypeOK
  <2>3. turns' \in 0..Len(Serves)
    BY <1>2 DEF Turn, TypeOK
  <2>4. QED
    BY <1>2, <2>2, <2>3 DEF Turn, TypeOK
<1>3. ASSUME NEW g \in Gen, Read(g) PROVE TypeOK'
  <2>1. g \in Task /\ task[g] \in Coroutines /\ hist \in Results /\ "run" \in Where
    BY DEF TypeOK, Task, Where, Answering
  <2>2. [task[g] EXCEPT !.seen = hist] \in Coroutines
    BY <2>1, CoroutineUpdates, Zenon
  <2>3. task' = [task EXCEPT ![g] = [task[g] EXCEPT !.seen = hist]]
    BY <1>3 DEF Read
  <2>4. task' \in [Task -> Coroutines]
    BY <2>2, <2>3, TaskTyped DEF TypeOK
  <2>5. QED
    BY Zenon, <1>3, <2>4 DEF Read, TypeOK
<1>4. ASSUME NEW g \in Gen, Save(g) PROVE TypeOK'
  <2>1. g \in Task /\ "start" \in Where
    BY DEF Task, Where, Answering
  <2>2. SaveCopy(g, "start")
    BY <1>4 DEF Save
  <2>3. QED
    BY <1>4, <2>1, <2>2, SaveCopyTyped DEF Save, TypeOK
<1>5. ASSUME NEW g \in Gen, FinalSave(g) PROVE TypeOK'
  <2>1. g \in Task /\ "cleanup" \in Where
    BY DEF Task, Where, Answering
  <2>2. SaveCopy(g, "cleanup")
    BY <1>5 DEF FinalSave
  <2>3. QED
    BY <1>5, <2>1, <2>2, SaveCopyTyped DEF FinalSave, TypeOK
<1>6. ASSUME NEW g \in Gen, Start(g) PROVE TypeOK'
  <2>1. g \in Task /\ task[g] \in Coroutines /\ hist \in Results /\ "run" \in Where
    BY DEF TypeOK, Task, Where, Answering
  <2>2. [task[g] EXCEPT !.at = "run", !.batch = {}] \in Coroutines
    BY <2>1, CoroutineUpdates, Zenon
  <2>3. task' = [task EXCEPT ![g] = [task[g] EXCEPT !.at = "run", !.batch = {}]]
    BY <1>6 DEF Start
  <2>4. task' \in [Task -> Coroutines]
    BY <2>2, <2>3, TaskTyped DEF TypeOK
  <2>5. QED
    BY Zenon, <1>6, <2>4 DEF Start, TypeOK
<1>7. ASSUME NEW g \in Gen, Stop(g) PROVE TypeOK'
  BY <1>7 DEF Stop, TypeOK
<1>8. ASSUME NEW g \in Gen, Finish(g) PROVE TypeOK'
  <2>1. g \in Task /\ task[g] \in Coroutines /\ hist \in Results /\ "final" \in Where
    BY Zenon DEF TypeOK, Task, Where, Answering
  <2>2. [task[g] EXCEPT !.at = "final", !.seen = hist] \in Coroutines
    BY <2>1, CoroutineUpdates, Zenon
  <2>3. task' = [task EXCEPT ![g] = [task[g] EXCEPT !.at = "final", !.seen = hist]]
    BY <1>8 DEF Finish
  <2>4. task' \in [Task -> Coroutines]
    BY <2>2, <2>3, TaskTyped DEF TypeOK
  <2>5. QED
    BY <1>8, <2>4 DEF Finish, TypeOK
<1>9. ASSUME NEW g \in Gen, Cleanup(g) PROVE TypeOK'
  BY <1>9, GoTyped DEF Cleanup, TypeOK, Task, Where, Answering
<1>10. ASSUME NEW g \in Gen, Check(g) PROVE TypeOK'
  BY <1>10, GoTyped, LeaveTyped DEF Check, TypeOK, Task, Where, Pump
<1>11. ASSUME NEW k \in Task, PumpWait(k) PROVE TypeOK'
  BY <1>11, GoTyped DEF PumpWait, TypeOK, Where, Pump
<1>12. ASSUME NEW k \in Task, PumpLock(k) PROVE TypeOK'
  BY <1>12, GoTyped, LeaveTyped DEF PumpLock, TypeOK, Where, Pump
<1>13. ASSUME NEW k \in Task, PumpSelect(k) PROVE TypeOK'
  <2>1. CASE Leave(k)
    BY <1>13, <2>1, LeaveTyped DEF PumpSelect, TypeOK
  <2>2. ASSUME NEW batch \in SUBSET Pending,
               task' = [task EXCEPT ![k] = [@ EXCEPT !.at = "commit", !.seen = hist, !.batch = batch]]
        PROVE  TypeOK'
    <3>1. task[k] \in Coroutines /\ hist \in Results /\ "commit" \in Where /\ batch \in SUBSET Sub
      BY DEF TypeOK, Where, Pump, Pending
    <3>2. [task[k] EXCEPT !.at = "commit", !.seen = hist, !.batch = batch] \in Coroutines
      BY <3>1, CoroutineUpdates, Zenon
    <3>3. task' \in [Task -> Coroutines]
      BY <2>2, <3>2, TaskTyped DEF TypeOK
    <3>4. UNCHANGED <<chatVars, active, slotVars, turns, faults>>
      BY <1>13 DEF PumpSelect
    <3>5. QED
      BY Zenon, <3>3, <3>4 DEF TypeOK
  <2>3. QED
    BY <1>13, <2>1, <2>2 DEF PumpSelect
<1>14. ASSUME NEW k \in Task, PumpCommit(k) PROVE TypeOK'
  <2> DEFINE batch == task[k].batch
             after == [d \in Sub |-> IF d \in batch THEN "taken" ELSE task[k].seen[d]]
             free == Fresh \cup (Gen \cap {k})
             answer == CHOOSE g \in free : TRUE
             new == [task[k] EXCEPT !.at = "save", !.seen = after]
  <2>1. answer \in Task
    BY <1>14 DEF PumpCommit, Fresh, Task
  <2>2. after \in Results
    BY DEF TypeOK, Coroutines, Results
  <2>3. new \in Coroutines
    <3> HIDE DEF after
    <3>1. QED
      BY <2>2 DEF TypeOK, Coroutines, Answering
  <2>4. hist' = after /\ clobbered' \subseteq Sub
    BY <1>14 DEF PumpCommit, Overwrite, TypeOK
  <2>5. task' \in [Task -> Coroutines]
    <3>1. task' = [task EXCEPT ![k] = IF k \in Gen THEN Idle ELSE Over, ![answer] = new]
      BY <1>14 DEF PumpCommit
    <3> HIDE DEF new, answer
    <3>2. QED
      BY <3>1, <2>1, <2>3 DEF TypeOK
  <2>6. takes' \in [Sub -> Nat]
    BY <1>14 DEF PumpCommit, TypeOK
  <2> HIDE DEF after
  <2>7. QED
    BY <1>14, <2>2, <2>4, <2>5, <2>6 DEF PumpCommit, TypeOK
<1>15. ASSUME NEW g \in Gen, NEW d \in Sub, Delegate(g, d) PROVE TypeOK'
  <2>1. task' \in [Task -> Coroutines]
    BY <1>15, GoTyped DEF Delegate, TypeOK, Task, Where, Answering
  <2>2. PICK background \in BOOLEAN :
          /\ IF background
             THEN used' = [used EXCEPT ![task[g].proc] = @ \cup {d}] /\ UNCHANGED permits
             ELSE /\ permits[task[g].proc] > 0
                  /\ permits' = [permits EXCEPT ![task[g].proc] = @ - 1]
                  /\ UNCHANGED used
          /\ call' = [call EXCEPT ![d] = [at |-> "insert", by |-> g, background |-> background]]
    BY <1>15 DEF Delegate
  <2>3. task[g].proc \in Proc
    BY <1>15 DEF Delegate, At, PlacesInv, Task
  <2>4. call' \in [Sub -> DelegateCalls]
    BY <2>2 DEF TypeOK, DelegateCalls
  <2>5. used' \in [Proc -> SUBSET Sub]
    <3>1. CASE background
      <4>1. used' = [used EXCEPT ![task[g].proc] = @ \cup {d}]
        BY <2>2, <3>1
      <4>2. QED
        BY <4>1 DEF TypeOK
    <3>2. CASE ~background
      BY <2>2, <3>2 DEF TypeOK
    <3>3. QED
      BY <3>1, <3>2
  <2>6. permits' \in [Proc -> Nat]
    <3>1. permits[task[g].proc] > 0 => permits[task[g].proc] - 1 \in Nat
      BY <2>3 DEF TypeOK
    <3>2. QED
      BY <2>2, <3>1 DEF TypeOK
  <2>7. QED
    BY <1>15, <2>1, <2>4, <2>5, <2>6 DEF Delegate, TypeOK
<1>16. ASSUME NEW d \in Sub, CallStep(d) PROVE TypeOK'
  <2>1. Caller(d) \in Gen
    BY <1>16 DEF CallStep, Insert, Saved, Return, CallsInv, Open
  <2>2. CASE Insert(d)
    <3>1. Caller(d) \in Task /\ task[Caller(d)].proc \in Proc
      BY <2>1, <2>2 DEF Insert, CallsInv, Open, At, PlacesInv, Task
    <3>2. d \in Task /\ task[d] \in Coroutines /\ "work" \in Where /\ hist \in Results
      BY DEF TypeOK, Task, Where
    <3>3. [task[d] EXCEPT !.at = "work", !.proc = task[Caller(d)].proc] \in Coroutines
      BY <3>1, <3>2, CoroutineUpdates, Zenon
    <3>4. task' \in [Task -> Coroutines]
      BY <2>2, <3>3, TaskTyped DEF Insert, TypeOK
    <3>5. call' \in [Sub -> DelegateCalls]
      BY <2>2, CallTyped DEF Insert, TypeOK
    <3>6. QED
      BY Zenon, <2>2, <3>4, <3>5 DEF Insert, TypeOK
  <2>3. CASE Saved(d)
    <3>1. task' \in [Task -> Coroutines]
      BY <2>1, <2>3, GoTyped DEF Saved, TypeOK, Task, Where, Answering
    <3>2. \/ call' = [call EXCEPT ![d].at = "done"]
          \/ call' = [call EXCEPT ![d].at = "await"]
      BY <2>3 DEF Saved
    <3>3. call' \in [Sub -> DelegateCalls]
      <4>1. CASE call' = [call EXCEPT ![d].at = "done"]
        BY <4>1, CallTyped DEF TypeOK
      <4>2. CASE call' = [call EXCEPT ![d].at = "await"]
        BY <4>2, CallTyped DEF TypeOK
      <4>3. QED
        BY <3>2, <4>1, <4>2
    <3>4. QED
      BY <2>3, <3>1, <3>3 DEF Saved, TypeOK
  <2>4. CASE Return(d)
    <3>1. task' \in [Task -> Coroutines]
      BY <2>1, <2>4, GoTyped DEF Return, TypeOK, Task, Where, Answering
    <3>2. call' \in [Sub -> DelegateCalls]
      BY <2>4, CallTyped DEF Return, TypeOK
    <3>3. QED
      BY <2>4, <3>1, <3>2 DEF Return, TypeOK
  <2>5. QED
    BY <1>16, <2>2, <2>3, <2>4 DEF CallStep
<1>17. ASSUME NEW d \in Sub, Worked(d) PROVE TypeOK'
  <2>1. task[d].proc \in Proc /\ d \in Task
    BY <1>17 DEF Worked, At, PlacesInv, Task
  <2>2. task' \in [Task -> Coroutines]
    BY <1>17, <2>1, GoTyped, LeaveTyped DEF Worked, TypeOK, Where, Put
  <2>3. QED
    BY <1>17, <2>1, <2>2, ReleaseTyped DEF Worked, TypeOK
<1>18. ASSUME NEW d \in Sub, PutSelect(d) PROVE TypeOK'
  BY <1>18 DEF PutSelect, TypeOK, Task, Coroutines, Put
<1>19. ASSUME NEW d \in Sub, PutCommit(d) PROVE TypeOK'
  <2> DEFINE new == [task[d].seen EXCEPT ![d] = "pending"]
  <2>1. new \in Results /\ d \in Task
    BY DEF TypeOK, Coroutines, Results, Task
  <2>2. hist' = new /\ clobbered' \subseteq Sub
    BY <1>19 DEF PutCommit, Overwrite, TypeOK
  <2>3. task' \in [Task -> Coroutines]
    <3>1. task[d] \in Coroutines /\ "told" \in Where
      BY <2>1 DEF TypeOK, Where, Put
    <3>2. [task[d] EXCEPT !.at = "told", !.seen = NoResults] \in Coroutines
      BY <3>1, CoroutineUpdates, Zenon
    <3>3. QED
      BY <1>19, <3>2, TaskTyped DEF PutCommit, TypeOK
  <2> HIDE DEF new
  <2>4. QED
    BY <1>19, <2>1, <2>2, <2>3 DEF PutCommit, TypeOK
<1>20. ASSUME NEW d \in Sub, PutCheck(d) PROVE TypeOK'
  BY <1>20, GoTyped, LeaveTyped DEF PutCheck, TypeOK, Task, Where, Pump
<1>21. ASSUME NEW d \in Sub, InsertFails(d) \/ SaveFails(d) PROVE TypeOK'
  <2>1. Caller(d) \in Gen /\ task[Caller(d)].proc \in Proc
    BY <1>21 DEF InsertFails, SaveFails, CallsInv, Open, At, PlacesInv, Task
  <2>2. /\ Release(d, task[Caller(d)].proc)
        /\ call' = [call EXCEPT ![d].at = "done"]
        /\ Go(Caller(d), "run")
        /\ Fault
        /\ UNCHANGED <<chatVars, active, turns>>
    BY <1>21 DEF InsertFails, SaveFails
  <2>3. task' \in [Task -> Coroutines]
    BY <2>1, <2>2, GoTyped DEF TypeOK, Task, Where, Answering
  <2>4. call' \in [Sub -> DelegateCalls]
    BY <2>2, CallTyped DEF TypeOK
  <2>5. QED
    BY <2>1, <2>2, <2>3, <2>4, ReleaseTyped, FaultTyped DEF TypeOK
<1>22. ASSUME NEW d \in Sub, InsertCancelled(d) PROVE TypeOK'
  <2>1. Caller(d) \in Gen
    BY <1>22 DEF InsertCancelled, CallsInv, Open
  <2>2. task' \in [Task -> Coroutines]
    <3>1. Caller(d) \in Task /\ task[Caller(d)] \in Coroutines /\ "final" \in Where /\ hist \in Results
      BY <2>1 DEF TypeOK, Task, Where, Answering
    <3>2. [task[Caller(d)] EXCEPT !.at = "final", !.seen = hist] \in Coroutines
      BY <3>1, CoroutineUpdates, Zenon
    <3>3. QED
      BY <1>22, <3>2, TaskTyped DEF InsertCancelled, TypeOK
  <2>3. call' \in [Sub -> DelegateCalls]
    BY <1>22, CallTyped DEF InsertCancelled, TypeOK
  <2>4. QED
    BY <1>22, <2>2, <2>3, FaultTyped DEF InsertCancelled, TypeOK
<1>23. ASSUME NEW k \in Task, Dies(k) PROVE TypeOK'
  BY <1>23, LeaveTyped, FaultTyped DEF Dies, TypeOK
<1>24. ASSUME NEW p \in Proc, Crash(p) PROVE TypeOK'
  <2>1. task' \in [Task -> Coroutines]
    BY <1>24 DEF Crash, TypeOK
  <2>2. call' \in [Sub -> DelegateCalls]
    <3>1. \A d \in Sub : call[d] \in DelegateCalls /\ [call[d] EXCEPT !.at = "done"] \in DelegateCalls
      BY DEF TypeOK, DelegateCalls
    <3>2. QED
      BY <1>24, <3>1, Constructors DEF Crash
  <2>3. QED
    BY <1>24, <2>1, <2>2, FaultTyped DEF Crash, TypeOK
<1>25. QED
  BY <1>1, <1>2, <1>3, <1>4, <1>5, <1>6, <1>7, <1>8, <1>9, <1>10, <1>11, <1>12, <1>13, <1>14,
     <1>15, <1>16, <1>17, <1>18, <1>19, <1>20, <1>21, <1>22, <1>23, <1>24
     DEF Next, GenStep, PumpStep, PutStep

-----------------------------------------------------------------------------
(* The step of CallsInv and PlacesInv *)

LEMMA PlacesUpdate ==
    ASSUME TypeOK, PlacesInv, NEW k \in Task, NEW new \in Coroutines,
           new.proc \in Proc <=> new.at \notin {"idle", "over"},
           task' = [task EXCEPT ![k] = new]
    PROVE  PlacesInv'
BY DEF PlacesInv, TypeOK

LEMMA PlacesGo ==
    ASSUME TypeOK, PlacesInv, NEW k \in Task, task[k].at \notin {"idle", "over"},
           NEW there \in Where \ {"idle", "over"}, Go(k, there)
    PROVE  PlacesInv'
BY DEF PlacesInv, TypeOK, Go, Coroutines

LEMMA PlacesLeave ==
    ASSUME TypeOK, PlacesInv, NEW k \in Task, Leave(k)
    PROVE  PlacesInv'
BY Constructors DEF PlacesInv, TypeOK, Leave

\* A step that opens, moves and closes no call keeps callers and callees in place.
LEMMA CallsQuiet ==
    ASSUME CallsInv, UNCHANGED call,
           \A g \in Gen : At(g, "call") => At(g, "call")',
           \A d \in Sub : At(d, "idle") => At(d, "idle")'
    PROVE  CallsInv'
<1>1. \A d \in Sub : call'[d] = call[d] /\ Caller(d)' = Caller(d) /\ Open(d)' = Open(d)
  BY DEF Open, Caller
<1>2. QED
  BY <1>1 DEF CallsInv

LEMMA CallsGo ==
    ASSUME TypeOK, CallsInv, UNCHANGED call, NEW k \in Task,
           task[k].at \notin {"idle", "call"}, NEW new, task' = [task EXCEPT ![k] = new]
    PROVE  CallsInv'
<1>1. \A g \in Gen : At(g, "call") => At(g, "call")'
  BY DEF TypeOK, At, Task
<1>2. \A d \in Sub : At(d, "idle") => At(d, "idle")'
  BY DEF TypeOK, At, Task
<1>3. QED
  BY <1>1, <1>2, CallsQuiet

\* A call that ends sends its caller on.
LEMMA CallsEnd ==
    ASSUME TypeOK, CallsInv, NEW d \in Sub, Open(d), NEW new,
           call' = [call EXCEPT ![d].at = "done"],
           task' = [task EXCEPT ![Caller(d)] = new]
    PROVE  CallsInv'
<1>1. Caller(d) \in Gen /\ Caller(d) \in Task
  BY DEF CallsInv, Task
<1>2. ~Open(d)' /\ \A c \in Sub : Caller(c)' = Caller(c)
  BY DEF TypeOK, Open, Caller, DelegateCalls
<1>3. \A c \in Sub \ {d} : call'[c] = call[c] /\ Open(c)' = Open(c)
  BY DEF TypeOK, Open
<1>4. \A c \in Sub \ {d} : Open(c) => Caller(c) # Caller(d)
  BY DEF CallsInv
<1>5. \A c \in Sub : Open(c)' => Caller(c)' \in Gen /\ At(Caller(c), "call")'
  <2> SUFFICES ASSUME NEW c \in Sub, Open(c)'
               PROVE  Caller(c) \in Gen /\ task'[Caller(c)].at = "call"
    BY <1>2 DEF At
  <2>1. c # d /\ Open(c)
    BY <1>2, <1>3
  <2>2. Caller(c) \in Gen /\ At(Caller(c), "call") /\ Caller(c) # Caller(d)
    BY <2>1, <1>4 DEF CallsInv
  <2>3. QED
    BY <2>2 DEF TypeOK, At, Task
<1>6. \A b, c \in Sub : Open(b)' /\ Open(c)' /\ Caller(b)' = Caller(c)' => b = c
  BY <1>2, <1>3 DEF CallsInv
<1>7. \A c \in Sub : call'[c].at \in {"none", "insert"} => At(c, "idle")'
  <2> SUFFICES ASSUME NEW c \in Sub, call'[c].at \in {"none", "insert"} PROVE At(c, "idle")'
    OBVIOUS
  <2>1. c # d /\ call[c].at \in {"none", "insert"}
    BY <1>2, <1>3 DEF TypeOK, DelegateCalls
  <2>2. At(c, "idle") /\ c \in Task /\ c # Caller(d)
    BY <2>1, <1>1 DEF CallsInv, Task
  <2>3. QED
    BY <2>2 DEF TypeOK, At
<1>8. QED
  BY <1>5, <1>6, <1>7 DEF CallsInv

LEMMA CallsPlacesStep ==
    TypeOK /\ CallsInv /\ PlacesInv /\ [Next]_vars => CallsInv' /\ PlacesInv'
<1> SUFFICES ASSUME TypeOK, CallsInv, PlacesInv, [Next]_vars PROVE CallsInv' /\ PlacesInv'
  OBVIOUS
<1> USE Constructors DEF slotVars
\* A coroutine moves on and no call is touched.
<1>1. ASSUME NEW k \in Task, UNCHANGED call, task[k].at \notin {"idle", "over", "call"},
             NEW there \in Where \ {"idle", "over"}, Go(k, there)
      PROVE  CallsInv' /\ PlacesInv'
  <2>1. task' = [task EXCEPT ![k] = [task[k] EXCEPT !.at = there]]
    BY <1>1 DEF Go, TypeOK
  <2>2. QED
    BY <1>1, <2>1, CallsGo, PlacesGo
<1>2. ASSUME NEW k \in Task, UNCHANGED call, task[k].at \notin {"idle", "call"}, Leave(k)
      PROVE  CallsInv' /\ PlacesInv'
  <2>1. task' = [task EXCEPT ![k] = IF k \in Gen THEN Idle ELSE Over]
    BY <1>2 DEF Leave
  <2>2. QED
    BY <1>2, <2>1, CallsGo, PlacesLeave
<1>3. ASSUME NEW k \in Task, UNCHANGED call, task[k].at \notin {"idle", "over", "call"},
             NEW new \in Coroutines, new.proc = task[k].proc, new.at \notin {"idle", "over"},
             task' = [task EXCEPT ![k] = new]
      PROVE  CallsInv' /\ PlacesInv'
  BY <1>3, CallsGo, PlacesUpdate DEF PlacesInv
<1>4. CASE UNCHANGED vars
  <2>1. task' = task /\ call' = call
    BY <1>4 DEF vars
  <2>2. QED
    BY <2>1, CallsQuiet DEF PlacesInv, At
<1>5. ASSUME NEW p \in Proc, Turn(p) PROVE CallsInv' /\ PlacesInv'
  <2> DEFINE g == CHOOSE g \in Fresh : TRUE
             new == [Idle EXCEPT !.at = "save", !.proc = p, !.seen = hist]
  <2>1. g \in Gen /\ g \in Task /\ At(g, "idle") /\ g \notin Sub
    BY <1>5 DEF Turn, Fresh, Task
  <2>2. new \in Coroutines /\ new.proc = p /\ new.at = "save"
    BY DEF TypeOK, Coroutines, Answering, Idle
  <2>3. task' = [task EXCEPT ![g] = new] /\ UNCHANGED call
    BY <1>5 DEF Turn
  <2> HIDE DEF g, new
  <2>4. PlacesInv'
    BY <2>1, <2>2, <2>3, PlacesUpdate
  <2>5. CallsInv'
    <3>1. \A h \in Gen : At(h, "call") => At(h, "call")'
      BY <2>1, <2>3 DEF At, TypeOK, Task
    <3>2. \A d \in Sub : At(d, "idle") => At(d, "idle")'
      BY <2>1, <2>3 DEF At, TypeOK, Task
    <3>3. QED
      BY <2>3, <3>1, <3>2, CallsQuiet
  <2>6. QED
    BY <2>4, <2>5
<1>6. ASSUME NEW g \in Gen, Read(g) PROVE CallsInv' /\ PlacesInv'
  <2>1. task' = [task EXCEPT ![g] = [task[g] EXCEPT !.seen = hist]]
    BY <1>6 DEF Read, TypeOK
  <2>2. [task[g] EXCEPT !.seen = hist] \in Coroutines /\ g \in Task
    BY DEF TypeOK, Coroutines, Task
  <2>3. QED
    BY <1>3, <1>6, <2>1, <2>2 DEF Read, TypeOK, Coroutines
<1>7. ASSUME NEW g \in Gen, Save(g) \/ FinalSave(g) PROVE CallsInv' /\ PlacesInv'
  <2>1. PICK there \in {"start", "cleanup"} :
          task' = [task EXCEPT ![g] = [task[g] EXCEPT !.at = there, !.seen = NoResults]]
    BY <1>7 DEF Save, FinalSave, SaveCopy
  <2> DEFINE new == [task[g] EXCEPT !.at = there, !.seen = NoResults]
  <2>2. new \in Coroutines /\ g \in Task /\ new.proc = task[g].proc /\ new.at = there
    BY DEF TypeOK, Coroutines, Task, Answering
  <2> HIDE DEF new
  <2>3. task[g].at \in {"save", "final"} /\ UNCHANGED call
    BY <1>7 DEF Save, FinalSave, At
  <2>4. QED
    BY <1>3, <2>1, <2>2, <2>3 DEF new
<1>8. ASSUME NEW g \in Gen, Start(g) PROVE CallsInv' /\ PlacesInv'
  <2> DEFINE new == [task[g] EXCEPT !.at = "run", !.batch = {}]
  <2>1. new \in Coroutines /\ g \in Task /\ new.proc = task[g].proc /\ new.at = "run"
    BY DEF TypeOK, Coroutines, Task, Answering
  <2>2. task' = [task EXCEPT ![g] = new] /\ task[g].at = "start" /\ UNCHANGED call
    BY <1>8 DEF Start, At
  <2> HIDE DEF new
  <2>3. QED
    BY <1>3, <2>1, <2>2
<1>9. ASSUME NEW g \in Gen, Stop(g) PROVE CallsInv' /\ PlacesInv'
  BY <1>9, CallsQuiet DEF Stop, PlacesInv, At
<1>10. ASSUME NEW g \in Gen, Finish(g) PROVE CallsInv' /\ PlacesInv'
  <2> DEFINE new == [task[g] EXCEPT !.at = "final", !.seen = hist]
  <2>1. new \in Coroutines /\ g \in Task /\ new.proc = task[g].proc /\ new.at = "final"
    BY DEF TypeOK, Coroutines, Task, Answering
  <2>2. task' = [task EXCEPT ![g] = new] /\ task[g].at = "run" /\ UNCHANGED call
    BY <1>10 DEF Finish, At
  <2> HIDE DEF new
  <2>3. QED
    BY <1>3, <2>1, <2>2
<1>11. ASSUME NEW g \in Gen, Cleanup(g) \/ Check(g) PROVE CallsInv' /\ PlacesInv'
  BY <1>11, <1>1, <1>2 DEF Cleanup, Check, At, Task, Where, Answering, Pump
<1>12. ASSUME NEW k \in Task, PumpWait(k) \/ PumpLock(k) PROVE CallsInv' /\ PlacesInv'
  BY <1>12, <1>1, <1>2 DEF PumpWait, PumpLock, At, Where, Pump
<1>13. ASSUME NEW k \in Task, PumpSelect(k) PROVE CallsInv' /\ PlacesInv'
  <2>1. CASE Leave(k)
    BY <1>13, <1>2, <2>1 DEF PumpSelect, At
  <2>2. ASSUME NEW batch \in SUBSET Pending,
               task' = [task EXCEPT ![k] = [@ EXCEPT !.at = "commit", !.seen = hist, !.batch = batch]]
        PROVE  CallsInv' /\ PlacesInv'
    <3> DEFINE new == [task[k] EXCEPT !.at = "commit", !.seen = hist, !.batch = batch]
    <3>1. new \in Coroutines /\ new.proc = task[k].proc /\ new.at = "commit"
      BY DEF TypeOK, Coroutines, Pump, Pending
    <3>2. task' = [task EXCEPT ![k] = new] /\ task[k].at = "select" /\ UNCHANGED call
      BY <1>13, <2>2 DEF PumpSelect, At
    <3> HIDE DEF new
    <3>3. QED
      BY <1>3, <3>1, <3>2
  <2>3. QED
    BY <1>13, <2>1, <2>2 DEF PumpSelect
<1>14. ASSUME NEW k \in Task, PumpCommit(k) PROVE CallsInv' /\ PlacesInv'
  <2> DEFINE batch == task[k].batch
             after == [d \in Sub |-> IF d \in batch THEN "taken" ELSE task[k].seen[d]]
             free == Fresh \cup (Gen \cap {k})
             answer == CHOOSE g \in free : TRUE
             new == [task[k] EXCEPT !.at = "save", !.seen = after]
             rest == IF k \in Gen THEN Idle ELSE Over
  <2>1. /\ answer \in Gen /\ answer \in Task /\ answer \notin Sub
        /\ At(answer, "idle") \/ answer = k
    BY <1>14 DEF PumpCommit, Fresh, Task
  <2>2. after \in Results
    BY DEF TypeOK, Coroutines, Results
  <2>3. new \in Coroutines /\ new.proc = task[k].proc /\ new.at = "save"
    <3> HIDE DEF after
    <3>1. QED
      BY <2>2 DEF TypeOK, Coroutines, Answering
  <2>4. /\ rest \in Coroutines /\ rest.at \in {"idle", "over"} /\ rest.proc \notin Proc
        /\ task' = [task EXCEPT ![k] = rest, ![answer] = new]
        /\ task[k].at = "commit" /\ UNCHANGED call
    BY <1>14 DEF PumpCommit, At
  <2> HIDE DEF new, answer, rest, free, after
  <2>5. /\ \A j \in Task \ {k, answer} : task'[j] = task[j]
        /\ task'[answer] = new
        /\ k # answer => task'[k] = rest
    BY <2>1, <2>4 DEF TypeOK
  <2>6. PlacesInv'
    <3>1. ASSUME NEW j \in Task
          PROVE  task'[j].proc \in Proc <=> task'[j].at \notin {"idle", "over"}
      <4>1. CASE j = answer
        BY <2>3, <2>4, <2>5, <4>1 DEF PlacesInv
      <4>2. CASE j = k /\ j # answer
        BY <2>4, <2>5, <4>2
      <4>3. CASE j \in Task \ {k, answer}
        BY <2>5, <4>3 DEF PlacesInv
      <4>4. QED
        BY <4>1, <4>2, <4>3
    <3>2. QED
      BY <3>1 DEF PlacesInv
  <2>7. CallsInv'
    <3>1. \A h \in Gen : At(h, "call") => At(h, "call")'
      BY <2>1, <2>4, <2>5 DEF At, Task
    <3>2. \A d \in Sub : At(d, "idle") => At(d, "idle")'
      BY <2>1, <2>4, <2>5 DEF At, Task
    <3>3. QED
      BY <2>4, <3>1, <3>2, CallsQuiet
  <2>8. QED
    BY <2>6, <2>7
<1>15. ASSUME NEW g \in Gen, NEW d \in Sub, Delegate(g, d) PROVE CallsInv' /\ PlacesInv'
  <2>1. PICK background \in BOOLEAN :
          call' = [call EXCEPT ![d] = [at |-> "insert", by |-> g, background |-> background]]
    BY <1>15 DEF Delegate
  <2>2. /\ call[d].at = "none" /\ At(g, "run") /\ g \in Task /\ d \in Task /\ g # d
        /\ task' = [task EXCEPT ![g].at = "call"]
    BY <1>15 DEF Delegate, Go, Task
  <2>3. PlacesInv'
    BY <1>15, <2>2, PlacesGo DEF Delegate, At, Where, Answering
  <2>4. /\ Caller(d)' = g /\ call'[d].at = "insert"
        /\ \A c \in Sub \ {d} : call'[c] = call[c] /\ Open(c)' = Open(c) /\ Caller(c)' = Caller(c)
    BY <2>1 DEF TypeOK, Open, Caller
  <2>5. /\ At(g, "call")'
        /\ \A k \in Task \ {g} : task'[k] = task[k]
    BY <2>2 DEF TypeOK, At, Coroutines
  <2>6. \A c \in Sub \ {d} : Open(c) => Caller(c) \in Gen \ {g} /\ At(Caller(c), "call")'
    <3> SUFFICES ASSUME NEW c \in Sub \ {d}, Open(c)
                 PROVE  Caller(c) \in Gen \ {g} /\ task'[Caller(c)].at = "call"
      BY <2>4 DEF At
    <3>1. Caller(c) \in Gen /\ task[Caller(c)].at = "call"
      BY DEF CallsInv, At
    <3>2. Caller(c) # g
      BY <2>2, <3>1 DEF At
    <3>3. QED
      BY <2>5, <3>1, <3>2 DEF Task
  <2>7. \A c \in Sub : call[c].at \in {"none", "insert"} => At(c, "idle")'
    BY <2>2, <2>5 DEF CallsInv, At, Task
  <2>8. \A c \in Sub : Open(c)' => Caller(c)' \in Gen /\ At(Caller(c), "call")'
    <3> SUFFICES ASSUME NEW c \in Sub, Open(c)'
                 PROVE  Caller(c)' \in Gen /\ At(Caller(c), "call")'
      OBVIOUS
    <3>1. CASE c = d
      BY <3>1, <2>4, <2>5 DEF At
    <3>2. CASE c # d
      BY <3>2, <2>4, <2>6 DEF At
    <3>3. QED
      BY <3>1, <3>2
  <2>9. \A b, c \in Sub : Open(b)' /\ Open(c)' /\ Caller(b)' = Caller(c)' => b = c
    <3> SUFFICES ASSUME NEW b \in Sub, NEW c \in Sub, Open(b)', Open(c)', Caller(b)' = Caller(c)'
                 PROVE  b = c
      OBVIOUS
    <3>1. CASE b = d \/ c = d
      BY <3>1, <2>4, <2>6
    <3>2. CASE b # d /\ c # d
      BY <3>2, <2>4 DEF CallsInv
    <3>3. QED
      BY <3>1, <3>2
  <2>10. \A c \in Sub : call'[c].at \in {"none", "insert"} => At(c, "idle")'
    BY <2>2, <2>4, <2>7
  <2>11. QED
    BY <2>3, <2>8, <2>9, <2>10 DEF CallsInv
<1>16. ASSUME NEW d \in Sub, Insert(d) PROVE CallsInv' /\ PlacesInv'
  <2> DEFINE g == Caller(d)
             new == [task[d] EXCEPT !.at = "work", !.proc = task[g].proc]
  <2>1. /\ Open(d) /\ g \in Gen /\ At(g, "call") /\ g \in Task /\ d \in Task /\ g # d
        /\ task[g].proc \in Proc
    BY <1>16 DEF Insert, Open, CallsInv, PlacesInv, Task, At
  <2>2. new \in Coroutines /\ new.proc = task[g].proc /\ new.at = "work"
    BY <2>1 DEF TypeOK, Coroutines
  <2>3. /\ task' = [task EXCEPT ![d] = new]
        /\ call' = [call EXCEPT ![d].at = "saving"]
    BY <1>16 DEF Insert
  <2> HIDE DEF new
  <2>4. PlacesInv'
    BY <2>1, <2>2, <2>3, PlacesUpdate
  <2>5. /\ \A c \in Sub : Caller(c)' = Caller(c) /\ Open(c)' = Open(c)
        /\ call'[d].at = "saving" /\ \A c \in Sub \ {d} : call'[c] = call[c]
        /\ \A k \in Task \ {d} : task'[k] = task[k]
    BY <2>1, <2>3 DEF TypeOK, DelegateCalls, Open, Caller
  <2>6. \A c \in Sub : Open(c) => Caller(c) \in Gen /\ At(Caller(c), "call")'
    BY <2>1, <2>5 DEF CallsInv, At, Task
  <2>7. \A c \in Sub : call'[c].at \in {"none", "insert"} => At(c, "idle")'
    BY <2>5 DEF CallsInv, At, Task
  <2>8. QED
    BY <2>4, <2>5, <2>6, <2>7 DEF CallsInv, At
<1>17. ASSUME NEW d \in Sub, Open(d), call' = [call EXCEPT ![d].at = "done"], Go(Caller(d), "run")
       PROVE  CallsInv' /\ PlacesInv'
  <2>1. Caller(d) \in Task /\ At(Caller(d), "call")
    BY <1>17 DEF CallsInv, Task
  <2>2. task' = [task EXCEPT ![Caller(d)] = [task[Caller(d)] EXCEPT !.at = "run"]]
    BY <1>17, <2>1 DEF Go, TypeOK
  <2>3. QED
    BY <1>17, <2>1, <2>2, CallsEnd, PlacesGo DEF At, Where, Answering
<1>18. ASSUME NEW d \in Sub, Saved(d) PROVE CallsInv' /\ PlacesInv'
  <2>1. Open(d)
    BY <1>18 DEF Saved, Open
  <2>2. CASE call' = [call EXCEPT ![d].at = "done"] /\ Go(Caller(d), "run")
    BY <1>17, <2>1, <2>2
  <2>3. CASE call' = [call EXCEPT ![d].at = "await"] /\ UNCHANGED task
    <3>1. /\ \A c \in Sub : Caller(c)' = Caller(c) /\ Open(c)' = Open(c) /\ At(c, "idle")' = At(c, "idle")
          /\ call'[d].at = "await" /\ \A c \in Sub \ {d} : call'[c] = call[c]
      BY <2>1, <2>3 DEF TypeOK, DelegateCalls, Open, Caller, At
    <3>2. \A c \in Sub : Open(c) => At(Caller(c), "call")'
      BY <2>3, <3>1 DEF CallsInv, At
    <3>3. CallsInv'
      BY <3>1, <3>2 DEF CallsInv
    <3>4. PlacesInv'
      BY <2>3 DEF PlacesInv
    <3>5. QED
      BY <3>3, <3>4
  <2>4. QED
    BY <1>18, <2>2, <2>3 DEF Saved
<1>19. ASSUME NEW d \in Sub, Return(d) PROVE CallsInv' /\ PlacesInv'
  BY <1>17, <1>19 DEF Return, Open
<1>20. ASSUME NEW d \in Sub, Worked(d) PROVE CallsInv' /\ PlacesInv'
  BY <1>20, <1>1, <1>2 DEF Worked, At, Task, Where, Put
<1>21. ASSUME NEW d \in Sub, PutSelect(d) \/ PutCommit(d) PROVE CallsInv' /\ PlacesInv'
  <2>1. PICK there \in {"write", "told"}, seen \in Results :
          task' = [task EXCEPT ![d] = [task[d] EXCEPT !.at = there, !.seen = seen]]
    BY <1>21 DEF PutSelect, PutCommit, TypeOK
  <2> DEFINE new == [task[d] EXCEPT !.at = there, !.seen = seen]
  <2>2. new \in Coroutines /\ d \in Task /\ new.proc = task[d].proc /\ new.at = there
    BY DEF TypeOK, Coroutines, Task, Put
  <2> HIDE DEF new
  <2>3. task[d].at \in {"put", "write"} /\ UNCHANGED call
    BY <1>21 DEF PutSelect, PutCommit, At
  <2>4. QED
    BY <1>3, <2>1, <2>2, <2>3 DEF new
<1>22. ASSUME NEW d \in Sub, PutCheck(d) PROVE CallsInv' /\ PlacesInv'
  BY <1>22, <1>1, <1>2 DEF PutCheck, At, Task, Where, Pump
<1>23. ASSUME NEW d \in Sub, InsertFails(d) \/ SaveFails(d) PROVE CallsInv' /\ PlacesInv'
  BY <1>17, <1>23 DEF InsertFails, SaveFails, Open
<1>24. ASSUME NEW d \in Sub, InsertCancelled(d) PROVE CallsInv' /\ PlacesInv'
  <2> DEFINE g == Caller(d)
             new == [task[g] EXCEPT !.at = "final", !.seen = hist]
  <2>1. Open(d) /\ g \in Task /\ At(g, "call")
    BY <1>24 DEF InsertCancelled, Open, CallsInv, Task
  <2>2. new \in Coroutines /\ new.proc = task[g].proc /\ new.at = "final"
    BY <2>1 DEF TypeOK, Coroutines, Answering
  <2>3. task' = [task EXCEPT ![g] = new] /\ call' = [call EXCEPT ![d].at = "done"]
    BY <1>24 DEF InsertCancelled
  <2> HIDE DEF new
  <2>4. CallsInv'
    BY <2>1, <2>3, CallsEnd
  <2>5. PlacesInv'
    BY <2>1, <2>2, <2>3, PlacesUpdate DEF PlacesInv, At
  <2>6. QED
    BY <2>4, <2>5
<1>25. ASSUME NEW k \in Task, Dies(k) PROVE CallsInv' /\ PlacesInv'
  <2>1. task[k].at \notin {"idle", "call"} /\ UNCHANGED call /\ Leave(k)
    BY <1>25 DEF Dies, Pump, Put
  <2>2. QED
    BY <1>2, <2>1
<1>26. ASSUME NEW p \in Proc, Crash(p) PROVE CallsInv' /\ PlacesInv'
  <2>1. \A k \in Task : task'[k] = IF task[k].proc # p THEN task[k]
                                   ELSE IF k \in Gen THEN Idle ELSE Over
    BY <1>26 DEF Crash
  <2>2. PlacesInv'
    BY <2>1 DEF PlacesInv
  <2>3. \A d \in Sub : \/ call'[d] = call[d] /\ (Open(d) => task[Caller(d)].proc # p)
                       \/ call'[d].at = "done" /\ call'[d].by = call[d].by
    <3> SUFFICES ASSUME NEW d \in Sub
                 PROVE  \/ call'[d] = call[d] /\ (Open(d) => task[Caller(d)].proc # p)
                        \/ call'[d].at = "done" /\ call'[d].by = call[d].by
      OBVIOUS
    <3>1. call[d] \in DelegateCalls
      BY DEF TypeOK
    <3>2. call'[d] = IF call[d].at # "none" /\ call[d].at # "done" /\ task[Caller(d)].proc = p
                     THEN [call[d] EXCEPT !.at = "done"] ELSE call[d]
      BY <1>26 DEF Crash
    <3>3. QED
      BY <3>1, <3>2 DEF Open, DelegateCalls
  <2>4. \A d \in Sub : Caller(d)' = Caller(d) /\ (Open(d)' => Open(d) /\ task[Caller(d)].proc # p)
    BY <2>3 DEF Caller, Open
  <2>5. \A d \in Sub : call'[d].at \in {"none", "insert"} => call'[d] = call[d]
    BY <2>3
  <2>6. \A d \in Sub : Open(d)' => Caller(d)' \in Gen /\ At(Caller(d), "call")'
    <3> SUFFICES ASSUME NEW d \in Sub, Open(d)'
                 PROVE  Caller(d) \in Gen /\ task'[Caller(d)].at = "call"
      BY <2>4 DEF At
    <3>1. Caller(d) \in Gen /\ task[Caller(d)].at = "call" /\ task[Caller(d)].proc # p
      BY <2>4 DEF CallsInv, At
    <3>2. QED
      BY <2>1, <3>1 DEF Task
  <2>7. \A d \in Sub : At(d, "idle") => At(d, "idle")'
    BY <2>1 DEF At, Task, PlacesInv
  <2>8. QED
    BY <2>2, <2>4, <2>5, <2>6, <2>7 DEF CallsInv
<1>27. QED
  BY <1>4, <1>5, <1>6, <1>7, <1>8, <1>9, <1>10, <1>11, <1>12, <1>13, <1>14, <1>15, <1>16, <1>18,
     <1>19, <1>20, <1>21, <1>22, <1>23, <1>24, <1>25, <1>26
     DEF Next, GenStep, PumpStep, PutStep, CallStep

-----------------------------------------------------------------------------
(* The lock of a process and the row lock have one holder each *)

HoldsAs(c) == \/ c.at \in {"select", "commit", "write"}
              \/ c.at \in {"save", "start"} /\ c.batch # {}
InTransaction(c) == c.at \in {"commit", "write"}

LocksInv ==
    /\ \A j, k \in Task :
         HoldsAs(task[j]) /\ HoldsAs(task[k]) /\ task[j].proc = task[k].proc => j = k
    /\ RowLocks => \A j, k \in Task :
                     InTransaction(task[j]) /\ InTransaction(task[k]) => j = k

\* A coroutine moves on and takes no lock.
LEMMA LocksOne ==
    ASSUME TypeOK, LocksInv, NEW k \in Task, NEW new, task' = [task EXCEPT ![k] = new],
           HoldsAs(new) => HoldsAs(task[k]) /\ new.proc = task[k].proc,
           InTransaction(new) => InTransaction(task[k])
    PROVE  LocksInv'
<1>1. \A j \in Task : task'[j] = IF j = k THEN new ELSE task[j]
  BY DEF TypeOK
<1>2. \A j \in Task : HoldsAs(task'[j]) => HoldsAs(task[j]) /\ task'[j].proc = task[j].proc
  BY <1>1
<1>3. \A j \in Task : InTransaction(task'[j]) => InTransaction(task[j])
  BY <1>1
<1>4. \A i, j \in Task :
        HoldsAs(task'[i]) /\ HoldsAs(task'[j]) /\ task'[i].proc = task'[j].proc => i = j
  BY <1>2 DEF LocksInv
<1>5. RowLocks => \A i, j \in Task :
                    InTransaction(task'[i]) /\ InTransaction(task'[j]) => i = j
  BY <1>3 DEF LocksInv
<1>6. QED
  BY <1>4, <1>5 DEF LocksInv, HoldsAs, InTransaction

LEMMA LocksGo ==
    ASSUME TypeOK, LocksInv, NEW k \in Task, NEW there, Go(k, there),
           there \notin {"select", "commit", "write", "save", "start"}
    PROVE  LocksInv'
<1> DEFINE new == [task[k] EXCEPT !.at = there]
<1>1. task' = [task EXCEPT ![k] = new]
  BY DEF Go, TypeOK
<1>2. new.at = there
  BY DEF TypeOK, Coroutines
<1> HIDE DEF new
<1>3. QED
  BY <1>1, <1>2, LocksOne DEF HoldsAs, InTransaction

LEMMA LocksLeave ==
    ASSUME TypeOK, LocksInv, NEW k \in Task, Leave(k)
    PROVE  LocksInv'
<1> DEFINE new == IF k \in Gen THEN Idle ELSE Over
<1>1. task' = [task EXCEPT ![k] = new]
  BY DEF Leave
<1>2. new.at \in {"idle", "over"}
  BY Constructors
<1> HIDE DEF new
<1>3. QED
  BY <1>1, <1>2, LocksOne DEF HoldsAs, InTransaction

LEMMA LocksStep ==
    TypeOK /\ LocksInv /\ CallsInv /\ [Next]_vars => LocksInv'
<1> SUFFICES ASSUME TypeOK, LocksInv, CallsInv, [Next]_vars PROVE LocksInv'
  OBVIOUS
<1>1. ASSUME UNCHANGED task PROVE LocksInv'
  BY <1>1 DEF LocksInv
<1>2. ASSUME NEW p \in Proc, Turn(p) PROVE LocksInv'
  <2> DEFINE g == CHOOSE g \in Fresh : TRUE
             new == [Idle EXCEPT !.at = "save", !.proc = p, !.seen = hist]
  <2>1. g \in Task /\ task' = [task EXCEPT ![g] = new]
    BY <1>2 DEF Turn, Fresh, Task
  <2>2. new.at = "save" /\ new.batch = {}
    BY DEF Idle
  <2> HIDE DEF g, new
  <2>3. QED
    BY <2>1, <2>2, LocksOne DEF HoldsAs, InTransaction
<1>3. ASSUME NEW g \in Gen, Read(g) PROVE LocksInv'
  <2> DEFINE new == [task[g] EXCEPT !.seen = hist]
  <2>1. /\ g \in Task /\ task' = [task EXCEPT ![g] = new]
        /\ new.at = task[g].at /\ new.batch = task[g].batch /\ new.proc = task[g].proc
    BY <1>3 DEF Read, Task, TypeOK, Coroutines
  <2> HIDE DEF new
  <2>2. QED
    BY <2>1, LocksOne DEF HoldsAs, InTransaction
<1>4. ASSUME NEW g \in Gen, Save(g) PROVE LocksInv'
  <2> DEFINE new == [task[g] EXCEPT !.at = "start", !.seen = NoResults]
  <2>1. /\ g \in Task /\ task' = [task EXCEPT ![g] = new] /\ task[g].at = "save"
        /\ new.at = "start" /\ new.batch = task[g].batch /\ new.proc = task[g].proc
    BY <1>4 DEF Save, SaveCopy, At, Task, TypeOK, Coroutines
  <2> HIDE DEF new
  <2>2. QED
    BY <2>1, LocksOne DEF HoldsAs, InTransaction
<1>5. ASSUME NEW g \in Gen, FinalSave(g) PROVE LocksInv'
  <2> DEFINE new == [task[g] EXCEPT !.at = "cleanup", !.seen = NoResults]
  <2>1. g \in Task /\ task' = [task EXCEPT ![g] = new] /\ new.at = "cleanup"
    BY <1>5 DEF FinalSave, SaveCopy, Task, TypeOK, Coroutines
  <2> HIDE DEF new
  <2>2. QED
    BY <2>1, LocksOne DEF HoldsAs, InTransaction
<1>6. ASSUME NEW g \in Gen, Start(g) PROVE LocksInv'
  <2> DEFINE new == [task[g] EXCEPT !.at = "run", !.batch = {}]
  <2>1. g \in Task /\ task' = [task EXCEPT ![g] = new] /\ new.at = "run"
    BY <1>6 DEF Start, Task, TypeOK, Coroutines
  <2> HIDE DEF new
  <2>2. QED
    BY <2>1, LocksOne DEF HoldsAs, InTransaction
<1>7. ASSUME NEW g \in Gen, Finish(g) PROVE LocksInv'
  <2> DEFINE new == [task[g] EXCEPT !.at = "final", !.seen = hist]
  <2>1. g \in Task /\ task' = [task EXCEPT ![g] = new] /\ new.at = "final"
    BY <1>7 DEF Finish, Task, TypeOK, Coroutines
  <2> HIDE DEF new
  <2>2. QED
    BY <2>1, LocksOne DEF HoldsAs, InTransaction
<1>8. ASSUME NEW g \in Gen, Cleanup(g) \/ Check(g) PROVE LocksInv'
  BY <1>8, LocksGo, LocksLeave DEF Cleanup, Check, Task
<1>9. ASSUME NEW k \in Task, PumpWait(k) PROVE LocksInv'
  BY <1>9, LocksGo DEF PumpWait
<1>10. ASSUME NEW k \in Task, PumpLock(k) PROVE LocksInv'
  <2>1. CASE Leave(k)
    BY <2>1, LocksLeave
  <2>2. CASE Go(k, "select")
    <3>1. \A j \in Task : task[j].proc = task[k].proc => ~HoldsAs(task[j])
      BY <1>10 DEF PumpLock, LockFree, Holds, HoldsAs
    <3>2. /\ \A j \in Task \ {k} : task'[j] = task[j]
          /\ task'[k].at = "select" /\ task'[k].proc = task[k].proc
      BY <2>2 DEF Go, TypeOK, Coroutines
    <3>3. \A i, j \in Task :
            HoldsAs(task'[i]) /\ HoldsAs(task'[j]) /\ task'[i].proc = task'[j].proc => i = j
      BY <3>1, <3>2 DEF LocksInv
    <3>4. \A j \in Task : InTransaction(task'[j]) => j # k /\ InTransaction(task[j])
      BY <3>2 DEF InTransaction
    <3>5. QED
      BY <3>3, <3>4 DEF LocksInv, HoldsAs, InTransaction
  <2>3. QED
    BY <1>10, <2>1, <2>2 DEF PumpLock
<1>11. ASSUME NEW k \in Task, PumpSelect(k) PROVE LocksInv'
  <2>1. CASE Leave(k)
    BY <2>1, LocksLeave
  <2>2. ASSUME NEW batch,
               task' = [task EXCEPT ![k] = [@ EXCEPT !.at = "commit", !.seen = hist, !.batch = batch]]
        PROVE  LocksInv'
    <3>1. /\ \A j \in Task \ {k} : task'[j] = task[j]
          /\ task'[k].at = "commit" /\ task'[k].proc = task[k].proc
      BY <2>2 DEF TypeOK, Coroutines
    <3>2. HoldsAs(task[k]) /\ (RowLocks => \A j \in Task : ~InTransaction(task[j]))
      BY <1>11 DEF PumpSelect, At, HoldsAs, RowLocked, InTransaction
    <3>3. \A j \in Task : HoldsAs(task'[j]) => HoldsAs(task[j]) /\ task'[j].proc = task[j].proc
      BY <3>1, <3>2
    <3>4. \A i, j \in Task :
            HoldsAs(task'[i]) /\ HoldsAs(task'[j]) /\ task'[i].proc = task'[j].proc => i = j
      BY <3>3 DEF LocksInv
    <3>5. RowLocks => \A j \in Task : InTransaction(task'[j]) => j = k
      BY <3>1, <3>2
    <3>6. QED
      BY <3>4, <3>5 DEF LocksInv, HoldsAs, InTransaction
  <2>3. QED
    BY <1>11, <2>1, <2>2 DEF PumpSelect
<1>12. ASSUME NEW k \in Task, PumpCommit(k) PROVE LocksInv'
  <2> DEFINE free == Fresh \cup (Gen \cap {k})
             answer == CHOOSE g \in free : TRUE
             rest == IF k \in Gen THEN Idle ELSE Over
  <2>1. answer \in Task
    <3>1. free # {} /\ free \subseteq Gen
      BY <1>12 DEF PumpCommit, Fresh
    <3> HIDE DEF free
    <3>2. answer \in free
      BY <3>1
    <3>3. QED
      BY <3>1, <3>2 DEF Task
  <2>2. PICK after : task' = [task EXCEPT ![k] = rest,
                                          ![answer] = [task[k] EXCEPT !.at = "save", !.seen = after]]
    BY <1>12 DEF PumpCommit
  <2> DEFINE new == [task[k] EXCEPT !.at = "save", !.seen = after]
  <2>3. new.at = "save" /\ new.proc = task[k].proc /\ rest.at \in {"idle", "over"}
    BY Constructors DEF TypeOK, Coroutines
  <2> HIDE DEF new, answer, rest, free
  <2>4. /\ \A j \in Task \ {k, answer} : task'[j] = task[j]
        /\ task'[answer] = new
        /\ k # answer => task'[k] = rest
    BY <2>1, <2>2 DEF TypeOK, new
  <2>5. HoldsAs(task[k])
    BY <1>12 DEF PumpCommit, At, HoldsAs
  \* The lock goes from the pump to the generation that its handler starts.
  <2>6. \A j \in Task : /\ InTransaction(task'[j]) => InTransaction(task[j])
                        /\ HoldsAs(task'[j]) /\ j # answer => j # k /\ task'[j] = task[j]
    BY <2>3, <2>4 DEF InTransaction, HoldsAs
  <2>7. \A i, j \in Task :
          HoldsAs(task'[i]) /\ HoldsAs(task'[j]) /\ task'[i].proc = task'[j].proc => i = j
    <3> SUFFICES ASSUME NEW i \in Task, NEW j \in Task, i # j, i # answer,
                        HoldsAs(task'[i]), HoldsAs(task'[j]), task'[i].proc = task'[j].proc
                 PROVE  FALSE
      OBVIOUS
    <3>1. i # k /\ task'[i] = task[i]
      BY <2>6
    <3>2. CASE j = answer
      BY <2>3, <2>4, <2>5, <3>1, <3>2 DEF LocksInv
    <3>3. CASE j # answer
      BY <2>6, <3>1, <3>3 DEF LocksInv
    <3>4. QED
      BY <3>2, <3>3
  <2>8. QED
    BY <2>6, <2>7 DEF LocksInv, HoldsAs, InTransaction
<1>13. ASSUME NEW g \in Gen, NEW d \in Sub, Delegate(g, d) PROVE LocksInv'
  BY <1>13, LocksGo DEF Delegate, Task
<1>14. ASSUME NEW d \in Sub, Insert(d) PROVE LocksInv'
  <2> DEFINE new == [task[d] EXCEPT !.at = "work", !.proc = task[Caller(d)].proc]
  <2>1. d \in Task /\ task' = [task EXCEPT ![d] = new] /\ new.at = "work"
    BY <1>14 DEF Insert, Task, TypeOK, Coroutines
  <2> HIDE DEF new
  <2>2. QED
    BY <2>1, LocksOne DEF HoldsAs, InTransaction
<1>15. ASSUME NEW d \in Sub, Saved(d) \/ Return(d) \/ InsertFails(d) \/ SaveFails(d) PROVE LocksInv'
  <2>1. Caller(d) \in Task
    BY <1>15 DEF Saved, Return, InsertFails, SaveFails, CallsInv, Open, Task
  <2>2. UNCHANGED task \/ Go(Caller(d), "run")
    BY <1>15 DEF Saved, Return, InsertFails, SaveFails
  <2>3. QED
    BY <1>1, <2>1, <2>2, LocksGo
<1>16. ASSUME NEW d \in Sub, Worked(d) \/ PutCheck(d) PROVE LocksInv'
  BY <1>16, LocksGo, LocksLeave DEF Worked, PutCheck, Task
<1>17. ASSUME NEW d \in Sub, PutSelect(d) PROVE LocksInv'
  <2>1. \A j \in Task : task[j].proc = task[d].proc => ~HoldsAs(task[j])
    BY <1>17 DEF PutSelect, LockFree, Holds, HoldsAs
  <2>2. RowLocks => \A j \in Task : ~InTransaction(task[j])
    BY <1>17 DEF PutSelect, RowLocked, InTransaction
  <2>3. /\ d \in Task /\ \A j \in Task \ {d} : task'[j] = task[j]
        /\ task'[d].at = "write" /\ task'[d].proc = task[d].proc
    BY <1>17 DEF PutSelect, TypeOK, Coroutines, Task
  <2>4. \A i, j \in Task :
          HoldsAs(task'[i]) /\ HoldsAs(task'[j]) /\ task'[i].proc = task'[j].proc => i = j
    BY <2>1, <2>3 DEF LocksInv
  <2>5. RowLocks => \A j \in Task : InTransaction(task'[j]) => j = d
    BY <2>2, <2>3
  <2>6. QED
    BY <2>4, <2>5 DEF LocksInv, HoldsAs, InTransaction
<1>18. ASSUME NEW d \in Sub, PutCommit(d) PROVE LocksInv'
  <2> DEFINE new == [task[d] EXCEPT !.at = "told", !.seen = NoResults]
  <2>1. d \in Task /\ task' = [task EXCEPT ![d] = new] /\ new.at = "told"
    BY <1>18 DEF PutCommit, Task, TypeOK, Coroutines
  <2> HIDE DEF new
  <2>2. QED
    BY <2>1, LocksOne DEF HoldsAs, InTransaction
<1>19. ASSUME NEW d \in Sub, InsertCancelled(d) PROVE LocksInv'
  <2> DEFINE new == [task[Caller(d)] EXCEPT !.at = "final", !.seen = hist]
  <2>1. Caller(d) \in Task /\ task' = [task EXCEPT ![Caller(d)] = new]
    BY <1>19 DEF InsertCancelled, CallsInv, Open, Task
  <2>2. new.at = "final"
    BY <2>1 DEF TypeOK, Coroutines
  <2> HIDE DEF new
  <2>3. QED
    BY <2>1, <2>2, LocksOne DEF HoldsAs, InTransaction
<1>20. ASSUME NEW k \in Task, Dies(k) PROVE LocksInv'
  BY <1>20, LocksLeave DEF Dies
<1>21. ASSUME NEW p \in Proc, Crash(p) PROVE LocksInv'
  <2>1. \A k \in Task : task'[k] = task[k] \/ task'[k].at \in {"idle", "over"}
    BY <1>21, Constructors DEF Crash
  <2>2. \A k \in Task : /\ HoldsAs(task'[k]) => task'[k] = task[k]
                        /\ InTransaction(task'[k]) => task'[k] = task[k]
    BY <2>1 DEF HoldsAs, InTransaction
  <2>3. /\ \A j, k \in Task :
             HoldsAs(task'[j]) /\ HoldsAs(task'[k]) /\ task'[j].proc = task'[k].proc => j = k
        /\ RowLocks => \A j, k \in Task :
             InTransaction(task'[j]) /\ InTransaction(task'[k]) => j = k
    BY <2>2 DEF LocksInv
  <2>4. QED
    BY <2>3 DEF LocksInv, HoldsAs, InTransaction
<1>22. ASSUME NEW g \in Gen, Stop(g) PROVE LocksInv'
  BY <1>22, <1>1 DEF Stop
<1>23. CASE UNCHANGED vars
  BY <1>23, <1>1 DEF vars
<1>24. QED
  BY <1>2, <1>3, <1>4, <1>5, <1>6, <1>7, <1>8, <1>9, <1>10, <1>11, <1>12, <1>13, <1>14, <1>15,
     <1>16, <1>17, <1>18, <1>19, <1>20, <1>21, <1>22, <1>23
     DEF Next, GenStep, PumpStep, PutStep, CallStep

-----------------------------------------------------------------------------
(* A result is taken once *)

\* What makes the lock of the pump enough: a row lock, or a single process.
Guarded == RowLocks \/ \A p, q \in Proc : p = q

\* Where the result of a sub-agent has not been put into the chat.
Unput == {"idle", "work", "put", "write"}

ResultsInv ==
    \A d \in Sub \ clobbered :
        /\ takes[d] <= 1
        /\ hist[d] # "taken" => takes[d] = 0
        /\ task[d].at \in Unput => hist[d] = "none"
        /\ \A k \in Task : At(k, "commit") /\ d \in task[k].batch => hist[d] = "pending"

\* Coroutines move, but nobody writes the chat or selects a batch.
LEMMA ResultsQuiet ==
    ASSUME ResultsInv, UNCHANGED <<takes, hist>>, clobbered \subseteq clobbered',
           \A d \in Sub : task'[d].at \in Unput => task[d].at \in Unput,
           \A k \in Task : At(k, "commit")' => At(k, "commit") /\ task'[k].batch = task[k].batch
    PROVE  ResultsInv'
<1> SUFFICES ASSUME NEW d \in Sub \ clobbered'
             PROVE  /\ takes'[d] <= 1
                    /\ hist'[d] # "taken" => takes'[d] = 0
                    /\ task'[d].at \in Unput => hist'[d] = "none"
                    /\ \A k \in Task : At(k, "commit")' /\ d \in task'[k].batch => hist'[d] = "pending"
  BY DEF ResultsInv, At
<1>1. d \in Sub \ clobbered
  OBVIOUS
<1>2. QED
  BY <1>1 DEF ResultsInv

LEMMA ResultsGo ==
    ASSUME TypeOK, ResultsInv, UNCHANGED <<takes, hist, clobbered>>, NEW k \in Task, NEW there, Go(k, there),
           there \in Unput => task[k].at \in Unput, there # "commit"
    PROVE  ResultsInv'
<1>1. \A j \in Task : task'[j] = IF j = k THEN [task[k] EXCEPT !.at = there] ELSE task[j]
  BY DEF Go, TypeOK
<1>2. task'[k].at = there
  BY <1>1 DEF TypeOK, Coroutines
<1>3. \A d \in Sub : task'[d].at \in Unput => task[d].at \in Unput
  BY <1>1, <1>2 DEF Task
<1>4. \A j \in Task : At(j, "commit")' => At(j, "commit") /\ task'[j].batch = task[j].batch
  BY <1>1, <1>2 DEF At
<1>5. QED
  BY <1>3, <1>4, ResultsQuiet

LEMMA ResultsLeave ==
    ASSUME TypeOK, ResultsInv, UNCHANGED <<takes, hist, clobbered>>, NEW k \in Task, Leave(k)
    PROVE  ResultsInv'
<1>1. \A j \in Task : task'[j] = IF j = k THEN (IF k \in Gen THEN Idle ELSE Over) ELSE task[j]
  BY DEF Leave, TypeOK
<1>2. \A d \in Sub : task'[d].at \in Unput => task[d].at \in Unput
  BY <1>1, Constructors DEF Task, Unput
<1>3. \A j \in Task : At(j, "commit")' => At(j, "commit") /\ task'[j].batch = task[j].batch
  BY <1>1, Constructors DEF At
<1>4. QED
  BY <1>2, <1>3, ResultsQuiet

\* One coroutine moves, not into a commit and not back before its result is put.
LEMMA ResultsOne ==
    ASSUME TypeOK, ResultsInv, UNCHANGED <<takes, hist, clobbered>>, NEW k \in Task, NEW new,
           task' = [task EXCEPT ![k] = new],
           k \in Sub /\ new.at \in Unput => task[k].at \in Unput,
           new.at # "commit"
    PROVE  ResultsInv'
<1>1. \A j \in Task : task'[j] = IF j = k THEN new ELSE task[j]
  BY DEF TypeOK
<1>2. \A d \in Sub : task'[d].at \in Unput => task[d].at \in Unput
  BY <1>1 DEF Task
<1>3. \A j \in Task : At(j, "commit")' => At(j, "commit") /\ task'[j].batch = task[j].batch
  BY <1>1 DEF At
<1>4. QED
  BY <1>2, <1>3, ResultsQuiet

\* A copy written back changes only what it marks as clobbered.
LEMMA ResultsSave ==
    ASSUME TypeOK, ResultsInv, UNCHANGED takes, NEW g \in Gen, NEW there \in {"start", "cleanup"},
           SaveCopy(g, there)
    PROVE  ResultsInv'
<1> DEFINE new == [task[g] EXCEPT !.at = there, !.seen = NoResults]
<1>1. g \in Task /\ task' = [task EXCEPT ![g] = new] /\ new.at = there
  BY DEF SaveCopy, TypeOK, Task, Coroutines
<1>2. \A j \in Task : task'[j] = IF j = g THEN new ELSE task[j]
  BY <1>1 DEF TypeOK
<1> HIDE DEF new
<1>3. \A d \in Sub \ clobbered' : d \in Sub \ clobbered /\ hist'[d] = hist[d]
  BY DEF SaveCopy, Overwrite
<1>4. \A d \in Sub : task'[d].at = task[d].at
  BY <1>2 DEF Task
<1>5. \A j \in Task : At(j, "commit")' => At(j, "commit") /\ task'[j].batch = task[j].batch
  BY <1>1, <1>2 DEF At
<1>6. QED
  BY <1>3, <1>4, <1>5 DEF ResultsInv

LEMMA ResultsStep ==
    ASSUME Guarded
    PROVE  TypeOK /\ CallsInv /\ PlacesInv /\ LocksInv /\ ResultsInv /\ [Next]_vars => ResultsInv'
<1> SUFFICES ASSUME TypeOK, CallsInv, PlacesInv, LocksInv, ResultsInv, [Next]_vars
             PROVE  ResultsInv'
  OBVIOUS
<1> USE DEF chatVars
<1>1. ASSUME UNCHANGED <<task, takes, hist, clobbered>> PROVE ResultsInv'
  BY <1>1 DEF ResultsInv, At
<1>2. ASSUME NEW p \in Proc, Turn(p) PROVE ResultsInv'
  <2> DEFINE g == CHOOSE g \in Fresh : TRUE
             new == [Idle EXCEPT !.at = "save", !.proc = p, !.seen = hist]
  <2>1. g \in Task /\ g \notin Sub /\ task' = [task EXCEPT ![g] = new] /\ UNCHANGED <<takes, hist, clobbered>>
    BY <1>2 DEF Turn, Fresh, Task
  <2>2. new.at = "save"
    BY DEF Idle
  <2> HIDE DEF g, new
  <2>3. QED
    BY <2>1, <2>2, ResultsOne
<1>3. ASSUME NEW g \in Gen, Read(g) PROVE ResultsInv'
  <2> DEFINE new == [task[g] EXCEPT !.seen = hist]
  <2>1. /\ g \in Task /\ g \notin Sub /\ task' = [task EXCEPT ![g] = new]
        /\ new.at = task[g].at /\ task[g].at # "commit" /\ UNCHANGED <<takes, hist, clobbered>>
    BY <1>3 DEF Read, Task, TypeOK, Coroutines
  <2> HIDE DEF new
  <2>2. QED
    BY <2>1, ResultsOne
<1>4. ASSUME NEW g \in Gen, Save(g) \/ FinalSave(g) PROVE ResultsInv'
  BY <1>4, ResultsSave DEF Save, FinalSave
<1>5. ASSUME NEW g \in Gen, Start(g) PROVE ResultsInv'
  <2> DEFINE new == [task[g] EXCEPT !.at = "run", !.batch = {}]
  <2>1. /\ g \in Task /\ g \notin Sub /\ task' = [task EXCEPT ![g] = new] /\ new.at = "run"
        /\ UNCHANGED <<takes, hist, clobbered>>
    BY <1>5 DEF Start, Task, TypeOK, Coroutines
  <2> HIDE DEF new
  <2>2. QED
    BY <2>1, ResultsOne
<1>6. ASSUME NEW g \in Gen, Finish(g) PROVE ResultsInv'
  <2> DEFINE new == [task[g] EXCEPT !.at = "final", !.seen = hist]
  <2>1. /\ g \in Task /\ g \notin Sub /\ task' = [task EXCEPT ![g] = new] /\ new.at = "final"
        /\ UNCHANGED <<takes, hist, clobbered>>
    BY <1>6 DEF Finish, Task, TypeOK, Coroutines
  <2> HIDE DEF new
  <2>2. QED
    BY <2>1, ResultsOne
<1>7. ASSUME NEW g \in Gen, Cleanup(g) \/ Check(g) PROVE ResultsInv'
  BY <1>7, ResultsGo, ResultsLeave DEF Cleanup, Check, Task, Unput
<1>8. ASSUME NEW k \in Task, PumpWait(k) \/ PumpLock(k) PROVE ResultsInv'
  BY <1>8, ResultsGo, ResultsLeave DEF PumpWait, PumpLock, Unput
<1>9. ASSUME NEW k \in Task, PumpSelect(k) PROVE ResultsInv'
  <2>1. CASE Leave(k)
    BY <1>9, <2>1, ResultsLeave DEF PumpSelect
  <2>2. ASSUME NEW batch \in SUBSET Pending,
               task' = [task EXCEPT ![k] = [@ EXCEPT !.at = "commit", !.seen = hist, !.batch = batch]]
        PROVE  ResultsInv'
    <3>1. /\ \A j \in Task \ {k} : task'[j] = task[j]
          /\ task'[k].at = "commit" /\ task'[k].batch = batch
      BY <2>2 DEF TypeOK, Coroutines
    <3>2. UNCHANGED <<takes, hist, clobbered>>
      BY <1>9 DEF PumpSelect
    <3>3. \A d \in Sub : task'[d].at \in Unput => task[d].at \in Unput
      BY <3>1 DEF Task, Unput
    <3>4. \A d \in Sub \ clobbered, j \in Task :
            At(j, "commit")' /\ d \in task'[j].batch => hist[d] = "pending"
      <4> SUFFICES ASSUME NEW d \in Sub \ clobbered, NEW j \in Task,
                          task'[j].at = "commit", d \in task'[j].batch
                   PROVE  hist[d] = "pending"
        BY DEF At
      <4>1. CASE j = k
        BY <3>1, <4>1 DEF Pending
      <4>2. CASE j # k
        BY <3>1, <4>2 DEF ResultsInv, At
      <4>3. QED
        BY <4>1, <4>2
    <3>5. QED
      BY <3>2, <3>3, <3>4 DEF ResultsInv
  <2>3. QED
    BY <1>9, <2>1, <2>2 DEF PumpSelect
<1>10. ASSUME NEW k \in Task, PumpCommit(k) PROVE ResultsInv'
  <2> DEFINE batch == task[k].batch
             after == [d \in Sub |-> IF d \in batch THEN "taken" ELSE task[k].seen[d]]
             free == Fresh \cup (Gen \cap {k})
             answer == CHOOSE g \in free : TRUE
             new == [task[k] EXCEPT !.at = "save", !.seen = after]
             rest == IF k \in Gen THEN Idle ELSE Over
  <2>1. answer \in Task /\ answer \notin Sub /\ task[k].at = "commit"
    BY <1>10 DEF PumpCommit, Fresh, Task, At
  <2>2. task' = [task EXCEPT ![k] = rest, ![answer] = new] /\ new.at = "save"
    BY <1>10 DEF PumpCommit, TypeOK, Coroutines
  <2>3. /\ hist' = after
        /\ clobbered' = clobbered \cup {d \in Sub \ batch : after[d] # hist[d]}
        /\ takes' = [d \in Sub |-> IF d \in batch THEN takes[d] + 1 ELSE takes[d]]
    BY <1>10 DEF PumpCommit, Overwrite
  <2>4. rest.at \in {"idle", "over"} /\ (k \in Sub => rest.at = "over")
    BY Constructors
  <2> HIDE DEF new, answer, rest, free
  <2>5. /\ \A j \in Task \ {k, answer} : task'[j] = task[j]
        /\ task'[answer] = new
        /\ k # answer => task'[k] = rest
    BY <2>1, <2>2 DEF TypeOK
  <2>6. \A d \in Sub : task'[d].at \in Unput => task[d].at \in Unput
    <3> SUFFICES ASSUME NEW d \in Sub, task'[d].at \in Unput PROVE task[d].at \in Unput
      OBVIOUS
    <3>1. d # answer /\ d \in Task
      BY <2>1 DEF Task
    <3>2. d # k
      BY <2>4, <2>5, <3>1 DEF Unput
    <3>3. QED
      BY <2>5, <3>1, <3>2
  <2>7. \A j \in Task : At(j, "commit")' => j # k /\ task'[j] = task[j]
    BY <2>2, <2>4, <2>5 DEF At
  \* No second pump is in its commit.
  <2>8. \A j \in Task : At(j, "commit") => j = k
    <3> SUFFICES ASSUME NEW j \in Task, task[j].at = "commit" PROVE j = k
      BY DEF At
    <3>1. CASE RowLocks
      BY <2>1, <3>1 DEF LocksInv, InTransaction
    <3>2. CASE \A p, q \in Proc : p = q
      <4>1. task[j].proc = task[k].proc
        BY <2>1, <3>2 DEF PlacesInv
      <4>2. QED
        BY <2>1, <4>1 DEF LocksInv, HoldsAs
    <3>3. QED
      BY <3>1, <3>2 DEF Guarded
  <2>9. \A j \in Task : ~At(j, "commit")'
    BY <2>7, <2>8 DEF At
  <2>10. ASSUME NEW d \in Sub \ clobbered' PROVE
           /\ takes'[d] <= 1
           /\ hist'[d] # "taken" => takes'[d] = 0
           /\ task'[d].at \in Unput => hist'[d] = "none"
    <3>1. d \in Sub \ clobbered
      BY <2>3
    <3>2. CASE d \in batch
      <4>1. hist[d] = "pending"
        BY <2>1, <3>1, <3>2 DEF ResultsInv, At
      <4>2. takes[d] = 0 /\ task[d].at \notin Unput
        BY <3>1, <4>1 DEF ResultsInv
      <4>3. hist'[d] = "taken" /\ takes'[d] = takes[d] + 1
        BY <2>3, <3>2
      <4> HIDE DEF after, batch
      <4>4. QED
        BY <2>6, <4>2, <4>3
    <3>3. CASE d \notin batch
      <4>1. hist'[d] = hist[d] /\ takes'[d] = takes[d]
        <5> HIDE DEF after, batch
        <5>1. QED
          BY <2>3, <3>3
      <4> HIDE DEF after, batch
      <4>2. QED
        BY <2>6, <3>1, <4>1 DEF ResultsInv
    <3>4. QED
      BY <3>2, <3>3
  <2>11. QED
    BY <2>9, <2>10 DEF ResultsInv
<1>11. ASSUME NEW g \in Gen, NEW d \in Sub, Delegate(g, d) PROVE ResultsInv'
  BY <1>11, ResultsGo DEF Delegate, Task, Unput
<1>12. ASSUME NEW d \in Sub, Insert(d) PROVE ResultsInv'
  <2> DEFINE new == [task[d] EXCEPT !.at = "work", !.proc = task[Caller(d)].proc]
  <2>1. /\ d \in Task /\ task' = [task EXCEPT ![d] = new] /\ new.at = "work"
        /\ task[d].at = "idle" /\ UNCHANGED <<takes, hist, clobbered>>
    BY <1>12 DEF Insert, Task, TypeOK, Coroutines, CallsInv, At
  <2> HIDE DEF new
  <2>2. QED
    BY <2>1, ResultsOne DEF Unput
<1>13. ASSUME NEW d \in Sub, Saved(d) \/ Return(d) \/ InsertFails(d) \/ SaveFails(d) PROVE ResultsInv'
  <2>1. Caller(d) \in Task
    BY <1>13 DEF Saved, Return, InsertFails, SaveFails, CallsInv, Open, Task
  <2>2. (UNCHANGED task \/ Go(Caller(d), "run")) /\ UNCHANGED <<takes, hist, clobbered>>
    BY <1>13 DEF Saved, Return, InsertFails, SaveFails
  <2>3. QED
    BY <1>1, <2>1, <2>2, ResultsGo DEF Unput
<1>14. ASSUME NEW d \in Sub, Worked(d) \/ PutCheck(d) PROVE ResultsInv'
  BY <1>14, ResultsGo, ResultsLeave DEF Worked, PutCheck, Task, Unput, At
<1>15. ASSUME NEW d \in Sub, PutSelect(d) PROVE ResultsInv'
  <2> DEFINE new == [task[d] EXCEPT !.at = "write", !.seen = hist]
  <2>1. /\ d \in Task /\ task' = [task EXCEPT ![d] = new] /\ new.at = "write"
        /\ task[d].at = "put" /\ UNCHANGED <<takes, hist, clobbered>>
    BY <1>15 DEF PutSelect, Task, TypeOK, Coroutines, At
  <2> HIDE DEF new
  <2>2. QED
    BY <2>1, ResultsOne DEF Unput
<1>16. ASSUME NEW d \in Sub, PutCommit(d) PROVE ResultsInv'
  <2> DEFINE copy == [task[d].seen EXCEPT ![d] = "pending"]
             new == [task[d] EXCEPT !.at = "told", !.seen = NoResults]
  <2>1. /\ d \in Task /\ task' = [task EXCEPT ![d] = new] /\ new.at = "told" /\ task[d].at = "write"
        /\ takes' = takes
    BY <1>16 DEF PutCommit, Task, TypeOK, Coroutines, At
  <2>2. /\ hist' = copy /\ copy[d] = "pending"
        /\ clobbered' = clobbered \cup {c \in Sub \ {d} : copy[c] # hist[c]}
    BY <1>16 DEF PutCommit, Overwrite, TypeOK, Coroutines, Results, Task
  <2> HIDE DEF new, copy
  <2>3. \A j \in Task : task'[j] = IF j = d THEN new ELSE task[j]
    BY <2>1 DEF TypeOK
  <2>4. ASSUME NEW c \in Sub \ clobbered' PROVE
           /\ takes'[c] <= 1
           /\ hist'[c] # "taken" => takes'[c] = 0
           /\ task'[c].at \in Unput => hist'[c] = "none"
           /\ \A k \in Task : At(k, "commit")' /\ c \in task'[k].batch => hist'[c] = "pending"
    <3>1. c \in Sub \ clobbered
      BY <2>2
    <3>2. \A k \in Task : At(k, "commit")' => At(k, "commit") /\ task'[k].batch = task[k].batch
      BY <2>1, <2>3 DEF At
    <3>3. CASE c = d
      <4>1. hist[d] = "none" /\ takes[d] = 0
        BY <2>1, <3>1, <3>3 DEF ResultsInv, Unput
      <4>2. QED
        BY <2>1, <2>2, <2>3, <3>3, <4>1 DEF Unput
    <3>4. CASE c # d
      <4>1. hist'[c] = hist[c] /\ task'[c] = task[c]
        BY <2>2, <2>3, <3>4 DEF Task
      <4>2. QED
        BY <2>1, <3>1, <3>2, <4>1 DEF ResultsInv
    <3>5. QED
      BY <3>3, <3>4
  <2>5. QED
    BY <2>4 DEF ResultsInv
<1>17. ASSUME NEW d \in Sub, InsertCancelled(d) PROVE ResultsInv'
  <2> DEFINE new == [task[Caller(d)] EXCEPT !.at = "final", !.seen = hist]
  <2>1. /\ Caller(d) \in Task /\ task' = [task EXCEPT ![Caller(d)] = new]
        /\ UNCHANGED <<takes, hist, clobbered>>
    BY <1>17 DEF InsertCancelled, CallsInv, Open, Task
  <2>2. new.at = "final"
    BY <2>1 DEF TypeOK, Coroutines
  <2> HIDE DEF new
  <2>3. QED
    BY <2>1, <2>2, ResultsOne DEF Unput
<1>18. ASSUME NEW k \in Task, Dies(k) PROVE ResultsInv'
  BY <1>18, ResultsLeave DEF Dies
<1>19. ASSUME NEW p \in Proc, Crash(p) PROVE ResultsInv'
  <2>1. \A k \in Task : \/ task'[k] = task[k]
                        \/ task'[k].at = IF k \in Gen THEN "idle" ELSE "over"
    BY <1>19, Constructors DEF Crash
  <2>2. UNCHANGED <<takes, hist, clobbered>>
    BY <1>19 DEF Crash
  <2>3. \A d \in Sub : task'[d].at \in Unput => task[d].at \in Unput
    BY <2>1 DEF Unput, Task
  <2>4. \A k \in Task : At(k, "commit")' => At(k, "commit") /\ task'[k].batch = task[k].batch
    BY <2>1 DEF At
  <2>5. QED
    BY <2>2, <2>3, <2>4, ResultsQuiet
<1>20. ASSUME NEW g \in Gen, Stop(g) PROVE ResultsInv'
  BY <1>20, <1>1 DEF Stop
<1>21. CASE UNCHANGED vars
  BY <1>21, <1>1 DEF vars
<1>22. QED
  BY <1>2, <1>3, <1>4, <1>5, <1>6, <1>7, <1>8, <1>9, <1>10, <1>11, <1>12, <1>13, <1>14, <1>15,
     <1>16, <1>17, <1>18, <1>19, <1>20, <1>21
     DEF Next, GenStep, PumpStep, PutStep, CallStep

-----------------------------------------------------------------------------
(* No result is forgotten *)

Registered == {"run", "call", "final", "cleanup"}

\* Whoever is in the registry will ask it on the way out, so that it is safe to
\* leave a pending result to the registered tasks.
AliveInv ==
    faults = 0 => /\ \A g \in active : task[g].at \in Registered
                  /\ Pending # {} => \E k \in Task : WillLook(k)

\* Somebody who will look is named.
LEMMA AliveWitness ==
    ASSUME AliveInv, UNCHANGED faults, NEW k \in Task, WillLook(k)',
           faults = 0 => \A g \in active' : task'[g].at \in Registered
    PROVE  AliveInv'
BY DEF AliveInv

\* The chat is left alone, and whoever would look still will.
LEMMA AliveQuiet ==
    ASSUME AliveInv, UNCHANGED <<faults, hist>>,
           \A k \in Task : WillLook(k) => WillLook(k)',
           faults = 0 => \A g \in active' : task'[g].at \in Registered
    PROVE  AliveInv'
<1>1. Pending' = Pending
  BY DEF Pending
<1>2. QED
  BY <1>1 DEF AliveInv

LEMMA AliveGo ==
    ASSUME TypeOK, AliveInv, UNCHANGED <<faults, hist>>, active' \subseteq active,
           NEW k \in Task, NEW there, Go(k, there),
           task[k].at \in Answering \cup Pump \cup {"told"} => there \in Answering \cup Pump \cup {"told"},
           k \in active' => there \in Registered
    PROVE  AliveInv'
<1>1. \A j \in Task \ {k} : task'[j] = task[j]
  BY DEF Go, TypeOK
<1>2. task'[k].at = there
  BY DEF Go, TypeOK, Coroutines
<1>3. \A j \in Task : WillLook(j) => WillLook(j)'
  BY <1>1, <1>2 DEF WillLook
<1>4. faults = 0 => \A g \in active' : task'[g].at \in Registered
  BY <1>1, <1>2 DEF AliveInv, TypeOK, Task
<1>5. QED
  BY <1>3, <1>4, AliveQuiet

\* Leaving is safe while a task is registered, and for who would not have looked.
LEMMA AliveLeave ==
    ASSUME TypeOK, AliveInv, UNCHANGED <<faults, hist, active>>, NEW k \in Task, Leave(k),
           task[k].at \notin Registered,
           active # {} \/ ~WillLook(k) \/ Pending = {}
    PROVE  AliveInv'
<1>1. \A j \in Task \ {k} : task'[j] = task[j]
  BY DEF Leave, TypeOK
<1>2. faults = 0 => \A g \in active : g # k /\ task'[g].at \in Registered
  BY <1>1 DEF AliveInv, TypeOK, Task
<1>3. CASE active # {} /\ faults = 0
  <2>1. PICK g \in active : TRUE
    BY <1>3
  <2>2. g \in Task /\ WillLook(g)'
    BY <1>2, <1>3 DEF TypeOK, Task, WillLook, Registered, Answering
  <2>3. QED
    BY <1>2, <2>2, AliveWitness
<1>4. CASE ~WillLook(k)
  <2>1. \A j \in Task : WillLook(j) => WillLook(j)'
    BY <1>1, <1>4 DEF WillLook
  <2>2. QED
    BY <1>2, <2>1, AliveQuiet
<1>5. CASE Pending = {} \/ faults # 0
  <2>1. Pending' = Pending
    BY DEF Pending
  <2>2. QED
    BY <1>2, <1>5, <2>1 DEF AliveInv
<1>6. QED
  BY <1>3, <1>4, <1>5

LEMMA AliveStep ==
    TypeOK /\ CallsInv /\ AliveInv /\ [Next]_vars => AliveInv'
<1> SUFFICES ASSUME TypeOK, CallsInv, AliveInv, [Next]_vars PROVE AliveInv'
  OBVIOUS
<1> USE DEF chatVars
<1>1. ASSUME Fault PROVE AliveInv'
  <2>1. faults' # 0
    BY <1>1 DEF Fault, TypeOK
  <2>2. QED
    BY <2>1 DEF AliveInv
\* One coroutine that looks before and after, in a step that may write the chat.
<1>2. ASSUME NEW g \in Gen, UNCHANGED <<faults, active>>, NEW new, task' = [task EXCEPT ![g] = new],
             new.at \in Answering, task[g].at \in Registered => new.at \in Registered
      PROVE  AliveInv'
  <2>1. \A j \in Task : task'[j] = IF j = g THEN new ELSE task[j]
    BY <1>2 DEF TypeOK
  <2>2. g \in Task /\ WillLook(g)'
    BY <1>2, <2>1 DEF WillLook, Task
  <2>3. faults = 0 => \A h \in active' : task'[h].at \in Registered
    BY <1>2, <2>1 DEF AliveInv, TypeOK, Task
  <2>4. QED
    BY <1>2, <2>2, <2>3, AliveWitness
<1>3. ASSUME NEW p \in Proc, Turn(p) PROVE AliveInv'
  <2> DEFINE g == CHOOSE g \in Fresh : TRUE
             new == [Idle EXCEPT !.at = "save", !.proc = p, !.seen = hist]
  <2>1. /\ g \in Gen /\ task[g].at = "idle" /\ task' = [task EXCEPT ![g] = new]
        /\ UNCHANGED <<faults, active>>
    BY <1>3 DEF Turn, Fresh, At
  <2>2. new.at = "save"
    BY DEF Idle
  <2> HIDE DEF g, new
  <2>3. QED
    BY <1>2, <2>1, <2>2 DEF Answering, Registered
<1>4. ASSUME NEW g \in Gen, Read(g) PROVE AliveInv'
  <2> DEFINE new == [task[g] EXCEPT !.seen = hist]
  <2>1. /\ task' = [task EXCEPT ![g] = new] /\ UNCHANGED <<faults, active>>
        /\ new.at = task[g].at /\ new.at \in Answering
    BY <1>4 DEF Read, Task, TypeOK, Coroutines, Answering
  <2> HIDE DEF new
  <2>2. QED
    BY <1>2, <2>1
<1>5. ASSUME NEW g \in Gen, Save(g) PROVE AliveInv'
  <2> DEFINE new == [task[g] EXCEPT !.at = "start", !.seen = NoResults]
  <2>1. /\ task' = [task EXCEPT ![g] = new] /\ UNCHANGED <<faults, active>>
        /\ task[g].at = "save" /\ new.at = "start"
    BY <1>5 DEF Save, SaveCopy, At, Task, TypeOK, Coroutines
  <2> HIDE DEF new
  <2>2. QED
    BY <1>2, <2>1 DEF Answering, Registered
<1>6. ASSUME NEW g \in Gen, FinalSave(g) PROVE AliveInv'
  <2> DEFINE new == [task[g] EXCEPT !.at = "cleanup", !.seen = NoResults]
  <2>1. /\ task' = [task EXCEPT ![g] = new] /\ UNCHANGED <<faults, active>>
        /\ new.at = "cleanup"
    BY <1>6 DEF FinalSave, SaveCopy, Task, TypeOK, Coroutines
  <2> HIDE DEF new
  <2>2. QED
    BY <1>2, <2>1 DEF Answering, Registered
<1>7. ASSUME NEW g \in Gen, Start(g) PROVE AliveInv'
  <2>1. /\ g \in Task /\ \A j \in Task \ {g} : task'[j] = task[j]
        /\ task'[g].at = "run" /\ active' = active \cup {g} /\ UNCHANGED faults
    BY <1>7 DEF Start, Task, TypeOK, Coroutines
  <2>2. faults = 0 => \A h \in active' : task'[h].at \in Registered
    BY <2>1 DEF AliveInv, TypeOK, Task, Registered
  <2>3. WillLook(g)'
    BY <2>1 DEF WillLook, Answering
  <2>4. QED
    BY <2>1, <2>2, <2>3, AliveWitness
<1>8. ASSUME NEW g \in Gen, Finish(g) PROVE AliveInv'
  <2> DEFINE new == [task[g] EXCEPT !.at = "final", !.seen = hist]
  <2>1. /\ task' = [task EXCEPT ![g] = new] /\ UNCHANGED <<faults, active>> /\ new.at = "final"
    BY <1>8 DEF Finish, Task, TypeOK, Coroutines
  <2> HIDE DEF new
  <2>2. QED
    BY <1>2, <2>1 DEF Answering, Registered
<1>9. ASSUME NEW g \in Gen, Stop(g) PROVE AliveInv'
  BY <1>9, AliveQuiet DEF Stop, AliveInv, WillLook
<1>10. ASSUME NEW g \in Gen, Cleanup(g) PROVE AliveInv'
  BY <1>10, AliveGo DEF Cleanup, Task, Answering
<1>11. ASSUME NEW g \in Gen, Check(g) PROVE AliveInv'
  <2>1. /\ UNCHANGED <<faults, hist, active>> /\ g \in Task /\ task[g].at \notin Registered
        /\ IF active = {} THEN Go(g, "wait") ELSE Leave(g)
    BY <1>11 DEF Check, At, Registered, Task
  <2>2. QED
    BY <2>1, AliveGo, AliveLeave DEF Pump
<1>12. ASSUME NEW k \in Task, PumpWait(k) PROVE AliveInv'
  BY <1>12, AliveGo DEF PumpWait, Pump
<1>13. ASSUME NEW k \in Task, PumpLock(k) PROVE AliveInv'
  <2>1. /\ UNCHANGED <<faults, hist, active>> /\ task[k].at \notin Registered
        /\ IF active = {} THEN Go(k, "select") ELSE Leave(k)
    BY <1>13 DEF PumpLock, At, Registered
  <2>2. QED
    BY <2>1, AliveGo, AliveLeave DEF Pump
<1>14. ASSUME NEW k \in Task, PumpSelect(k) PROVE AliveInv'
  <2>1. UNCHANGED <<faults, hist, active>> /\ task[k].at = "select"
    BY <1>14 DEF PumpSelect, At
  <2>2. CASE Pending = {} /\ Leave(k)
    BY <2>1, <2>2, AliveLeave DEF Registered
  <2>3. ASSUME NEW batch,
               task' = [task EXCEPT ![k] = [@ EXCEPT !.at = "commit", !.seen = hist, !.batch = batch]]
        PROVE  AliveInv'
    <3>1. /\ \A j \in Task \ {k} : task'[j] = task[j]
          /\ task'[k].at = "commit"
      BY <2>3 DEF TypeOK, Coroutines
    <3>2. WillLook(k)'
      BY <3>1 DEF WillLook, Pump
    <3>3. faults = 0 => \A g \in active' : task'[g].at \in Registered
      BY <2>1, <3>1 DEF AliveInv, TypeOK, Task, Registered
    <3>4. QED
      BY <2>1, <3>2, <3>3, AliveWitness
  <2>4. QED
    BY <1>14, <2>2, <2>3 DEF PumpSelect
<1>15. ASSUME NEW k \in Task, PumpCommit(k) PROVE AliveInv'
  <2>1. /\ task[k].at = "commit"
        /\ UNCHANGED <<faults, active>>
        /\ \E answer \in Task : \E rest, after :
             /\ answer = k \/ answer \notin active
             /\ task' = [task EXCEPT ![k] = rest,
                                     ![answer] = [task[k] EXCEPT !.at = "save", !.seen = after]]
    <3> DEFINE free == Fresh \cup (Gen \cap {k})
               answer == CHOOSE g \in free : TRUE
               after == [d \in Sub |-> IF d \in task[k].batch THEN "taken" ELSE task[k].seen[d]]
    <3>1. free # {} /\ free \subseteq Gen /\ \A g \in free : g = k \/ g \notin active
      BY <1>15 DEF PumpCommit, Fresh
    <3>2. answer \in Gen /\ (answer = k \/ answer \notin active)
      BY <3>1
    <3>3. task' = [task EXCEPT ![k] = IF k \in Gen THEN Idle ELSE Over,
                               ![answer] = [task[k] EXCEPT !.at = "save", !.seen = after]]
      BY <1>15 DEF PumpCommit
    <3> HIDE DEF answer, after, free
    <3>4. task[k].at = "commit" /\ UNCHANGED <<faults, active>>
      BY <1>15 DEF PumpCommit, At
    <3>5. QED
      BY <3>2, <3>3, <3>4 DEF Task
  <2>2. PICK answer \in Task :
             /\ answer = k \/ answer \notin active
             /\ \E rest, after :
                  task' = [task EXCEPT ![k] = rest,
                                       ![answer] = [task[k] EXCEPT !.at = "save", !.seen = after]]
    BY <2>1
  <2>3. /\ \A j \in Task \ {k, answer} : task'[j] = task[j]
        /\ task'[answer].at = "save"
    <3>1. PICK rest, after :
             task' = [task EXCEPT ![k] = rest,
                                  ![answer] = [task[k] EXCEPT !.at = "save", !.seen = after]]
      BY <2>2
    <3>2. QED
      BY <3>1 DEF TypeOK, Coroutines
  <2>4. WillLook(answer)'
    BY <2>3 DEF WillLook, Answering
  <2>5. faults = 0 => \A g \in active' : task'[g].at \in Registered
    BY <2>1, <2>2, <2>3 DEF AliveInv, TypeOK, Task, Registered
  <2>6. QED
    BY <2>1, <2>4, <2>5, AliveWitness
<1>16. ASSUME NEW g \in Gen, NEW d \in Sub, Delegate(g, d) PROVE AliveInv'
  BY <1>16, AliveGo DEF Delegate, Task, Answering, Registered
<1>17. ASSUME NEW d \in Sub, Insert(d) PROVE AliveInv'
  <2>1. d \in Task /\ task[d].at = "idle" /\ d \notin active
    BY <1>17 DEF Insert, CallsInv, At, Task, TypeOK
  <2>2. \A j \in Task \ {d} : task'[j] = task[j]
    BY <1>17 DEF Insert, TypeOK
  <2>3. \A j \in Task : WillLook(j) => WillLook(j)'
    BY <2>1, <2>2 DEF WillLook, Answering, Pump
  <2>4. UNCHANGED <<faults, hist, active>>
    BY <1>17 DEF Insert
  <2>5. faults = 0 => \A g \in active' : task'[g].at \in Registered
    BY <2>1, <2>2, <2>4 DEF AliveInv, TypeOK, Task
  <2>6. QED
    BY <2>3, <2>4, <2>5, AliveQuiet
<1>18. ASSUME NEW d \in Sub, Saved(d) \/ Return(d) PROVE AliveInv'
  <2>1. Caller(d) \in Task
    BY <1>18 DEF Saved, Return, CallsInv, Open, Task
  <2>2. UNCHANGED <<faults, hist, active>> /\ (UNCHANGED task \/ Go(Caller(d), "run"))
    BY <1>18 DEF Saved, Return
  <2>3. CASE UNCHANGED task
    BY <2>2, <2>3, AliveQuiet DEF AliveInv, WillLook
  <2>4. CASE Go(Caller(d), "run")
    BY <2>1, <2>2, <2>4, AliveGo DEF Answering, Registered
  <2>5. QED
    BY <2>2, <2>3, <2>4
<1>19. ASSUME NEW d \in Sub, Worked(d) PROVE AliveInv'
  <2>1. /\ d \in Task /\ d \notin active /\ task[d].at = "work" /\ UNCHANGED <<faults, hist, active>>
        /\ IF call[d].background THEN Go(d, "put") ELSE Leave(d)
    BY <1>19 DEF Worked, At, Task, TypeOK
  <2>2. ~WillLook(d) /\ task[d].at \notin Registered
    BY <2>1 DEF WillLook, Answering, Pump, Registered
  <2>3. QED
    BY <2>1, <2>2, AliveGo, AliveLeave DEF WillLook
<1>20. ASSUME NEW d \in Sub, PutSelect(d) PROVE AliveInv'
  <2>1. /\ d \in Task /\ d \notin active /\ task[d].at = "put" /\ UNCHANGED <<faults, hist, active>>
        /\ \A j \in Task \ {d} : task'[j] = task[j]
    BY <1>20 DEF PutSelect, At, Task, TypeOK
  <2>2. \A j \in Task : WillLook(j) => WillLook(j)'
    BY <2>1 DEF WillLook, Answering, Pump
  <2>3. faults = 0 => \A g \in active' : task'[g].at \in Registered
    BY <2>1 DEF AliveInv, TypeOK, Task
  <2>4. QED
    BY <2>1, <2>2, <2>3, AliveQuiet
<1>21. ASSUME NEW d \in Sub, PutCommit(d) PROVE AliveInv'
  <2>1. /\ d \in Task /\ d \notin active /\ UNCHANGED <<faults, active>>
        /\ \A j \in Task \ {d} : task'[j] = task[j]
        /\ task'[d].at = "told"
    BY <1>21 DEF PutCommit, Task, TypeOK, Coroutines
  <2>2. WillLook(d)'
    BY <2>1 DEF WillLook
  <2>3. faults = 0 => \A g \in active' : task'[g].at \in Registered
    BY <2>1 DEF AliveInv, TypeOK, Task
  <2>4. QED
    BY <2>1, <2>2, <2>3, AliveWitness
<1>22. ASSUME NEW d \in Sub, PutCheck(d) PROVE AliveInv'
  <2>1. /\ UNCHANGED <<faults, hist, active>> /\ d \in Task /\ d \notin active
        /\ task[d].at \notin Registered
        /\ IF active = {} THEN Go(d, "wait") ELSE Leave(d)
    BY <1>22 DEF PutCheck, At, Registered, Task, TypeOK
  <2>2. QED
    BY <2>1, AliveGo, AliveLeave DEF Pump
<1>23. ASSUME NEW d \in Sub, InsertFails(d) \/ InsertCancelled(d) \/ SaveFails(d) PROVE AliveInv'
  BY <1>1, <1>23 DEF InsertFails, InsertCancelled, SaveFails
<1>24. ASSUME NEW k \in Task, Dies(k) PROVE AliveInv'
  BY <1>1, <1>24 DEF Dies
<1>25. ASSUME NEW p \in Proc, Crash(p) PROVE AliveInv'
  BY <1>1, <1>25 DEF Crash
<1>26. CASE UNCHANGED vars
  BY <1>26, AliveQuiet DEF vars, AliveInv, WillLook
<1>27. QED
  BY <1>3, <1>4, <1>5, <1>6, <1>7, <1>8, <1>9, <1>10, <1>11, <1>12, <1>13, <1>14, <1>15, <1>16,
     <1>17, <1>18, <1>19, <1>20, <1>21, <1>22, <1>23, <1>24, <1>25, <1>26
     DEF Next, GenStep, PumpStep, PutStep, CallStep

-----------------------------------------------------------------------------
(* Slots are accounted for *)

SlotsInv ==
    faults = 0 =>
      \A p \in Proc : /\ used[p] = Holding(p, TRUE)
                      /\ IsFiniteSet(Holding(p, FALSE))
                      /\ permits[p] + Cardinality(Holding(p, FALSE)) = MaxConcurrent

\* Whoever has a slot keeps it, and nobody gets one.
SlotsKept ==
    \A d \in Sub : /\ call'[d].background = call[d].background
                   /\ \A p \in Proc : HasSlot(d, p)' <=> HasSlot(d, p)

LEMMA SlotsSame ==
    ASSUME SlotsInv, UNCHANGED <<used, permits, faults>>, SlotsKept
    PROVE  SlotsInv'
<1>1. \A p \in Proc, b \in BOOLEAN : Holding(p, b)' = Holding(p, b)
  BY DEF Holding, SlotsKept
<1>2. QED
  BY <1>1 DEF SlotsInv

\* Coroutines move that neither work nor wait for a call.
LEMMA SlotsQuiet ==
    ASSUME TypeOK, CallsInv, SlotsInv, UNCHANGED <<call, used, permits, faults>>,
           \A k \in Task : \/ task'[k] = task[k]
                           \/ task[k].at \notin {"work", "call"} /\ task'[k].at # "work"
    PROVE  SlotsInv'
<1>1. ASSUME NEW d \in Sub, NEW p \in Proc PROVE HasSlot(d, p)' <=> HasSlot(d, p)
  <2>1. d \in Task /\ call'[d] = call[d] /\ Caller(d)' = Caller(d)
    BY DEF Task, Caller
  <2>2. (At(d, "work") /\ task[d].proc = p)' <=> (At(d, "work") /\ task[d].proc = p)
    BY <2>1 DEF At
  <2>3. call[d].at = "insert" => task'[Caller(d)] = task[Caller(d)]
    BY DEF CallsInv, Open, At, Task
  <2>4. QED
    BY <2>1, <2>2, <2>3 DEF HasSlot
<1>2. QED
  BY <1>1, SlotsSame DEF SlotsKept

LEMMA SlotsOne ==
    ASSUME TypeOK, CallsInv, SlotsInv, UNCHANGED <<call, used, permits, faults>>,
           NEW k \in Task, task[k].at \notin {"work", "call"}, NEW new, new.at # "work",
           task' = [task EXCEPT ![k] = new]
    PROVE  SlotsInv'
<1>1. \A j \in Task : task'[j] = IF j = k THEN new ELSE task[j]
  BY DEF TypeOK
<1>2. QED
  BY <1>1, SlotsQuiet

LEMMA SlotsGo ==
    ASSUME TypeOK, CallsInv, SlotsInv, UNCHANGED <<call, used, permits, faults>>,
           NEW k \in Task, task[k].at \notin {"work", "call"},
           \/ Leave(k)
           \/ \E there \in Where \ {"work"} : Go(k, there)
    PROVE  SlotsInv'
<1>1. CASE Leave(k)
  BY <1>1, Constructors, SlotsOne DEF Leave
<1>2. ASSUME NEW there \in Where \ {"work"}, Go(k, there) PROVE SlotsInv'
  <2> DEFINE new == [task[k] EXCEPT !.at = there]
  <2>1. task' = [task EXCEPT ![k] = new] /\ new.at = there
    BY <1>2 DEF Go, TypeOK, Coroutines
  <2> HIDE DEF new
  <2>2. QED
    BY <2>1, SlotsOne
<1>3. QED
  BY <1>1, <1>2

\* The caller of d goes on: no other call waits for it.
LEMMA OthersKeep ==
    ASSUME TypeOK, CallsInv, NEW d \in Sub, Open(d), NEW c \in Sub \ {d}, NEW p \in Proc, NEW new,
           call'[c] = call[c],
           task' = [task EXCEPT ![Caller(d)] = new]
    PROVE  HasSlot(c, p)' <=> HasSlot(c, p)
<1>1. Caller(d) \in Gen /\ c \in Task /\ c # Caller(d) /\ Caller(c)' = Caller(c)
  BY DEF CallsInv, Task, Caller
<1>2. task'[c] = task[c]
  BY <1>1 DEF TypeOK
<1>3. call[c].at = "insert" => task'[Caller(c)] = task[Caller(c)]
  <2> SUFFICES ASSUME call[c].at = "insert" PROVE task'[Caller(c)] = task[Caller(c)]
    OBVIOUS
  <2>1. Open(c) /\ Caller(c) # Caller(d) /\ Caller(c) \in Task
    BY DEF CallsInv, Open, Task
  <2>2. QED
    BY <2>1 DEF TypeOK
<1>4. QED
  BY <1>1, <1>2, <1>3 DEF HasSlot, At

LEMMA SlotsDelegate ==
    ASSUME TypeOK, CallsInv, PlacesInv, SlotsInv, NEW g \in Gen, NEW d \in Sub, Delegate(g, d)
    PROVE  SlotsInv'
<1> DEFINE p == task[g].proc
<1>1. PICK b \in BOOLEAN :
        /\ IF b
           THEN used' = [used EXCEPT ![p] = @ \cup {d}] /\ UNCHANGED permits
           ELSE /\ permits[p] > 0
                /\ permits' = [permits EXCEPT ![p] = @ - 1]
                /\ UNCHANGED used
        /\ call' = [call EXCEPT ![d] = [at |-> "insert", by |-> g, background |-> b]]
  BY DEF Delegate
<1>2. /\ At(g, "run") /\ call[d].at = "none" /\ Go(g, "call") /\ faults' = faults
      /\ g \in Task /\ d \in Task /\ d # g
  BY DEF Delegate, Task
<1>3. p \in Proc /\ p # NoProc
  BY <1>2 DEF PlacesInv, At
<1>4. /\ \A k \in Task \ {g} : task'[k] = task[k]
      /\ task'[g].proc = p
  BY <1>2 DEF Go, TypeOK, Coroutines
<1>5. /\ call'[d] = [at |-> "insert", by |-> g, background |-> b]
      /\ \A c \in Sub \ {d} : call'[c] = call[c]
  BY <1>1 DEF TypeOK
<1> HIDE DEF p
<1>6. \A q \in Proc : ~HasSlot(d, q) /\ (HasSlot(d, q)' <=> q = p)
  <2>1. At(d, "idle") /\ At(d, "idle")'
    BY <1>2, <1>4 DEF CallsInv, At
  <2>2. QED
    BY <1>2, <1>4, <1>5, <2>1 DEF HasSlot, At, Caller
<1>7. ASSUME NEW c \in Sub \ {d}, NEW q \in Proc PROVE HasSlot(c, q)' <=> HasSlot(c, q)
  <2>1. c \in Task /\ c # g /\ task'[c] = task[c] /\ call'[c] = call[c] /\ Caller(c)' = Caller(c)
    BY <1>4, <1>5 DEF Task, Caller
  <2>2. call[c].at = "insert" => task'[Caller(c)] = task[Caller(c)]
    BY <1>2, <1>4 DEF CallsInv, Open, At, Task
  <2>3. QED
    BY <2>1, <2>2 DEF HasSlot, At
<1>8. \A q \in Proc, e \in BOOLEAN :
        Holding(q, e)' = IF q = p /\ e = b THEN Holding(q, e) \cup {d} ELSE Holding(q, e)
  BY <1>5, <1>6, <1>7 DEF Holding
<1>9. \A q \in Proc, e \in BOOLEAN : d \notin Holding(q, e)
  BY <1>6 DEF Holding
<1>10. SUFFICES ASSUME faults = 0, NEW q \in Proc
                PROVE  /\ used'[q] = Holding(q, TRUE)'
                       /\ IsFiniteSet(Holding(q, FALSE)')
                       /\ permits'[q] + Cardinality(Holding(q, FALSE)') = MaxConcurrent
  BY <1>2 DEF SlotsInv
<1>11. /\ used[q] = Holding(q, TRUE)
       /\ IsFiniteSet(Holding(q, FALSE))
       /\ permits[q] + Cardinality(Holding(q, FALSE)) = MaxConcurrent
  BY <1>10 DEF SlotsInv
<1>12. used'[q] = Holding(q, TRUE)'
  <2>1. CASE b
    BY <1>1, <1>3, <1>8, <1>11, <2>1 DEF TypeOK
  <2>2. CASE ~b
    BY <1>1, <1>3, <1>8, <1>11, <2>2 DEF TypeOK
  <2>3. QED
    BY <2>1, <2>2
<1>13. CASE ~b /\ q = p
  <2>1. Holding(q, FALSE)' = Holding(q, FALSE) \cup {d} /\ permits'[q] = permits[q] - 1
    BY <1>1, <1>3, <1>8, <1>13 DEF TypeOK
  <2>2. /\ IsFiniteSet(Holding(q, FALSE) \cup {d})
        /\ Cardinality(Holding(q, FALSE) \cup {d}) = Cardinality(Holding(q, FALSE)) + 1
    BY <1>9, <1>11, FS_AddElement
  <2>3. Cardinality(Holding(q, FALSE)) \in Nat /\ permits[q] \in Nat
    BY <1>11, FS_CardinalityType DEF TypeOK
  <2>4. IsFiniteSet(Holding(q, FALSE)')
    BY <2>1, <2>2
  <2>5. Cardinality(Holding(q, FALSE)') = Cardinality(Holding(q, FALSE)) + 1
    BY <2>1, <2>2
  <2>6. permits'[q] + Cardinality(Holding(q, FALSE)') = MaxConcurrent
    <3> DEFINE n == Cardinality(Holding(q, FALSE))
               m == permits[q]
    <3>3. n \in Nat /\ m \in Nat /\ m + n = MaxConcurrent
      BY <1>11, <2>3
    <3> HIDE DEF n, m
    <3>4. (m - 1) + (n + 1) = MaxConcurrent
      BY <3>3
    <3>1. (permits[q] - 1) + (Cardinality(Holding(q, FALSE)) + 1) = MaxConcurrent
      BY <3>4 DEF n, m
    <3>2. QED
      BY <2>1, <2>5, <3>1, Zenon
  <2>7. QED
    BY <1>12, <2>4, <2>6
<1>14. CASE b \/ q # p
  <2>1. Holding(q, FALSE)' = Holding(q, FALSE) /\ permits'[q] = permits[q]
    BY <1>1, <1>3, <1>8, <1>14 DEF TypeOK
  <2>2. QED
    BY <1>11, <1>12, <2>1
<1>15. QED
  BY <1>13, <1>14

LEMMA SlotsWorked ==
    ASSUME TypeOK, CallsInv, PlacesInv, SlotsInv, NEW d \in Sub, Worked(d)
    PROVE  SlotsInv'
<1> DEFINE p == task[d].proc
           b == call[d].background
<1>1. At(d, "work") /\ Release(d, p) /\ call' = call /\ faults' = faults /\ d \in Task
  BY DEF Worked, Task
<1>2. p \in Proc /\ b \in BOOLEAN
  BY <1>1 DEF PlacesInv, At, TypeOK, DelegateCalls
<1>3. \A k \in Task \ {d} : task'[k] = task[k]
  BY DEF Worked, Go, Leave, TypeOK
<1>4. ~At(d, "work")'
  <2>1. CASE b
    BY <2>1, <1>1 DEF Worked, Go, At, TypeOK, Coroutines
  <2>2. CASE ~b
    BY <2>2, <1>1, Constructors DEF Worked, Leave, At, TypeOK
  <2>3. QED
    BY <2>1, <2>2
<1>5. call[d].at # "insert"
  BY <1>1 DEF CallsInv, At
<1>6. \A q \in Proc : (HasSlot(d, q) <=> q = p) /\ ~HasSlot(d, q)'
  BY <1>1, <1>4, <1>5 DEF HasSlot, At
<1>7. ASSUME NEW c \in Sub \ {d}, NEW q \in Proc PROVE HasSlot(c, q)' <=> HasSlot(c, q)
  <2>1. c \in Task /\ task'[c] = task[c] /\ Caller(c)' = Caller(c)
    BY <1>1, <1>3 DEF Task, Caller
  <2>2. call[c].at = "insert" => task'[Caller(c)] = task[Caller(c)]
    BY <1>3 DEF CallsInv, Open, Task
  <2>3. QED
    BY <1>1, <2>1, <2>2 DEF HasSlot, At
<1> HIDE DEF p, b
<1>8. \A q \in Proc, e \in BOOLEAN :
        Holding(q, e)' = IF q = p /\ e = b THEN Holding(q, e) \ {d} ELSE Holding(q, e)
  BY <1>1, <1>6, <1>7 DEF Holding, b
<1>9. d \in Holding(p, b)
  BY <1>2, <1>6 DEF Holding, b
<1>10. SUFFICES ASSUME faults = 0, NEW q \in Proc
                PROVE  /\ used'[q] = Holding(q, TRUE)'
                       /\ IsFiniteSet(Holding(q, FALSE)')
                       /\ permits'[q] + Cardinality(Holding(q, FALSE)') = MaxConcurrent
  BY <1>1 DEF SlotsInv
<1>11. /\ used[q] = Holding(q, TRUE)
       /\ IsFiniteSet(Holding(q, FALSE))
       /\ permits[q] + Cardinality(Holding(q, FALSE)) = MaxConcurrent
  BY <1>10 DEF SlotsInv
<1>12. used'[q] = Holding(q, TRUE)'
  <2>1. CASE b
    <3>1. used' = [used EXCEPT ![p] = used[p] \ {d}] /\ used \in [Proc -> SUBSET Sub]
      BY <1>1, <2>1 DEF TypeOK, Release, b
    <3>2. CASE q = p
      BY <1>2, <1>8, <1>11, <2>1, <3>1, <3>2
    <3>3. CASE q # p
      BY <1>8, <1>11, <3>1, <3>3
    <3>4. QED
      BY <3>2, <3>3
  <2>2. CASE ~b
    <3>1. used' = used
      BY <1>1, <2>2 DEF Release, b
    <3>2. QED
      BY <1>8, <1>11, <2>2, <3>1
  <2>3. QED
    BY <2>1, <2>2
<1>13. CASE ~b /\ q = p
  <2>1. permits'[q] = permits[q] + 1
    BY <1>1, <1>2, <1>13 DEF TypeOK, Release, b
  <2>2. Holding(q, FALSE)' = Holding(q, FALSE) \ {d} /\ d \in Holding(q, FALSE)
    BY <1>2, <1>8, <1>9, <1>13
  <2>3. /\ IsFiniteSet(Holding(q, FALSE) \ {d})
        /\ Cardinality(Holding(q, FALSE) \ {d}) = Cardinality(Holding(q, FALSE)) - 1
    BY <1>11, <2>2, FS_RemoveElement
  <2>4. Cardinality(Holding(q, FALSE)) \in Nat /\ permits[q] \in Nat
    BY <1>11, FS_CardinalityType DEF TypeOK
  <2>5. IsFiniteSet(Holding(q, FALSE)')
    BY <2>2, <2>3
  <2>6. Cardinality(Holding(q, FALSE)') = Cardinality(Holding(q, FALSE)) - 1
    BY <2>2, <2>3
  <2>7. permits'[q] + Cardinality(Holding(q, FALSE)') = MaxConcurrent
    <3> DEFINE n == Cardinality(Holding(q, FALSE))
               m == permits[q]
    <3>3. n \in Nat /\ m \in Nat /\ m + n = MaxConcurrent
      BY <1>11, <2>4
    <3> HIDE DEF n, m
    <3>4. (m + 1) + (n - 1) = MaxConcurrent
      BY <3>3
    <3>1. (permits[q] + 1) + (Cardinality(Holding(q, FALSE)) - 1) = MaxConcurrent
      BY <3>4 DEF n, m
    <3>2. QED
      BY <2>1, <2>6, <3>1, Zenon
  <2>8. QED
    BY <1>12, <2>5, <2>7
<1>14. CASE b \/ q # p
  <2>1. permits'[q] = permits[q]
    BY <1>1, <1>2, <1>14 DEF TypeOK, Release, b
  <2>2. Holding(q, FALSE)' = Holding(q, FALSE)
    BY <1>2, <1>8, <1>14
  <2>3. QED
    BY <1>11, <1>12, <2>1, <2>2
<1>15. QED
  BY <1>13, <1>14

LEMMA SlotsCalls ==
    ASSUME TypeOK, CallsInv, PlacesInv, SlotsInv, NEW d \in Sub, CallStep(d)
    PROVE  SlotsInv'
<1>1. /\ UNCHANGED <<used, permits, faults>>
      /\ \A c \in Sub \ {d} : call'[c] = call[c]
      /\ call'[d].background = call[d].background
      /\ Caller(d)' = Caller(d) /\ Open(d)
  BY DEF CallStep, Insert, Saved, Return, TypeOK, DelegateCalls, Caller, Open
<1>2. d \in Task /\ Caller(d) \in Task /\ d # Caller(d)
  BY <1>1 DEF CallsInv, Task
<1>3. ASSUME NEW new, task' = [task EXCEPT ![Caller(d)] = new],
             call[d].at # "insert", call'[d].at # "insert"
      PROVE  SlotsInv'
  <2>1. \A p \in Proc, c \in Sub \ {d} : HasSlot(c, p)' <=> HasSlot(c, p)
    BY <1>1, <1>3, OthersKeep
  <2>2. task'[d] = task[d]
    BY <1>2, <1>3 DEF TypeOK
  <2>3. \A p \in Proc : HasSlot(d, p)' <=> HasSlot(d, p)
    BY <1>3, <2>2 DEF HasSlot, At
  <2>4. SlotsKept
    BY <1>1, <2>1, <2>3 DEF SlotsKept
  <2>5. QED
    BY <1>1, <2>4, SlotsSame
<1>4. CASE Insert(d)
  <2>1. /\ call[d].at = "insert" /\ call'[d].at = "saving"
        /\ \A k \in Task \ {d} : task'[k] = task[k]
        /\ task'[d].at = "work" /\ task'[d].proc = task[Caller(d)].proc
    BY <1>2, <1>4 DEF Insert, TypeOK, Coroutines, DelegateCalls
  <2>2. ~At(d, "work")
    BY <2>1 DEF CallsInv, At
  <2>3. \A p \in Proc : HasSlot(d, p)' <=> HasSlot(d, p)
    BY <2>1, <2>2 DEF HasSlot, At
  <2>4. ASSUME NEW c \in Sub \ {d}, NEW p \in Proc PROVE HasSlot(c, p)' <=> HasSlot(c, p)
    <3>1. c \in Task /\ task'[c] = task[c] /\ Caller(c)' = Caller(c)
      BY <1>1, <2>1 DEF Task, Caller
    <3>2. call[c].at = "insert" => task'[Caller(c)] = task[Caller(c)]
      BY <2>1 DEF CallsInv, Open, Task
    <3>3. QED
      BY <1>1, <3>1, <3>2 DEF HasSlot, At
  <2>5. SlotsKept
    BY <1>1, <2>3, <2>4 DEF SlotsKept
  <2>6. QED
    BY <1>1, <2>5, SlotsSame
<1>5. CASE Saved(d)
  <2>1. call[d].at # "insert" /\ call'[d].at # "insert"
    BY <1>5 DEF Saved, TypeOK, DelegateCalls
  <2>2. \E new : task' = [task EXCEPT ![Caller(d)] = new]
    <3>1. CASE call[d].background \/ At(d, "over")
      BY <1>5, <3>1 DEF Saved, Go
    <3>2. CASE ~(call[d].background \/ At(d, "over"))
      <4>1. task' = [task EXCEPT ![Caller(d)] = task[Caller(d)]]
        BY <1>2, <1>5, <3>2 DEF Saved, TypeOK
      <4>2. QED
        BY <4>1
    <3>3. QED
      BY <3>1, <3>2
  <2>3. QED
    BY <1>3, <2>1, <2>2
<1>6. CASE Return(d)
  <2>1. call[d].at # "insert" /\ call'[d].at # "insert"
    BY <1>6 DEF Return, TypeOK, DelegateCalls
  <2>2. \E new : task' = [task EXCEPT ![Caller(d)] = new]
    BY <1>6 DEF Return, Go
  <2>3. QED
    BY <1>3, <2>1, <2>2
<1>7. QED
  BY <1>4, <1>5, <1>6 DEF CallStep

LEMMA SlotsStep ==
    TypeOK /\ CallsInv /\ PlacesInv /\ SlotsInv /\ [Next]_vars => SlotsInv'
<1> SUFFICES ASSUME TypeOK, CallsInv, PlacesInv, SlotsInv, [Next]_vars PROVE SlotsInv'
  OBVIOUS
<1> USE DEF slotVars
<1>1. CASE UNCHANGED vars
  BY <1>1, SlotsQuiet DEF vars
<1>2. ASSUME Fault PROVE SlotsInv'
  BY <1>2 DEF Fault, SlotsInv, TypeOK
<1>3. ASSUME NEW p \in Proc, Turn(p) PROVE SlotsInv'
  <2> DEFINE g == CHOOSE g \in Fresh : TRUE
             new == [Idle EXCEPT !.at = "save", !.proc = p, !.seen = hist]
  <2>1. g \in Task /\ At(g, "idle")
    BY <1>3 DEF Turn, Fresh, Task
  <2>2. new.at = "save" /\ task' = [task EXCEPT ![g] = new] /\ UNCHANGED <<call, used, permits, faults>>
    BY <1>3 DEF Turn, Idle
  <2> HIDE DEF g, new
  <2>3. QED
    BY <2>1, <2>2, SlotsOne DEF At
<1>4. ASSUME NEW g \in Gen, Read(g) \/ Start(g) \/ Finish(g) \/ Save(g) \/ FinalSave(g) PROVE SlotsInv'
  <2>1. /\ g \in Task /\ UNCHANGED <<call, used, permits, faults>>
        /\ task[g].at \in {"save", "start", "run", "final"}
    BY <1>4 DEF Read, Start, Finish, Save, FinalSave, At, Task
  <2>2. task[g] \in Coroutines
    BY <2>1 DEF TypeOK
  <2>3. CASE Read(g)
    <3> DEFINE new == [task[g] EXCEPT !.seen = hist]
    <3>1. new.at # "work" /\ task' = [task EXCEPT ![g] = new]
      BY <2>1, <2>2, <2>3 DEF Read, Coroutines
    <3> HIDE DEF new
    <3>2. QED
      BY <2>1, <3>1, SlotsOne
  <2>4. CASE Start(g)
    <3> DEFINE new == [task[g] EXCEPT !.at = "run", !.batch = {}]
    <3>1. new.at # "work" /\ task' = [task EXCEPT ![g] = new]
      BY <2>1, <2>2, <2>4 DEF Start, Coroutines
    <3> HIDE DEF new
    <3>2. QED
      BY <2>1, <3>1, SlotsOne
  <2>5. CASE Finish(g)
    <3> DEFINE new == [task[g] EXCEPT !.at = "final", !.seen = hist]
    <3>1. new.at # "work" /\ task' = [task EXCEPT ![g] = new]
      BY <2>1, <2>2, <2>5 DEF Finish, Coroutines
    <3> HIDE DEF new
    <3>2. QED
      BY <2>1, <3>1, SlotsOne
  <2>6. CASE Save(g)
    <3> DEFINE new == [task[g] EXCEPT !.at = "start", !.seen = NoResults]
    <3>1. new.at # "work" /\ task' = [task EXCEPT ![g] = new]
      BY <2>1, <2>2, <2>6 DEF Save, SaveCopy, Coroutines
    <3> HIDE DEF new
    <3>2. QED
      BY <2>1, <3>1, SlotsOne
  <2>7. CASE FinalSave(g)
    <3> DEFINE new == [task[g] EXCEPT !.at = "cleanup", !.seen = NoResults]
    <3>1. new.at # "work" /\ task' = [task EXCEPT ![g] = new]
      BY <2>1, <2>2, <2>7 DEF FinalSave, SaveCopy, Coroutines
    <3> HIDE DEF new
    <3>2. QED
      BY <2>1, <3>1, SlotsOne
  <2>8. QED
    BY <1>4, <2>3, <2>4, <2>5, <2>6, <2>7
<1>5. ASSUME NEW g \in Gen, Stop(g) PROVE SlotsInv'
  BY <1>5, SlotsQuiet DEF Stop
<1>6. ASSUME NEW g \in Gen, Cleanup(g) \/ Check(g) PROVE SlotsInv'
  <2>1. /\ g \in Task /\ UNCHANGED <<call, used, permits, faults>>
        /\ task[g].at \in {"cleanup", "check"}
        /\ Go(g, "check") \/ Go(g, "wait") \/ Leave(g)
    BY <1>6 DEF Cleanup, Check, At, Task
  <2>2. QED
    BY <2>1, SlotsGo DEF Where, Answering, Pump
<1>7. ASSUME NEW k \in Task, PumpWait(k) \/ PumpLock(k) PROVE SlotsInv'
  <2>1. /\ UNCHANGED <<call, used, permits, faults>>
        /\ task[k].at \in {"wait", "lock"}
        /\ Go(k, "lock") \/ Go(k, "select") \/ Leave(k)
    BY <1>7 DEF PumpWait, PumpLock, At
  <2>2. QED
    BY <2>1, SlotsGo DEF Where, Pump
<1>8. ASSUME NEW k \in Task, PumpSelect(k) PROVE SlotsInv'
  <2>1. UNCHANGED <<call, used, permits, faults>> /\ task[k].at = "select"
    BY <1>8 DEF PumpSelect, At
  <2>2. CASE Leave(k)
    BY <2>1, <2>2, SlotsGo
  <2>3. ASSUME NEW batch,
               task' = [task EXCEPT ![k] = [@ EXCEPT !.at = "commit", !.seen = hist, !.batch = batch]]
        PROVE  SlotsInv'
    <3> DEFINE new == [task[k] EXCEPT !.at = "commit", !.seen = hist, !.batch = batch]
    <3>1. task' = [task EXCEPT ![k] = new] /\ new.at = "commit"
      BY <2>3 DEF TypeOK, Coroutines
    <3> HIDE DEF new
    <3>2. QED
      BY <2>1, <3>1, SlotsOne
  <2>4. QED
    BY <1>8, <2>2, <2>3 DEF PumpSelect
<1>9. ASSUME NEW k \in Task, PumpCommit(k) PROVE SlotsInv'
  <2> DEFINE free == Fresh \cup (Gen \cap {k})
             answer == CHOOSE g \in free : TRUE
             after == [d \in Sub |-> IF d \in task[k].batch THEN "taken" ELSE task[k].seen[d]]
             new == [task[k] EXCEPT !.at = "save", !.seen = after]
  <2>1. UNCHANGED <<call, used, permits, faults>> /\ At(k, "commit")
    BY <1>9 DEF PumpCommit
  <2>2. answer \in Task /\ (answer = k \/ At(answer, "idle"))
    BY <1>9 DEF PumpCommit, Fresh, Task
  <2>3. task' = [task EXCEPT ![k] = IF k \in Gen THEN Idle ELSE Over, ![answer] = new]
    BY <1>9 DEF PumpCommit
  <2>4. new.at = "save"
    BY DEF TypeOK, Coroutines
  <2> HIDE DEF answer, new
  <2>5. \A j \in Task : task'[j] = IF j = answer THEN new
                                  ELSE IF j = k THEN (IF k \in Gen THEN Idle ELSE Over) ELSE task[j]
    BY <2>2, <2>3 DEF TypeOK
  <2>6. \A j \in Task : \/ task'[j] = task[j]
                        \/ task[j].at \notin {"work", "call"} /\ task'[j].at # "work"
    BY <2>1, <2>2, <2>4, <2>5, Constructors DEF At
  <2>7. QED
    BY <2>1, <2>6, SlotsQuiet
<1>10. ASSUME NEW d \in Sub, PutStep(d) PROVE SlotsInv'
  <2>1. /\ d \in Task /\ UNCHANGED <<call, used, permits, faults>>
        /\ task[d].at \in {"put", "write", "told"}
    BY <1>10 DEF PutStep, PutSelect, PutCommit, PutCheck, At, Task
  <2>2. task[d] \in Coroutines
    BY <2>1 DEF TypeOK
  <2>3. CASE PutSelect(d)
    <3> DEFINE new == [task[d] EXCEPT !.at = "write", !.seen = hist]
    <3>1. new.at # "work" /\ task' = [task EXCEPT ![d] = new]
      BY <2>2, <2>3 DEF PutSelect, Coroutines
    <3> HIDE DEF new
    <3>2. QED
      BY <2>1, <3>1, SlotsOne
  <2>4. CASE PutCommit(d)
    <3> DEFINE new == [task[d] EXCEPT !.at = "told", !.seen = NoResults]
    <3>1. new.at # "work" /\ task' = [task EXCEPT ![d] = new]
      BY <2>2, <2>4 DEF PutCommit, Coroutines
    <3> HIDE DEF new
    <3>2. QED
      BY <2>1, <3>1, SlotsOne
  <2>5. CASE PutCheck(d)
    BY <2>1, <2>5, SlotsGo DEF PutCheck, Where, Pump
  <2>6. QED
    BY <1>10, <2>3, <2>4, <2>5 DEF PutStep
<1>11. ASSUME NEW d \in Sub, InsertFails(d) \/ InsertCancelled(d) \/ SaveFails(d) PROVE SlotsInv'
  BY <1>2, <1>11 DEF InsertFails, InsertCancelled, SaveFails
<1>12. ASSUME NEW k \in Task, Dies(k) PROVE SlotsInv'
  BY <1>2, <1>12 DEF Dies
<1>13. ASSUME NEW p \in Proc, Crash(p) PROVE SlotsInv'
  BY <1>2, <1>13 DEF Crash
<1>14. QED
  BY <1>1, <1>3, <1>4, <1>5, <1>6, <1>7, <1>8, <1>9, <1>10, <1>11, <1>12, <1>13,
     SlotsDelegate, SlotsWorked, SlotsCalls
     DEF Next, GenStep, PumpStep

-----------------------------------------------------------------------------
(* The theorems *)

LEMMA InvInit ==
    Init => CallsInv /\ PlacesInv /\ LocksInv /\ ResultsInv /\ AliveInv /\ SlotsInv
<1> SUFFICES ASSUME Init
             PROVE  CallsInv /\ PlacesInv /\ LocksInv /\ ResultsInv /\ AliveInv /\ SlotsInv
  OBVIOUS
<1>1. /\ \A k \in Task : task[k] = Idle
      /\ \A d \in Sub : call[d] = NoCall /\ hist[d] = "none" /\ takes[d] = 0 /\ d \in Task
      /\ active = {}
  BY DEF Init, Task, NoResults
<1>2. NoCall.at = "none"
  BY DEF NoCall
<1>3. CallsInv
  BY <1>1, <1>2, Constructors DEF CallsInv, Open, At
<1>4. PlacesInv
  BY <1>1, Constructors DEF PlacesInv
<1>5. LocksInv
  BY <1>1, Constructors DEF LocksInv, HoldsAs, InTransaction
<1>6. ResultsInv
  BY <1>1, Constructors DEF ResultsInv, At
<1>7. AliveInv
  BY <1>1 DEF AliveInv, Pending
<1>8. SlotsInv
  <2>1. \A p \in Proc, b \in BOOLEAN : Holding(p, b) = {}
    BY <1>1, <1>2, Constructors DEF Holding, HasSlot, At
  <2>2. \A p \in Proc : used[p] = {} /\ permits[p] = MaxConcurrent
    BY DEF Init
  <2>3. ASSUME NEW p \in Proc
        PROVE  /\ used[p] = Holding(p, TRUE)
               /\ IsFiniteSet(Holding(p, FALSE))
               /\ permits[p] + Cardinality(Holding(p, FALSE)) = MaxConcurrent
    <3>1. IsFiniteSet({}) /\ Cardinality({}) = 0
      BY FS_EmptySet
    <3>2. Holding(p, TRUE) = {} /\ Holding(p, FALSE) = {} /\ used[p] = {} /\ permits[p] = MaxConcurrent
      BY <2>1, <2>2
    <3>3. MaxConcurrent + 0 = MaxConcurrent
      OBVIOUS
    <3>4. QED
      BY <3>1, <3>2, <3>3
  <2>4. QED
    BY <2>3 DEF SlotsInv
<1>9. QED
  BY <1>3, <1>4, <1>5, <1>6, <1>7, <1>8

\* The variables keep their types, the calls their callers and the coroutines
\* their processes (subagents.py and process_chat).
THEOREM TypesAndCalls == Spec => [](TypeOK /\ CallsInv /\ PlacesInv)
<1>1. Init => TypeOK /\ CallsInv /\ PlacesInv
  BY TypeInit, InvInit
<1>2. TypeOK /\ CallsInv /\ PlacesInv /\ [Next]_vars => (TypeOK /\ CallsInv /\ PlacesInv)'
  BY TypeStep, CallsPlacesStep
<1>3. QED
  BY <1>1, <1>2, PTL DEF Spec

\* Every variable keeps its type.
THEOREM TypeCorrect == Spec => []TypeOK
BY TypesAndCalls, PTL

\* One coroutine of a process holds the lock of the parent chat, and with row
\* locks one transaction of all processes holds its row.
THEOREM LocksHold == Spec => []LocksInv
<1>1. Init => LocksInv
  BY InvInit
<1>2. TypeOK /\ CallsInv /\ PlacesInv /\ LocksInv /\ [Next]_vars => LocksInv'
  BY LocksStep
<1>3. QED
  BY <1>1, <1>2, TypesAndCalls, PTL DEF Spec

\* With row locks, or in a single process, a result of a sub-agent is taken up
\* at most once, unless a stale save of the history has put it back.
THEOREM TakenOnceHolds == ASSUME Guarded PROVE Spec => []TakenOnce
<1>1. Init => ResultsInv
  BY InvInit
<1>2. TypeOK /\ CallsInv /\ PlacesInv /\ LocksInv /\ ResultsInv /\ [Next]_vars => ResultsInv'
  BY ResultsStep
<1>3. ResultsInv => TakenOnce
  BY DEF ResultsInv, TakenOnce
<1>4. QED
  BY <1>1, <1>2, <1>3, TypesAndCalls, LocksHold, PTL DEF Spec

\* Without faults a pending result always has somebody on the way who will look
\* for it, for every number of processes, generations and sub-agents, with or
\* without row locks.
THEOREM NoneForgottenHolds == Spec => []NoneForgotten
<1>1. Init => AliveInv
  BY InvInit
<1>2. TypeOK /\ CallsInv /\ AliveInv /\ [Next]_vars => AliveInv'
  BY AliveStep
<1>3. AliveInv => NoneForgotten
  BY DEF AliveInv, NoneForgotten
<1>4. QED
  BY <1>1, <1>2, <1>3, TypesAndCalls, PTL DEF Spec

\* Without faults every slot is with a call that makes a sub-agent or with a
\* sub-agent at work, for every number of processes, calls and stops.
THEOREM SlotsAccountedHolds == Spec => []SlotsAccounted
<1>1. Init => SlotsInv
  BY InvInit
<1>2. TypeOK /\ CallsInv /\ PlacesInv /\ SlotsInv /\ [Next]_vars => SlotsInv'
  BY SlotsStep
<1>3. SlotsInv => SlotsAccounted
  BY DEF SlotsInv, SlotsAccounted
<1>4. QED
  BY <1>1, <1>2, <1>3, TypesAndCalls, PTL DEF Spec
=============================================================================
