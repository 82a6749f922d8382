-------------------------- MODULE SessionPool_proofs --------------------------
(***************************************************************************)
(* Mutual exclusion of the session cleanup, for every number of processes  *)
(* and sessions, when a pass takes less than the expiry of the lock; that  *)
(* no process reaps a refreshed session of its own; and that the entry of  *)
(* a session that is gone is never made young again.                       *)
(***************************************************************************)
EXTENDS SessionPool, TLAPS

USE LockAssumption, PoolAssumption DEF LockAssumption, PoolAssumption

LEMMA Delays ==
    /\ Timeout \in 0..(MaxDelay + ScanTime)
    /\ LockTimeout \in 0..(MaxDelay + ScanTime)
    /\ 0 \in 0..(MaxDelay + ScanTime)
    /\ MaxDelay \in Nat
  BY DEF MaxDelay

LEMMA TouchTyped ==
    ASSUME TypeOK, NEW s \in Session, Touch(s)
    PROVE  /\ pool' \in [Session -> Age \cup {Absent}]
           /\ call' \in [Session -> {"none", "waiting", "changed"}]
  BY DEF TypeOK, Touch, Age

LEMMA DeleteTyped ==
    ASSUME TypeOK, NEW p \in Proc, NEW s \in Session, NEW op, Delete(p, op, s)
    PROVE  /\ pool' \in [Session -> Age \cup {Absent}]
           /\ cpu' \in [Proc -> [op : {"idle", "beat", "leave", "drop", "reap"},
                                  sid : Session \cup {NoSession}]]
  BY DEF TypeOK, Delete, Leave, Idle

LEMMA EnterTyped ==
    ASSUME TypeOK, NEW p \in Proc, NEW s \in Session,
           NEW op \in {"beat", "leave", "drop", "reap"}, Enter(p, op, s)
    PROVE  cpu' \in [Proc -> [op : {"idle", "beat", "leave", "drop", "reap"},
                              sid : Session \cup {NoSession}]]
  BY DEF TypeOK, Enter

\* Every variable keeps its type, for any number of processes and sessions.
THEOREM TypeCorrect == Spec => []TypeOK
<1>1. Init => TypeOK
  BY Delays DEF Init, TypeOK, LockInit, LockTypeOK, Free, Idle, Age
<1>2. TypeOK /\ [Next]_vars => TypeOK'
  <2> SUFFICES ASSUME TypeOK, [Next]_vars PROVE TypeOK'
    OBVIOUS
  <2> USE Delays DEF LockTypeOK, Free, HeldBy
  <2>1. CASE UNCHANGED vars
    BY <2>1 DEF TypeOK, vars, session, loop
  <2>2. ASSUME NEW s \in Session,
               Connect(s) \/ UserJoin(s) \/ HeartbeatRead(s) \/ Disconnect(s) \/ CallAnswered(s)
        PROVE  TypeOK'
    <3>1. Home[s] \in Proc
      OBVIOUS
    <3>2. CASE Connect(s)
      BY <3>2 DEF TypeOK, loop, Connect
    <3>3. CASE UserJoin(s)
      BY <3>3 DEF TypeOK, loop, UserJoin
    <3>4. CASE HeartbeatRead(s)
      BY <3>1, <3>4, EnterTyped DEF TypeOK, session, loop, HeartbeatRead
    <3>5. CASE Disconnect(s)
      BY <3>1, <3>5, EnterTyped DEF TypeOK, loop, Disconnect
    <3>6. CASE CallAnswered(s)
      BY <3>6 DEF TypeOK, loop, CallAnswered
    <3>7. QED
      BY <2>2, <3>2, <3>3, <3>4, <3>5, <3>6
  <2>3. ASSUME NEW s \in Session, Joined(s) PROVE TypeOK'
    BY <2>3, TouchTyped DEF TypeOK, session, loop, Joined
  <2>4. ASSUME NEW s \in Session, HeartbeatWrite(s) PROVE TypeOK'
    BY <2>4, TouchTyped DEF TypeOK, session, loop, HeartbeatWrite, Leave, Idle
  <2>5. ASSUME NEW s \in Session, Disconnected(s) PROVE TypeOK'
    <3>1. Home[s] \in Proc
      OBVIOUS
    <3>2. QED
      BY <2>5, <3>1, DeleteTyped DEF TypeOK, session, loop, Disconnected
  <2>6. ASSUME NEW p \in Proc, NEW s \in Session, CallDrop(p, s) \/ Reap(p, s) PROVE TypeOK'
    BY <2>6, DeleteTyped DEF TypeOK, session, loop, CallDrop, Reap
  <2>7. ASSUME NEW p \in Proc, NEW s \in Session, CallStart(p, s) \/ CallTimeout(p, s) PROVE TypeOK'
    <3>1. CASE CallStart(p, s)
      BY <3>1 DEF TypeOK, loop, CallStart
    <3>2. CASE CallTimeout(p, s)
      BY <3>2, EnterTyped DEF TypeOK, loop, CallTimeout
    <3>3. QED
      BY <2>7, <3>1, <3>2
  <2>8. ASSUME NEW p \in Proc, Acquire(p) \/ Wake(p) \/ ScanDone(p) PROVE TypeOK'
    <3>1. CASE Acquire(p)
      BY <3>1 DEF TypeOK, session, Acquire, AcquireLock, Go
    <3>2. CASE Wake(p)
      BY <3>2 DEF TypeOK, session, Wake, Go
    <3>3. CASE ScanDone(p)
      BY <3>3 DEF TypeOK, session, ScanDone, Go
    <3>4. QED
      BY <2>8, <3>1, <3>2, <3>3
  <2>9. ASSUME NEW p \in Proc, Retry(p) PROVE TypeOK'
    <3>1. PICK d \in (LockTimeout \div 2)..LockTimeout : Go(p, "retry", d)
      BY <2>9 DEF Retry
    <3>2. d \in 0..(MaxDelay + ScanTime)
      BY DEF MaxDelay
    <3>3. QED
      BY <2>9, <3>1, <3>2 DEF TypeOK, session, Retry, LockIsTaken, Go
  <2>10. ASSUME NEW p \in Proc, Renew(p) PROVE TypeOK'
    BY <2>10 DEF TypeOK, session, Renew, RenewLock, Go
  <2>11. ASSUME NEW p \in Proc, LostLock(p) PROVE TypeOK'
    BY <2>11 DEF TypeOK, session, LostLock, ReleaseLock, Go
  <2>12. ASSUME NEW p \in Proc, NEW s \in Session, Keep(p, s) \/ FindExpired(p, s) PROVE TypeOK'
    <3>1. CASE Keep(p, s)
      BY <3>1 DEF TypeOK, session, Keep
    <3>2. CASE FindExpired(p, s)
      BY <3>2, EnterTyped DEF TypeOK, session, FindExpired
    <3>3. QED
      BY <2>12, <3>1, <3>2
  <2>13. ASSUME NEW p \in Proc, LoopDies(p) PROVE TypeOK'
    BY <2>13 DEF TypeOK, session, LoopDies, ReleaseLock, Leave, Idle, Fault
  <2>14. ASSUME NEW p \in Proc, Crash(p) PROVE TypeOK'
    BY <2>14 DEF TypeOK, Crash, Leave, Idle, Go, Fault
  <2>15. CASE Tick
    <3>1. lock' \in [owner : Proc \cup {NoProc}, ttl : 0..LockTimeout]
      <4>1. lock.owner \in Proc \cup {NoProc} /\ lock.ttl \in 0..LockTimeout
        BY DEF TypeOK
      <4>2. CASE lock.ttl <= 1
        BY <2>15, <4>2 DEF Tick, LockTick, Free
      <4>3. CASE ~(lock.ttl <= 1)
        <5>1. lock.ttl - 1 \in 0..LockTimeout
          BY <4>1, <4>3
        <5>2. lock \in [owner : Proc \cup {NoProc}, ttl : 0..LockTimeout]
          BY DEF TypeOK
        <5>3. lock' = [lock EXCEPT !.ttl = lock.ttl - 1]
          BY <2>15, <4>3 DEF Tick, LockTick
        <5>4. QED
          BY <5>1, <5>2, <5>3
      <4>4. QED
        BY <4>2, <4>3
    <3>2. pool' \in [Session -> Age \cup {Absent}]
      BY <2>15 DEF TypeOK, Tick, Age
    <3>3. timer' \in [Proc -> 0..(MaxDelay + ScanTime)]
      BY <2>15 DEF TypeOK, Tick
    <3>4. QED
      BY <2>15, <3>1, <3>2, <3>3 DEF TypeOK, Tick
  <2>16. QED
    <3>1. ASSUME NEW p \in Proc, LoopStep(p) PROVE TypeOK'
      BY <2>6, <2>8, <2>9, <2>10, <2>11, <2>12, <3>1 DEF LoopStep
    <3>2. ASSUME NEW s \in Session, Handler(s) PROVE TypeOK'
      BY <2>3, <2>4, <2>5, <2>6, <3>2 DEF Handler
    <3>3. QED
      BY <2>1, <2>2, <2>7, <2>13, <2>14, <2>15, <3>1, <3>2 DEF Next
<1>3. QED
  BY <1>1, <1>2, PTL DEF Spec

-----------------------------------------------------------------------------
(* One pass at a time *)

\* The part of the type invariant the argument needs.
CoreTypeOK ==
    /\ LockTypeOK
    /\ phase \in [Proc -> {"acquire", "retry", "renew", "scan", "sleep", "dead"}]
    /\ timer \in [Proc -> Nat]

LEMMA CoreTypeCorrect == Spec => []CoreTypeOK
<1>1. TypeOK => CoreTypeOK
  BY Delays DEF TypeOK, CoreTypeOK
<1>2. QED
  BY <1>1, TypeCorrect, PTL

\* A process in a pass holds the lock, with enough of the lease left.
THEOREM LeaseCoversScan ==
    ASSUME ScanTime < LockTimeout
    PROVE  Spec => []ScannerHoldsLock
<1>1. Init => ScannerHoldsLock
  BY DEF Init, ScannerHoldsLock
<1>2. CoreTypeOK /\ ScannerHoldsLock /\ [Next]_vars => ScannerHoldsLock'
  <2> SUFFICES ASSUME CoreTypeOK, ScannerHoldsLock, [Next]_vars,
                      NEW q \in Proc, phase'[q] = "scan"
               PROVE  /\ lock'.owner = q
                      /\ lock'.ttl + timer'[q] >= LockTimeout
                      /\ timer'[q] <= ScanTime
    BY DEF ScannerHoldsLock
  <2> DEFINE Goal == /\ lock'.owner = q
                     /\ lock'.ttl + timer'[q] >= LockTimeout
                     /\ timer'[q] <= ScanTime
  <2> USE DEF CoreTypeOK, LockTypeOK, ScannerHoldsLock, Free, HeldBy, loop, session, Go
  <2>1. CASE UNCHANGED <<lock, loop>>
    BY <2>1
  <2>2. ASSUME NEW p \in Proc, Acquire(p) PROVE Goal
    BY <2>2 DEF Acquire, AcquireLock
  <2>3. ASSUME NEW p \in Proc, Retry(p) PROVE Goal
    BY <2>3 DEF Retry, LockIsTaken
  <2>4. ASSUME NEW p \in Proc, Wake(p) PROVE Goal
    BY <2>4 DEF Wake
  <2>5. ASSUME NEW p \in Proc, Renew(p) PROVE Goal
    BY <2>5 DEF Renew, RenewLock
  <2>6. ASSUME NEW p \in Proc, LostLock(p) PROVE Goal
    BY <2>6 DEF LostLock, ReleaseLock, RenewFails
  <2>7. ASSUME NEW p \in Proc, NEW s \in Session, Keep(p, s) \/ FindExpired(p, s)
        PROVE  Goal
    BY <2>7 DEF Keep, FindExpired
  <2>8. ASSUME NEW p \in Proc, ScanDone(p) PROVE Goal
    BY <2>8 DEF ScanDone
  <2>9. ASSUME NEW p \in Proc, LoopDies(p) PROVE Goal
    BY <2>9 DEF LoopDies, ReleaseLock
  <2>10. ASSUME NEW p \in Proc, Crash(p) PROVE Goal
    BY <2>10 DEF Crash
  <2>11. CASE Tick
    BY <2>11 DEF Tick, LockTick
  <2>12. QED
  BY <2>1, <2>2, <2>3, <2>4, <2>5, <2>6, <2>7, <2>8, <2>9, <2>10, <2>11
     DEF Next, vars, LoopStep, Handler, Connect, UserJoin, HeartbeatRead, Disconnect,
         CallAnswered, Joined, HeartbeatWrite, Disconnected, CallDrop, CallStart,
         CallTimeout, Reap
<1>3. QED
  BY <1>1, <1>2, CoreTypeCorrect, PTL DEF Spec

\* No two processes are in a pass at once.
THEOREM OneScanner ==
    ASSUME ScanTime < LockTimeout
    PROVE  Spec => []AtMostOneScanner
<1>1. ScannerHoldsLock => AtMostOneScanner
  BY DEF ScannerHoldsLock, AtMostOneScanner
<1>2. QED
  BY LeaseCoversScan, <1>1, PTL

-----------------------------------------------------------------------------
(* What a process may delete of its own *)

\* While a process is about to delete an entry of its own, nobody refreshes it.
OwnStaysExpired ==
    \A s \in Session : In(Home[s], "reap", s) => pool[s] = Absent \/ pool[s] > Timeout

\* A process deletes no entry of its own that has been refreshed: no lock is
\* needed for that, only that its handlers wait for the pass.
THEOREM OwnReaps == Spec => OwnReapsOnlyExpired
<1>1. Init => OwnStaysExpired
  BY DEF Init, OwnStaysExpired, In, Idle
<1>2. TypeOK /\ OwnStaysExpired /\ [Next]_vars => OwnStaysExpired'
  <2> SUFFICES ASSUME TypeOK, OwnStaysExpired, [Next]_vars,
                      NEW s \in Session, In(Home[s], "reap", s)'
               PROVE  pool'[s] = Absent \/ pool'[s] > Timeout
    BY DEF OwnStaysExpired, In
  <2> DEFINE Gone == pool'[s] = Absent \/ pool'[s] > Timeout
  <2>h. Home[s] \in Proc
    OBVIOUS
  <2>1. CASE UNCHANGED <<pool, cpu>>
    BY <2>1 DEF OwnStaysExpired, In
  <2>2. ASSUME NEW u \in Session, Joined(u) PROVE Gone
    BY <2>2, <2>h DEF OwnStaysExpired, In, Joined, Touch, Ready, Idle, TypeOK
  <2>3. ASSUME NEW u \in Session, HeartbeatWrite(u) PROVE Gone
    BY <2>3, <2>h DEF OwnStaysExpired, In, HeartbeatWrite, Touch, Leave, Idle, TypeOK
  <2>4. ASSUME NEW u \in Session, NEW p \in Proc, NEW op, Delete(p, op, u) PROVE Gone
    BY <2>4, <2>h DEF OwnStaysExpired, In, Delete, Leave, Idle, TypeOK
  <2>5. ASSUME NEW u \in Session, NEW p \in Proc, NEW op \in {"beat", "leave", "drop"},
               Enter(p, op, u), pool' = pool
        PROVE  Gone
    BY <2>5, <2>h DEF OwnStaysExpired, In, Enter, TypeOK
  <2>6. ASSUME NEW p \in Proc, Leave(p), pool' = pool PROVE Gone
    BY <2>6, <2>h DEF OwnStaysExpired, In, Leave, Idle, TypeOK
  <2>7. ASSUME NEW u \in Session, NEW p \in Proc, FindExpired(p, u) PROVE Gone
    BY <2>7, <2>h DEF OwnStaysExpired, In, FindExpired, Expired, Enter, TypeOK, session
  <2>8. CASE Tick
    BY <2>8 DEF OwnStaysExpired, In, Tick, TypeOK, Age, Absent
  <2>9. QED
    <3>1. ASSUME NEW p \in Proc, LoopStep(p) \/ LoopDies(p) \/ Crash(p) PROVE Gone
      BY <2>1, <2>4, <2>6, <2>7, <3>1
         DEF LoopStep, LoopDies, Crash, Acquire, Retry, Wake, Renew, LostLock, ScanDone, Keep, Reap, session
    <3>2. ASSUME NEW u \in Session, Handler(u) PROVE Gone
      <4>1. Home[u] \in Proc
        OBVIOUS
      <4>2. QED
        BY <2>2, <2>3, <2>4, <3>2, <4>1 DEF Handler, Disconnected, CallDrop
    <3>3. ASSUME NEW u \in Session,
                 Connect(u) \/ UserJoin(u) \/ HeartbeatRead(u) \/ Disconnect(u) \/ CallAnswered(u)
          PROVE  Gone
      <4>1. Home[u] \in Proc
        OBVIOUS
      <4>2. QED
        BY <2>1, <2>5, <3>3, <4>1
           DEF Connect, UserJoin, HeartbeatRead, Disconnect, CallAnswered, session
    <3>4. ASSUME NEW u \in Session, NEW p \in Proc, CallStart(p, u) \/ CallTimeout(p, u) PROVE Gone
      BY <2>1, <2>5, <3>4 DEF CallStart, CallTimeout
    <3>5. QED
      BY <2>1, <2>8, <3>1, <3>2, <3>3, <3>4 DEF Next, vars, session
<1>3. OwnStaysExpired
        => \A p \in Proc, s \in Session :
             Reap(p, s) /\ Home[s] = p => pool[s] = Absent \/ pool[s] > Timeout
  BY DEF OwnStaysExpired, Reap, Delete
<1>4. QED
  BY <1>1, <1>2, <1>3, TypeCorrect, PTL DEF Spec, OwnReapsOnlyExpired

\* "Reap orphaned SESSION_POOL entries that missed heartbeats": of a server
\* with a single process the whole promise holds, because there every session
\* is one of the scanner's own.  The run that refutes ReapsOnlyExpired needs the
\* second process, and neither an overlong pass nor a fault.
THEOREM OneProcessReaps ==
    ASSUME \A p, q \in Proc : p = q
    PROVE  Spec => ReapsOnlyExpired
<1>1. \A p \in Proc, s \in Session : Home[s] = p
  OBVIOUS
<1>2. [\A p \in Proc, s \in Session :
         Reap(p, s) /\ Home[s] = p => pool[s] = Absent \/ pool[s] > Timeout]_vars
        => [\A p \in Proc, s \in Session :
              Reap(p, s) => pool[s] = Absent \/ pool[s] > Timeout]_vars
  BY <1>1
<1>3. QED
  BY <1>2, OwnReaps, PTL DEF OwnReapsOnlyExpired, ReapsOnlyExpired

-----------------------------------------------------------------------------
(* Orphans *)

\* s is gone and none of its handlers will write its entry any more.
Unattended(s) == link[s] = "down" /\ ~join[s] /\ ~In(Home[s], "beat", s)

\* A session once unattended stays so, and its entry only ages or goes.
OrphansAge ==
    [][\A s \in Session : Unattended(s) => Unattended(s)' /\ pool'[s] >= pool[s]]_vars

\* Whoever deletes the entry of s, it is older than any entry then.
LEMMA DeleteAges ==
    ASSUME TypeOK, NEW s \in Session, NEW u \in Session, NEW p \in Proc, NEW op,
           Delete(p, op, u)
    PROVE  pool'[s] >= pool[s] /\ (In(Home[s], "beat", s)' => In(Home[s], "beat", s))
<1>1. pool[s] \in 0..Absent /\ Absent \in Nat
  BY DEF TypeOK, Age, Absent
<1>2. pool' = [pool EXCEPT ![u] = Absent] /\ pool \in [Session -> Age \cup {Absent}]
  BY DEF Delete, TypeOK
<1>3. pool'[s] >= pool[s]
  BY <1>1, <1>2
<1>4. cpu' = [cpu EXCEPT ![p] = Idle] /\ Idle.op # "beat" /\ Home[s] \in Proc
  BY DEF Delete, Leave, Idle
<1>5. DOMAIN cpu = Proc
  BY DEF TypeOK
<1>6. cpu'[Home[s]] = cpu[Home[s]] \/ cpu'[Home[s]] = Idle
  BY <1>4, <1>5
<1>7. QED
  BY <1>3, <1>4, <1>6 DEF In

\* The safety half of OrphanReaped: nothing makes the entry of a session that is
\* gone young again, neither a late handler of another session, nor an event
\* caller, nor the passes of the cleanup, nor a crash; only a join or a heartbeat
\* of its own that was under way when the connection went can still do so.
THEOREM OrphansStayOrphans == Spec => OrphansAge
<1>1. ASSUME TypeOK, [Next]_vars, NEW s \in Session, Unattended(s)
      PROVE  Unattended(s)' /\ pool'[s] >= pool[s]
  <2> DEFINE Kept == Unattended(s)' /\ pool'[s] >= pool[s]
  <2>1. pool[s] \in 0..Absent /\ Absent = Timeout + 2 /\ Home[s] \in Proc
    BY <1>1 DEF TypeOK, Age, Absent
  <2>2. pool[s] >= pool[s]
    BY <2>1
  <2>3. CASE UNCHANGED <<link, join, pool, cpu>>
    BY <1>1, <2>2, <2>3 DEF Unattended, In
  <2>4. ASSUME NEW u \in Session, Connect(u) \/ UserJoin(u) PROVE Kept
    BY <1>1, <2>2, <2>4 DEF Connect, UserJoin, Unattended, In, TypeOK
  <2>5. ASSUME NEW u \in Session, Joined(u) PROVE Kept
    <3>1. u # s
      BY <1>1, <2>5 DEF Joined, Unattended
    <3>2. pool'[s] = pool[s] /\ join'[s] = join[s]
      BY <1>1, <2>5, <3>1 DEF Joined, Touch, TypeOK
    <3>3. link' = link /\ cpu' = cpu
      BY <2>5 DEF Joined
    <3>4. QED
      BY <1>1, <2>2, <3>2, <3>3 DEF Unattended, In
  <2>6. ASSUME NEW u \in Session, HeartbeatWrite(u) PROVE Kept
    <3>1. u # s
      BY <1>1, <2>6 DEF HeartbeatWrite, Unattended
    <3>2. pool'[s] = pool[s]
      BY <1>1, <2>6, <3>1 DEF HeartbeatWrite, Touch, TypeOK
    <3>3. link' = link /\ join' = join /\ Leave(Home[u])
      BY <2>6 DEF HeartbeatWrite
    <3>4. QED
      BY <1>1, <2>1, <2>2, <3>2, <3>3 DEF Unattended, In, Leave, Idle, TypeOK
  <2>7. ASSUME NEW u \in Session, NEW p \in Proc, NEW op, Delete(p, op, u), UNCHANGED <<link, join>>
        PROVE  Kept
    BY <1>1, <2>7, DeleteAges DEF Unattended
  <2>8. ASSUME NEW u \in Session, NEW p \in Proc, NEW op, op # "beat" \/ u # s,
               Enter(p, op, u), UNCHANGED <<link, join, pool>>
        PROVE  Kept
    BY <1>1, <2>1, <2>2, <2>8 DEF Unattended, In, Enter, TypeOK
  <2>9. ASSUME NEW u \in Session, HeartbeatRead(u) PROVE Kept
    <3>1. u # s
      BY <1>1, <2>9 DEF HeartbeatRead, Unattended
    <3>2. Home[u] \in Proc /\ Enter(Home[u], "beat", u) /\ UNCHANGED <<link, join, pool>>
      BY <2>9 DEF HeartbeatRead, session
    <3>3. QED
      BY <2>8, <3>1, <3>2
  <2>10. ASSUME NEW u \in Session, Disconnect(u) PROVE Kept
    <3>1. u # s
      BY <1>1, <2>10 DEF Disconnect, Unattended
    <3>2. link'[s] = link[s] /\ join' = join /\ pool' = pool
      BY <1>1, <2>10, <3>1 DEF Disconnect, TypeOK
    <3>3. cpu' = cpu \/ Enter(Home[u], "leave", u)
      BY <2>10 DEF Disconnect
    <3>4. In(Home[s], "beat", s)' => In(Home[s], "beat", s)
      BY <1>1, <2>1, <3>3 DEF In, Enter, TypeOK
    <3>5. QED
      BY <1>1, <2>2, <3>2, <3>4 DEF Unattended
  <2>11. ASSUME NEW p \in Proc, LoopDies(p) PROVE Kept
    BY <1>1, <2>1, <2>2, <2>11 DEF LoopDies, Unattended, In, Leave, Idle, TypeOK, session
  <2>12. ASSUME NEW p \in Proc, Crash(p) PROVE Kept
    <3>1. link'[s] = link[s] /\ (join'[s] => join[s]) /\ pool' = pool
      BY <1>1, <2>12 DEF Crash, Unattended
    <3>2. In(Home[s], "beat", s)' => In(Home[s], "beat", s)
      BY <1>1, <2>1, <2>12 DEF Crash, Leave, Idle, In, TypeOK
    <3>3. QED
      BY <1>1, <2>2, <3>1, <3>2 DEF Unattended
  <2>13. CASE Tick
    <3>1. pool'[s] = IF pool[s] \in 0..Timeout THEN pool[s] + 1 ELSE pool[s]
      BY <2>13 DEF Tick
    <3>2. pool'[s] >= pool[s]
      BY <2>1, <3>1
    <3>3. UNCHANGED <<link, join, cpu>>
      BY <2>13 DEF Tick
    <3>4. QED
      BY <1>1, <3>2, <3>3 DEF Unattended, In
  <2>14. QED
    <3>1. ASSUME NEW p \in Proc, LoopStep(p) PROVE Kept
      <4>1. CASE UNCHANGED <<session, cpu>>
        BY <2>3, <4>1 DEF session
      <4>2. ASSUME NEW u \in Session, FindExpired(p, u) PROVE Kept
        BY <2>8, <4>2 DEF FindExpired, session
      <4>3. ASSUME NEW u \in Session, Reap(p, u) PROVE Kept
        BY <2>7, <4>3 DEF Reap
      <4>4. QED
        BY <3>1, <4>1, <4>2, <4>3
           DEF LoopStep, Acquire, Retry, Wake, Renew, LostLock, ScanDone, Keep
    <3>2. ASSUME NEW u \in Session, Handler(u) PROVE Kept
      <4>1. Home[u] \in Proc
        OBVIOUS
      <4>2. QED
        BY <2>5, <2>6, <2>7, <3>2, <4>1 DEF Handler, Disconnected, CallDrop
    <3>3. ASSUME NEW u \in Session, CallAnswered(u) PROVE Kept
      BY <2>3, <3>3 DEF CallAnswered
    <3>4. ASSUME NEW u \in Session, NEW p \in Proc, CallStart(p, u) \/ CallTimeout(p, u) PROVE Kept
      BY <2>3, <2>8, <3>4 DEF CallStart, CallTimeout
    <3>5. CASE UNCHANGED vars
      BY <2>3, <3>5 DEF vars, session
    <3>6. QED
      BY <1>1, <2>4, <2>9, <2>10, <2>11, <2>12, <2>13, <3>1, <3>2, <3>3, <3>4, <3>5 DEF Next
<1>2. TypeOK /\ [Next]_vars =>
        [\A s \in Session : Unattended(s) => Unattended(s)' /\ pool'[s] >= pool[s]]_vars
  BY <1>1
<1>3. QED
  BY <1>2, TypeCorrect, PTL DEF Spec, OrphansAge

=============================================================================
