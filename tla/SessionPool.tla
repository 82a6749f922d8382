----------------------------- MODULE SessionPool -----------------------------
(***************************************************************************)
(* SESSION_POOL of open_webui/socket/main.py: one entry per Socket.IO      *)
(* session in a Redis hash shared by all processes, refreshed by           *)
(* heartbeats and reaped by whichever process holds the cleanup lock.      *)
(*                                                                         *)
(* The pool is used through a synchronous client, so within one process a  *)
(* handler is atomic from one await to the next; the other processes run   *)
(* between any two of its Redis commands.  `cpu[p]` is the handler process *)
(* p is in the middle of.                                                  *)
(***************************************************************************)
EXTENDS RedisLock, FiniteSets

CONSTANTS
    Session, NoSession,
    Home,           \* Home[s]: the process that holds the connection of s
    Timeout,        \* SESSION_POOL_TIMEOUT, in ticks
    ScanTime,       \* bound: the ticks one pass over the pool may take
    MaxFaults       \* bound: crashes and deaths of a cleanup loop

ASSUME PoolAssumption ==
    /\ NoSession \notin Session
    /\ Home \in [Session -> Proc]
    /\ Timeout \in Nat \ {0}
    /\ ScanTime \in Nat
    /\ MaxFaults \in Nat

Absent == Timeout + 2               \* no entry
Age == 0..(Timeout + 1)             \* now - last_seen_at, capped
MaxDelay == IF LockTimeout > Timeout THEN LockTimeout ELSE Timeout

VARIABLES
    link,       \* link[s]: the connection
    join,       \* join[s]: a connect or user-join handler awaits the user
    pool,       \* pool[s]: the age of the entry, or Absent
    call,       \* call[s]: an event caller waits for the client's answer
    cpu,        \* cpu[p]: the handler p is in, between two Redis commands
    phase,      \* phase[p]: where p's cleanup loop stands
    timer,      \* timer[p]: the sleep it has left; in a scan, the time spent
    todo,       \* todo[p]: the keys the scan has still to look at
    faults

session == <<link, join, pool, call>>
loop == <<phase, timer, todo>>
vars == <<lock, session, cpu, loop, faults>>

Idle == [op |-> "idle", sid |-> NoSession]

TypeOK ==
    /\ LockTypeOK
    /\ link \in [Session -> {"new", "up", "down"}]
    /\ join \in [Session -> BOOLEAN]
    /\ pool \in [Session -> Age \cup {Absent}]
    /\ call \in [Session -> {"none", "waiting", "changed"}]
    /\ cpu \in [Proc -> [op : {"idle", "beat", "leave", "drop", "reap"},
                         sid : Session \cup {NoSession}]]
    /\ phase \in [Proc -> {"acquire", "retry", "renew", "scan", "sleep", "dead"}]
    /\ timer \in [Proc -> 0..(MaxDelay + ScanTime)]
    /\ todo \in [Proc -> SUBSET Session]
    /\ faults \in 0..MaxFaults

Init ==
    /\ LockInit
    /\ link = [s \in Session |-> "new"]
    /\ join = [s \in Session |-> FALSE]
    /\ pool = [s \in Session |-> Absent]
    /\ call = [s \in Session |-> "none"]
    /\ cpu = [p \in Proc |-> Idle]
    /\ phase = [p \in Proc |-> "acquire"]
    /\ timer = [p \in Proc |-> 0]
    /\ todo = [p \in Proc |-> {}]
    /\ faults = 0

\* p's event loop can start a handler or resume one.
Ready(p) == cpu[p] = Idle /\ phase[p] \notin {"renew", "scan"}
Enter(p, op, s) == cpu' = [cpu EXCEPT ![p] = [op |-> op, sid |-> s]]
Leave(p) == cpu' = [cpu EXCEPT ![p] = Idle]
In(p, op, s) == cpu[p] = [op |-> op, sid |-> s]

\* An entry is written: a waiting event caller will find it changed, unless
\* last_seen_at is still the same second.
Touch(s) ==
    /\ pool' = [pool EXCEPT ![s] = 0]
    /\ call' = [call EXCEPT ![s] = IF @ = "waiting" /\ pool[s] # 0 THEN "changed" ELSE @]

-----------------------------------------------------------------------------
(* connect, user-join, heartbeat, disconnect *)

\* connect: the token is verified against the database and Redis.
Connect(s) ==
    /\ Ready(Home[s])
    /\ link[s] = "new"
    /\ link' = [link EXCEPT ![s] = "up"]
    /\ join' = [join EXCEPT ![s] = TRUE]
    /\ UNCHANGED <<lock, pool, call, cpu, loop, faults>>

UserJoin(s) ==
    /\ Ready(Home[s])
    /\ link[s] = "up"
    /\ ~join[s]
    /\ join' = [join EXCEPT ![s] = TRUE]
    /\ UNCHANGED <<lock, link, pool, call, cpu, loop, faults>>

\* SESSION_POOL[sid] = socket_user, whether or not the session is still there.
Joined(s) ==
    /\ Ready(Home[s])
    /\ join[s]
    /\ Touch(s)
    /\ join' = [join EXCEPT ![s] = FALSE]
    /\ UNCHANGED <<lock, link, cpu, loop, faults>>

\* heartbeat reads the entry ...
HeartbeatRead(s) ==
    /\ Ready(Home[s])
    /\ link[s] = "up"
    /\ pool[s] # Absent
    /\ Enter(Home[s], "beat", s)
    /\ UNCHANGED <<lock, session, loop, faults>>

\* ... and writes it back with a new last_seen_at.
HeartbeatWrite(s) ==
    /\ In(Home[s], "beat", s)
    /\ Touch(s)
    /\ Leave(Home[s])
    /\ UNCHANGED <<lock, link, join, loop, faults>>

\* disconnect: `if sid in SESSION_POOL` ...
Disconnect(s) ==
    /\ Ready(Home[s])
    /\ link[s] = "up"
    /\ link' = [link EXCEPT ![s] = "down"]
    /\ IF pool[s] # Absent THEN Enter(Home[s], "leave", s) ELSE UNCHANGED cpu
    /\ UNCHANGED <<lock, join, pool, call, loop, faults>>

\* A DEL (or KeyError) that ends the handler p is in.
Delete(p, op, s) ==
    /\ In(p, op, s)
    /\ pool' = [pool EXCEPT ![s] = Absent]
    /\ Leave(p)

\* ... `del SESSION_POOL[sid]`
Disconnected(s) ==
    /\ Delete(Home[s], "leave", s)
    /\ UNCHANGED <<lock, link, join, call, loop, faults>>

-----------------------------------------------------------------------------
(* __event_caller__, in whichever process runs the chat *)

CallStart(p, s) ==
    /\ Ready(p)
    /\ call[s] = "none"
    /\ pool[s] # Absent
    /\ call' = [call EXCEPT ![s] = "waiting"]
    /\ UNCHANGED <<lock, link, join, pool, cpu, loop, faults>>

CallAnswered(s) ==
    /\ call[s] # "none"
    /\ link[s] = "up"
    /\ call' = [call EXCEPT ![s] = "none"]
    /\ UNCHANGED <<lock, link, join, pool, cpu, loop, faults>>

\* TimeoutError (after at least one tick): `if SESSION_POOL.get(session_id) == session` ...
CallTimeout(p, s) ==
    /\ Ready(p)
    /\ call[s] # "none"
    /\ call[s] = "waiting" => pool[s] # 0
    /\ call' = [call EXCEPT ![s] = "none"]
    /\ IF call[s] = "waiting" /\ pool[s] # Absent
       THEN Enter(p, "drop", s) ELSE UNCHANGED cpu
    /\ UNCHANGED <<lock, link, join, pool, loop, faults>>

\* ... `del SESSION_POOL[session_id]`
CallDrop(p, s) ==
    /\ Delete(p, "drop", s)
    /\ UNCHANGED <<lock, link, join, call, loop, faults>>

-----------------------------------------------------------------------------
(* periodic_session_pool_cleanup *)

Go(p, ph, delay) ==
    /\ phase' = [phase EXCEPT ![p] = ph]
    /\ timer' = [timer EXCEPT ![p] = delay]

\* session_aquire_func succeeds; the inner loop renews at once.
Acquire(p) ==
    /\ cpu[p] = Idle
    /\ phase[p] \in {"acquire", "retry"}
    /\ timer[p] = 0
    /\ AcquireLock(p)
    /\ Go(p, "renew", 0)
    /\ UNCHANGED <<session, cpu, todo, faults>>

\* Mutant: the loop gives up, as the one of the usage pool does.
RetryGivesUp(p) ==
    /\ cpu[p] = Idle
    /\ phase[p] \in {"acquire", "retry"}
    /\ timer[p] = 0
    /\ LockIsTaken
    /\ Go(p, "dead", 0)
    /\ UNCHANGED <<session, cpu, todo, faults>>

\* It fails: sleep for retry_delay, LockTimeout/2 to LockTimeout.
Retry(p) ==
    /\ cpu[p] = Idle
    /\ phase[p] \in {"acquire", "retry"}
    /\ timer[p] = 0
    /\ LockIsTaken
    /\ \E d \in (LockTimeout \div 2)..LockTimeout : Go(p, "retry", d)
    /\ UNCHANGED <<session, cpu, todo, faults>>

\* asyncio.sleep(SESSION_POOL_TIMEOUT) is over.
Wake(p) ==
    /\ Ready(p)
    /\ phase[p] = "sleep"
    /\ timer[p] = 0
    /\ Go(p, "renew", 0)
    /\ UNCHANGED <<lock, session, cpu, todo, faults>>

\* session_renew_func succeeds and the keys are listed.
Renew(p) ==
    /\ phase[p] = "renew"
    /\ RenewLock(p)
    /\ Go(p, "scan", 0)
    /\ todo' = [todo EXCEPT ![p] = {s \in Session : pool[s] # Absent}]
    /\ UNCHANGED <<session, cpu, faults>>

\* It fails: out of the inner loop, through the finally clause, and on to
\* acquire again.
LostLock(p) ==
    /\ phase[p] = "renew"
    /\ RenewFails(p)
    /\ ReleaseLock(p)
    /\ Go(p, "acquire", 0)
    /\ UNCHANGED <<session, cpu, todo, faults>>

\* Mutant: one tick early.
ExpiredEarly(s) == pool[s] # Absent /\ pool[s] >= Timeout

Expired(s) == pool[s] # Absent /\ pool[s] > Timeout

\* One key: the entry is read, and left alone ...
Keep(p, s) ==
    /\ phase[p] = "scan" /\ cpu[p] = Idle
    /\ s \in todo[p]
    /\ ~Expired(s)
    /\ todo' = [todo EXCEPT ![p] = @ \ {s}]
    /\ UNCHANGED <<lock, session, cpu, phase, timer, faults>>

\* ... or found expired ...
FindExpired(p, s) ==
    /\ phase[p] = "scan" /\ cpu[p] = Idle
    /\ s \in todo[p]
    /\ Expired(s)
    /\ todo' = [todo EXCEPT ![p] = @ \ {s}]
    /\ Enter(p, "reap", s)
    /\ UNCHANGED <<lock, session, phase, timer, faults>>

\* ... and deleted.
Reap(p, s) ==
    /\ Delete(p, "reap", s)
    /\ UNCHANGED <<lock, link, join, call, loop, faults>>

ScanDone(p) ==
    /\ phase[p] = "scan" /\ cpu[p] = Idle
    /\ todo[p] = {}
    /\ Go(p, "sleep", Timeout)
    /\ UNCHANGED <<lock, session, cpu, todo, faults>>

-----------------------------------------------------------------------------
(* Faults and time *)

Fault == faults < MaxFaults /\ faults' = faults + 1

\* A Redis error inside the inner loop: the finally clause releases the lock
\* and the exception ends the cleanup task, which nothing restarts.
LoopDies(p) ==
    /\ phase[p] \in {"renew", "scan"}
    /\ Fault
    /\ ReleaseLock(p)
    /\ phase' = [phase EXCEPT ![p] = "dead"]
    /\ timer' = [timer EXCEPT ![p] = 0]
    /\ todo' = [todo EXCEPT ![p] = {}]
    /\ Leave(p)
    /\ UNCHANGED session

\* Process p restarts: its connections are gone and no disconnect handler ran.
Crash(p) ==
    /\ Fault
    /\ link' = [s \in Session |->
                  IF Home[s] = p /\ link[s] = "up" THEN "down" ELSE link[s]]
    /\ join' = [s \in Session |-> Home[s] # p /\ join[s]]
    /\ Leave(p)
    /\ Go(p, "acquire", 0)
    /\ todo' = [todo EXCEPT ![p] = {}]
    /\ UNCHANGED <<lock, pool, call>>

\* One tick.  A pass over the pool takes at most ScanTime of them.
Tick ==
    /\ \A p \in Proc : phase[p] \in {"renew", "scan"} => timer[p] < ScanTime
    /\ LockTick
    /\ pool' = [s \in Session |->
                  IF pool[s] \in 0..Timeout THEN pool[s] + 1 ELSE pool[s]]
    /\ timer' = [p \in Proc |->
                   IF phase[p] \in {"renew", "scan"} THEN timer[p] + 1
                   ELSE IF timer[p] > 0 THEN timer[p] - 1 ELSE 0]
    /\ UNCHANGED <<link, join, call, cpu, phase, todo, faults>>

-----------------------------------------------------------------------------
LoopStep(p) ==
    \/ Acquire(p) \/ Retry(p) \/ Wake(p) \/ Renew(p) \/ LostLock(p) \/ ScanDone(p)
    \/ \E s \in Session : Keep(p, s) \/ FindExpired(p, s) \/ Reap(p, s)

Handler(s) ==
    \/ Joined(s) \/ HeartbeatWrite(s) \/ Disconnected(s)
    \/ \E p \in Proc : CallDrop(p, s)

Next ==
    \/ \E s \in Session :
         \/ Connect(s) \/ UserJoin(s) \/ HeartbeatRead(s) \/ Disconnect(s)
         \/ CallAnswered(s) \/ Handler(s)
         \/ \E p \in Proc : CallStart(p, s) \/ CallTimeout(p, s)
    \/ \E p \in Proc : LoopStep(p) \/ LoopDies(p) \/ Crash(p)
    \/ Tick

Spec == Init /\ [][Next]_vars

\* Time passes and handlers that have started finish.  The event loop serves
\* its ready callbacks first in, first out, so heartbeats do not starve a
\* cleanup loop: hence strong fairness for it.  No client is obliged to
\* connect, to beat or to leave.
Fairness ==
    /\ WF_vars(Tick)
    /\ \A s \in Session : WF_vars(Handler(s))
    /\ \A p \in Proc : SF_vars(LoopStep(p))

FairSpec == Spec /\ Fairness

-----------------------------------------------------------------------------
(* Properties *)

\* As long as a pass takes less than the expiry of the lock, no two processes
\* are in a pass at once, although nobody's lock outlives the sleep between
\* two passes.
AtMostOneScanner ==
    \A p, q \in Proc : phase[p] = "scan" /\ phase[q] = "scan" => p = q

\* Why: a pass runs under a lease that is still its own and has not run down
\* further than the pass has taken.
ScannerHoldsLock ==
    \A p \in Proc : phase[p] = "scan" =>
        lock.owner = p /\ lock.ttl + timer[p] >= LockTimeout /\ timer[p] <= ScanTime

\* "Reap orphaned SESSION_POOL entries that missed heartbeats": the cleanup
\* never deletes an entry that has been refreshed.
ReapsOnlyExpired ==
    [][\A p \in Proc, s \in Session :
         Reap(p, s) => pool[s] = Absent \/ pool[s] > Timeout]_vars

\* Nor does a process ever delete the refreshed entry of a session of its own:
\* the pass excludes its own handlers.
OwnReapsOnlyExpired ==
    [][\A p \in Proc, s \in Session :
         Reap(p, s) /\ Home[s] = p => pool[s] = Absent \/ pool[s] > Timeout]_vars

\* The entry of a session that is gone (its disconnect handler lost a race, or
\* its process died) is reaped in the end, as long as one loop is alive.
OrphanReaped ==
    \A s \in Session : link[s] = "down" ~> pool[s] = Absent
=============================================================================
