------------------------------ MODULE RedisLock ------------------------------
(***************************************************************************)
(* RedisLock of open_webui/socket/utils.py: a key that holds the id of the *)
(* process that set it, with an expiry.  Each operation is one Redis       *)
(* command or script, hence atomic.  Time is counted in ticks: `ttl` is    *)
(* what is left of the expiry.                                             *)
(***************************************************************************)
EXTENDS Naturals

CONSTANTS
    Proc,           \* the processes; each RedisLock object has its own lock_id
    NoProc,         \* no key
    LockTimeout     \* timeout_secs, in ticks

ASSUME LockAssumption ==
    /\ NoProc \notin Proc
    /\ LockTimeout \in Nat \ {0}

VARIABLE lock

Free == [owner |-> NoProc, ttl |-> 0]
HeldBy(p) == [owner |-> p, ttl |-> LockTimeout]

LockTypeOK == lock \in [owner : Proc \cup {NoProc}, ttl : 0..LockTimeout]
LockInit == lock = Free

\* aquire_lock: SET NX EX
AcquireLock(p) == lock.owner = NoProc /\ lock' = HeldBy(p)
LockIsTaken == lock.owner # NoProc /\ UNCHANGED lock

\* Mutant: the renewal does not extend the expiry.
RenewLockOnly(p) == lock.owner = p /\ UNCHANGED lock

\* renew_lock: the script extends the expiry if the key is still ours ...
RenewLock(p) == lock.owner = p /\ lock' = HeldBy(p)
\* ... and returns 0 otherwise.
RenewFails(p) == lock.owner # p

\* Mutant: a plain DEL.
ReleaseAnyLock(p) == lock' = Free

\* release_lock: the script deletes the key if it is still ours.
ReleaseLock(p) == lock' = IF lock.owner = p THEN Free ELSE lock

\* Mutant: a key that is not set runs out as well.
LockTickBlind ==
    lock' = IF lock.ttl = 1 THEN Free ELSE [lock EXCEPT !.ttl = @ - 1]

\* One tick: an expiry that runs out removes the key.
LockTick ==
    lock' = IF lock.ttl <= 1 THEN Free ELSE [lock EXCEPT !.ttl = @ - 1]
=============================================================================
