-------------------------------- MODULE Timers --------------------------------
(***************************************************************************)
(* One-shot timers of open_webui/utils/timers.py.  A timer is a hidden     *)
(* child chat; its row holds the status.  The scheduler loop of every      *)
(* process claims the due rows and starts a run for each; a run puts the   *)
(* prompt into the parent chat and calls the completion handler, or gives  *)
(* the timer back when the parent is busy.  Reading the parent or writing  *)
(* to it cancels the timers that ask for it.                               *)
(*                                                                         *)
(* The completion handler (chat_completion of main.py), called by a run or *)
(* by a client, rewrites the whole history of the chat several times       *)
(* before it registers its task, each time from a copy and with no lock.   *)
(*                                                                         *)
(* RowLocks says whether SELECT ... FOR UPDATE locks (PostgreSQL) or is    *)
(* left out (every other database).  A step is what happens between two    *)
(* awaits; a transaction takes effect at its commit.                       *)
(***************************************************************************)
EXTENDS Integers, FiniteSets, Sequences

CONSTANTS
    Proc, Timer, Chat,
    Parents,        \* bound: in which chats the timers are set, a set of functions
    Request,        \* bound: the client requests, each is made once
    ChatOf,         \* bound: ChatOf[q]: the chat request q is made for
    Slot,           \* bound: the claim ids of one timer in use at a time
    NoProc, NoClaim,
    CancelSets,     \* the values of cancel_on
    Limit,          \* timers claimed by one poll
    RowLocks,
    MaxFaults       \* bound: crashes and runs that die of an exception

ASSUME TimersAssumption ==
    /\ Parents \subseteq [Timer -> Chat]
    /\ ChatOf \in [Request -> Chat]
    /\ NoProc \notin Proc
    /\ NoClaim \notin Slot
    /\ CancelSets \subseteq SUBSET {"chat.read", "chat.user_message"}
    /\ Limit \in Nat \ {0}
    /\ RowLocks \in BOOLEAN
    /\ MaxFaults \in Nat

VARIABLES
    parent,         \* parent[t]: the chat timer t is set in
    row,            \* row[t]: status, timer_claim_id and cancel_on of the row of t
    due,            \* the timers whose time has come, by timer_at
    claim,          \* claim[p]: the transaction of p's claim_due_timers
    run,            \* run[t][k]: the execution of t under claim k
    msgs,           \* msgs[c]: who has a message in the history of chat c
    active,         \* active[c]: the registered tasks of chat c
    req,            \* req[q]: a client request
    fired,          \* fired[t]: how often t's prompt was written (history)
    faults

chats == <<parent, msgs, active>>
vars == <<row, due, claim, run, chats, req, fired, faults>>

Message == Timer \cup Request
Final == {"completed", "cancelled", "error"}
\* Where a run holds the parent's asyncio lock, and where its transaction is open.
InTransaction == {"ask", "fire", "requeue"}
HasParent == InTransaction \cup {"select", "upsert"}
BeforeFire == InTransaction \cup {"spawned", "checked", "select"}
\* The completion handler: not writing, or holding a copy of the chat to write back.
InHandler == {"post", "copy"}

NoRun == [at |-> "idle", proc |-> NoProc, seen |-> {}]
NoBatch == [held |-> {}, batch |-> {}]

Rows == [status : {"none", "pending", "running"} \cup Final, claim : Slot \cup {NoClaim},
         cancelOn : SUBSET {"chat.read", "chat.user_message"}]
Batches == [held : SUBSET Timer, batch : SUBSET Timer]
Runs == [at : BeforeFire \cup InHandler \cup {"idle", "upsert"}, proc : Proc \cup {NoProc},
         seen : SUBSET Message]
Requests == [at : InHandler \cup {"new", "select", "cancel", "link", "linking", "done"},
             event : {"chat.read", "chat.user_message"},
             seen : SUBSET Message, rows : SUBSET Timer]

TypeOK ==
    /\ parent \in [Timer -> Chat]
    /\ row \in [Timer -> Rows]
    /\ due \in Seq(Timer)
    /\ claim \in [Proc -> Batches]
    /\ run \in [Timer -> [Slot -> Runs]]
    /\ msgs \in [Chat -> SUBSET Message]
    /\ active \in [Chat -> SUBSET Message]
    /\ req \in [Request -> Requests]
    /\ fired \in [Timer -> Nat]
    /\ faults \in 0..MaxFaults

Init ==
    /\ parent \in Parents
    /\ row = [t \in Timer |-> [status |-> "none", claim |-> NoClaim, cancelOn |-> {}]]
    /\ due = <<>>
    /\ claim = [p \in Proc |-> NoBatch]
    /\ run = [t \in Timer |-> [k \in Slot |-> NoRun]]
    /\ msgs = [c \in Chat |-> {}]
    /\ active = [c \in Chat |-> {}]
    /\ req = [q \in Request |-> [at |-> "new", event |-> "chat.read", seen |-> {}, rows |-> {}]]
    /\ fired = [t \in Timer |-> 0]
    /\ faults = 0

-----------------------------------------------------------------------------
(* Setting a timer; its time comes. *)

Create(t) ==
    /\ row[t].status = "none"
    /\ \E events \in CancelSets :
         row' = [row EXCEPT ![t] = [@ EXCEPT !.status = "pending", !.cancelOn = events]]
    /\ UNCHANGED <<due, claim, run, chats, req, fired, faults>>

ComesDue(t) ==
    /\ row[t].status = "pending"
    /\ \A i \in DOMAIN due : due[i] # t
    /\ due' = Append(due, t)
    /\ UNCHANGED <<row, claim, run, chats, req, fired, faults>>

-----------------------------------------------------------------------------
(* The scheduler: claim_due_timers and the runs it starts *)

\* The row is locked by the open transaction of a claim (mutant: no FOR UPDATE).
NeverLocked(t) == FALSE
Locked(t) == RowLocks /\ \E p \in Proc : t \in claim[p].held

\* Mutant: the status is not tested.
PendingOrRunning == {t \in Timer : row[t].status \in {"pending", "running"} /\ ~Locked(t)}
Claimable == {t \in Timer : row[t].status = "pending" /\ ~Locked(t)}

\* The Limit claimable timers that came due first.
Batch ==
    LET before(i) == {j \in 1..(i - 1) : due[j] \in Claimable}
    IN  {due[i] : i \in {j \in DOMAIN due : due[j] \in Claimable /\ Cardinality(before(j)) < Limit}}

ClaimSelect(p) ==
    /\ claim[p] = NoBatch
    /\ Batch # {}
    /\ claim' = [claim EXCEPT ![p] = [held |-> IF RowLocks THEN Claimable ELSE {}, batch |-> Batch]]
    /\ UNCHANGED <<row, due, run, chats, req, fired, faults>>

\* uuid4: a claim id no other row or run of the timer uses.
Unused(t) == {k \in Slot : run[t][k].at = "idle" /\ row[t].claim # k}
NewClaim(t) == CHOOSE k \in Unused(t) : TRUE

ClaimCommit(p) ==
    LET batch == claim[p].batch
    IN  /\ batch # {}
        /\ \A t \in batch : Unused(t) # {}
        /\ row' = [t \in Timer |->
                     IF t \in batch
                     THEN [row[t] EXCEPT !.status = "running", !.claim = NewClaim(t)]
                     ELSE row[t]]
        /\ run' = [t \in Timer |->
                     IF t \in batch
                     THEN [run[t] EXCEPT ![NewClaim(t)] = [NoRun EXCEPT !.at = "spawned", !.proc = p]]
                     ELSE run[t]]
        /\ claim' = [claim EXCEPT ![p] = NoBatch]
        /\ UNCHANGED <<due, chats, req, fired, faults>>

-----------------------------------------------------------------------------
(* execute_due_timer *)

Go(t, k, at) == run' = [run EXCEPT ![t][k].at = at]
End(t, k) == run' = [run EXCEPT ![t][k] = NoRun]

\* Another run of the process is in the critical section of the lock.
TimerLockTaken(t, k) ==
    \E j \in Slot \ {k} : /\ run[t][j].proc = run[t][k].proc
                          /\ run[t][j].at \notin {"idle", "spawned"}
ParentLockTaken(t, k) ==
    \E u \in Timer, j \in Slot :
        /\ <<u, j>> # <<t, k>>
        /\ parent[u] = parent[t]
        /\ run[u][j].proc = run[t][k].proc
        /\ run[u][j].at \in HasParent

\* The row of chat c is locked by the open transaction of a run (mutant: never).
NoRowLock(c) == FALSE
ChatLocked(c) ==
    RowLocks /\ \E t \in Timer, k \in Slot : parent[t] = c /\ run[t][k].at \in InTransaction

RunCheck(t, k) ==
    /\ run[t][k].at = "spawned"
    /\ ~TimerLockTaken(t, k)
    /\ IF row[t].status = "running" /\ row[t].claim = k THEN Go(t, k, "checked") ELSE End(t, k)
    /\ UNCHANGED <<row, due, claim, chats, req, fired, faults>>

\* Mutant: the message of the error is taken for the status.
RunErrorSwapped(t, k) ==
    /\ run[t][k].at \in {"checked", "select"}
    /\ row' = [row EXCEPT ![t].status = "parent chat no longer exists"]
    /\ End(t, k)
    /\ UNCHANGED <<due, claim, chats, req, fired, faults>>

\* The parent, the prompt, the user or the model is gone.
RunError(t, k) ==
    /\ run[t][k].at \in {"checked", "select"}
    /\ row' = [row EXCEPT ![t].status = "error"]
    /\ End(t, k)
    /\ UNCHANGED <<due, claim, chats, req, fired, faults>>

RunLock(t, k) ==
    /\ run[t][k].at = "checked"
    /\ ~ParentLockTaken(t, k)
    /\ Go(t, k, "select")
    /\ UNCHANGED <<row, due, claim, chats, req, fired, faults>>

RunSelect(t, k) ==
    /\ run[t][k].at = "select"
    /\ ~ChatLocked(parent[t])
    /\ run' = [run EXCEPT ![t][k] = [@ EXCEPT !.at = "ask", !.seen = msgs[parent[t]]]]
    /\ UNCHANGED <<row, due, claim, chats, req, fired, faults>>

RunAsk(t, k) ==
    /\ run[t][k].at = "ask"
    /\ Go(t, k, IF active[parent[t]] = {} THEN "fire" ELSE "requeue")
    /\ UNCHANGED <<row, due, claim, chats, req, fired, faults>>

\* Mutant: the status is not put back.
RunForget(t, k) ==
    /\ run[t][k].at = "requeue"
    /\ row' = [row EXCEPT ![t].claim = NoClaim]
    /\ End(t, k)
    /\ UNCHANGED <<due, claim, chats, req, fired, faults>>

\* The parent is busy: the timer goes back, whatever its row says by now.
RunRequeue(t, k) ==
    /\ run[t][k].at = "requeue"
    /\ row' = [row EXCEPT ![t] = [@ EXCEPT !.status = "pending", !.claim = NoClaim]]
    /\ End(t, k)
    /\ UNCHANGED <<due, claim, chats, req, fired, faults>>

\* The prompt and the placeholder of the answer enter the history that was read.
RunFire(t, k) ==
    /\ run[t][k].at = "fire"
    /\ row' = [row EXCEPT ![t].status = "completed"]
    /\ msgs' = [msgs EXCEPT ![parent[t]] = run[t][k].seen \cup {t}]
    /\ fired' = [fired EXCEPT ![t] = @ + 1]
    /\ Go(t, k, "upsert")
    /\ UNCHANGED <<due, claim, parent, active, req, faults>>

RunUpsert(t, k) ==
    /\ run[t][k].at = "upsert"
    /\ Go(t, k, "post")
    /\ UNCHANGED <<row, due, claim, chats, req, fired, faults>>

-----------------------------------------------------------------------------
(* The completion handler, up to the registration of its task.  It writes    *)
(* the fields of the chat, the user message, the links of both its sides and *)
(* the placeholder of the answer, each time the whole history as it has read *)
(* it before an await.  The model keeps that some of these writes add the    *)
(* message and others do not, and leaves their number and order open.        *)

\* The history of chat c becomes a copy read before, with what is added to that.
WriteBack(c, copy, added) ==
    /\ ~ChatLocked(c)
    /\ msgs' = [msgs EXCEPT ![c] = copy \cup added]

HandlerRead(t, k) ==
    /\ run[t][k].at = "post"
    /\ run' = [run EXCEPT ![t][k] = [@ EXCEPT !.at = "copy", !.seen = msgs[parent[t]]]]
    /\ UNCHANGED <<row, due, claim, chats, req, fired, faults>>

HandlerWrite(t, k) ==
    /\ run[t][k].at = "copy"
    /\ \E added \in {{}, {t}} : WriteBack(parent[t], run[t][k].seen, added)
    /\ run' = [run EXCEPT ![t][k] = [@ EXCEPT !.at = "post", !.seen = {}]]
    /\ UNCHANGED <<row, due, claim, parent, active, req, fired, faults>>

\* The task is registered; the parent lock is long released.
RunStart(t, k) ==
    /\ run[t][k].at = "post"
    /\ active' = [active EXCEPT ![parent[t]] = @ \cup {t}]
    /\ End(t, k)
    /\ UNCHANGED <<row, due, claim, parent, msgs, req, fired, faults>>

-----------------------------------------------------------------------------
(* Clients: a message sent to a chat, or a chat read *)

Say(q) ==
    /\ req[q].at = "new"
    /\ req' = [req EXCEPT ![q] = [@ EXCEPT !.at = "post", !.event = "chat.user_message"]]
    /\ UNCHANGED <<row, due, claim, run, chats, fired, faults>>

SayRead(q) ==
    /\ req[q].at \in {"post", "link"}
    /\ req' = [req EXCEPT ![q] = [@ EXCEPT !.at = IF req[q].at = "post" THEN "copy" ELSE "linking",
                                          !.seen = msgs[ChatOf[q]]]]
    /\ UNCHANGED <<row, due, claim, run, chats, fired, faults>>

PutBack(q, from, to, added) ==
    /\ req[q].at = from
    /\ WriteBack(ChatOf[q], req[q].seen, added)
    /\ req' = [req EXCEPT ![q] = [@ EXCEPT !.at = to, !.seen = {}]]

\* The fields of the chat; the message itself, after which the timers that wait
\* for one are cancelled; and then the links and the placeholder.
SayWrite(q) ==
    /\ \/ PutBack(q, "copy", "post", {})
       \/ PutBack(q, "copy", "select", {q})
       \/ \E added \in {{}, {q}} : PutBack(q, "linking", "link", added)
    /\ UNCHANGED <<row, due, claim, run, parent, active, fired, faults>>

Read(q) ==
    /\ req[q].at = "new"
    /\ req' = [req EXCEPT ![q] = [@ EXCEPT !.at = "select", !.event = "chat.read"]]
    /\ UNCHANGED <<row, due, claim, run, chats, fired, faults>>

CancelSelect(q) ==
    /\ req[q].at = "select"
    /\ req' = [req EXCEPT ![q] =
                 [@ EXCEPT !.at = "cancel",
                           !.rows = {t \in Timer : /\ parent[t] = ChatOf[q]
                                                   /\ row[t].status = "pending"
                                                   /\ req[q].event \in row[t].cancelOn}]]
    /\ UNCHANGED <<row, due, claim, run, chats, fired, faults>>

\* Every row is written back as it was read, but cancelled.
CancelRows(q) ==
    /\ row' = [t \in Timer |->
                 IF t \in req[q].rows
                 THEN [row[t] EXCEPT !.status = "cancelled", !.claim = NoClaim]
                 ELSE row[t]]
    /\ req' = [req EXCEPT ![q] =
                 [@ EXCEPT !.at = IF req[q].event = "chat.read" THEN "done" ELSE "link", !.rows = {}]]
    /\ UNCHANGED <<due, claim, run, chats, fired, faults>>

\* Mutant: the update does not wait for the row lock of a claim.
CancelBlindly(q) == req[q].at = "cancel" /\ CancelRows(q)

CancelCommit(q) ==
    /\ req[q].at = "cancel"
    /\ \A t \in req[q].rows : ~Locked(t)
    /\ CancelRows(q)

Answer(q) ==
    /\ req[q].at = "link"
    /\ active' = [active EXCEPT ![ChatOf[q]] = @ \cup {q}]
    /\ req' = [req EXCEPT ![q].at = "done"]
    /\ UNCHANGED <<row, due, claim, run, parent, msgs, fired, faults>>

\* A generation ends and its task leaves the registry.
TaskEnds(c, m) ==
    /\ m \in active[c]
    /\ active' = [active EXCEPT ![c] = @ \ {m}]
    /\ UNCHANGED <<row, due, claim, run, parent, msgs, req, fired, faults>>

-----------------------------------------------------------------------------
(* Faults *)

\* The database or the emit raises inside a run; the task dies with its locks.
RunDies(t, k) ==
    /\ faults < MaxFaults
    /\ faults' = faults + 1
    /\ run[t][k].at # "idle"
    /\ End(t, k)
    /\ UNCHANGED <<row, due, claim, chats, req, fired>>

\* The process goes down and comes back with a scheduler that knows nothing.
Crash(p) ==
    /\ faults < MaxFaults
    /\ faults' = faults + 1
    /\ claim' = [claim EXCEPT ![p] = NoBatch]
    /\ run' = [t \in Timer |-> [k \in Slot |-> IF run[t][k].proc = p THEN NoRun ELSE run[t][k]]]
    /\ UNCHANGED <<row, due, chats, req, fired>>

-----------------------------------------------------------------------------
RunStep(t, k) ==
    \/ RunCheck(t, k) \/ RunError(t, k) \/ RunLock(t, k) \/ RunSelect(t, k) \/ RunAsk(t, k)
    \/ RunRequeue(t, k) \/ RunFire(t, k) \/ RunUpsert(t, k)
    \/ HandlerRead(t, k) \/ HandlerWrite(t, k) \/ RunStart(t, k)

RequestStep(q) ==
    \/ Say(q) \/ SayRead(q) \/ SayWrite(q) \/ Read(q) \/ CancelSelect(q) \/ CancelCommit(q) \/ Answer(q)

Next ==
    \/ \E t \in Timer : Create(t) \/ ComesDue(t)
    \/ \E p \in Proc : ClaimSelect(p) \/ ClaimCommit(p) \/ Crash(p)
    \/ \E t \in Timer, k \in Slot : RunStep(t, k) \/ RunDies(t, k)
    \/ \E q \in Request : RequestStep(q)
    \/ \E c \in Chat, m \in Message : TaskEnds(c, m)

Spec == Init /\ [][Next]_vars

\* The scheduler loop polls for ever and every await of a run is answered.
\* Nothing is promised of clients, of generations or of the clock.
FairSpec ==
    /\ Spec
    /\ \A p \in Proc : WF_claim(ClaimSelect(p) \/ ClaimCommit(p))
    /\ \A t \in Timer : WF_run(\E k \in Slot : RunStep(t, k))

-----------------------------------------------------------------------------
(* Properties *)

Live(t) == {k \in Slot : run[t][k].at # "idle"}

\* A timer has one run at a time, however many schedulers poll, and none while
\* its row can be claimed (FOR UPDATE SKIP LOCKED in claim_due_timers).
OneRun ==
    \A t \in Timer : /\ \A j, k \in Live(t) : j = k
                     /\ row[t].status = "pending" => Live(t) = {}

\* The prompt of a timer is written into the parent chat at most once, through
\* requeues, claims of several processes, stale cancels and faults.
FiresOnce == \A t \in Timer : fired[t] <= 1

\* A cancelled timer that no run holds is never scheduled again: no claim whose
\* select came first writes over the cancel.
CancelledStays ==
    [][\A t \in Timer : row[t].status = "cancelled" /\ Live(t) = {}
                          => row'[t].status = "cancelled"]_vars

\* The transaction of a firing takes no message of others out of the parent chat,
\* although it writes back a whole history read before it asks for active tasks.
\* The writes of the completion handler are not covered: nothing locks them.
FireKeepsMessages ==
    [][\A t \in Timer : fired'[t] # fired[t] => msgs[parent[t]] \subseteq msgs'[parent[t]]]_vars

\* Once all chats have come to rest a due timer fires, is cancelled or fails,
\* unless a fault has taken its run from it.  The rest of its own parent is not
\* enough: timers of busy chats come back before it and fill the limit.
Settled(t) == row[t].status \in Final
RunLost(t) == faults > 0 /\ row[t].status = "running" /\ Live(t) = {}
DueSettles ==
    <>[](\A c \in Chat : active[c] = {}) =>
        \A t \in Timer :
            (row[t].status = "pending" /\ \E i \in DOMAIN due : due[i] = t)
                ~> (Settled(t) \/ RunLost(t))

\* "Set a one-shot timer for this chat": rows, claims, runs and stale cancels
\* make the life of a timer in OneShot.  No scheduler takes up what was closed,
\* what a fault has left "running" or what has fired, and only what one
\* scheduler has taken up fires, or goes back.
Phase(t) ==
    IF fired[t] # 0 THEN "fired"
    ELSE IF Live(t) # {} THEN "running"
    ELSE IF row[t].status = "none" THEN "unset"
    ELSE IF row[t].status = "pending" THEN "waiting"
    ELSE "over"
Promise == INSTANCE OneShot WITH phase <- [t \in Timer |-> Phase(t)], prompts <- fired
IsOneShot == Promise!Spec

\* tools/builtin.py: "cancel_on: Optional events that cancel the timer before it
\* fires".  A timer whose row says cancelled does not fire.
CancelledNeverFires ==
    [][\A t \in Timer : row[t].status = "cancelled" => fired'[t] = fired[t]]_vars
=============================================================================
