# Cora (Open WebUI) in TLA+

Cora is a self-hosted chat platform: a FastAPI and Socket.IO server
(`backend/open_webui`), a Svelte client, a SQL database and, when several
processes serve one installation, Redis. This directory holds TLA+ models of
the parts of the server in which processes, event-loop tasks, clients and
failures meet, the TLC configurations that check them on small instances, and
theorems that TLAPS proves for every instance.

Paths are relative to `src/backend/open_webui/` unless they start with `src/`.

## Contents

| Module | Models | Checked by | Proved in |
|---|---|---|---|
| `RedisLock` | `socket/utils.py` `RedisLock` | `session` (through `SessionPool`) | `SessionPool_proofs` |
| `TaskRegistry` | `tasks.py` with Redis, and how `main.py` uses it | `registry`, `registry_drop_race` | `TaskRegistry_proofs` |
| `LocalTasks` | `tasks.py` without Redis | `local`, `local_skip_self` | `LocalTasks_proofs` |
| `SessionPool` (extends `RedisLock`) | the session pool of `socket/main.py` | `session`, `session_refresh_race` | `SessionPool_proofs` |
| `Ydoc` | collaborative documents: `socket/main.py`, `YdocManager` of `socket/utils.py` | `ydoc`, `ydoc_compaction` | `Ydoc_proofs` |
| `Timers` | `utils/timers.py`, the timer half of `utils/automations.py` | `timers`, `timers_cancel` | `Timers_proofs` |
| `OneShot` | the abstract life of a one-shot timer, implemented by `Timers` (`IsOneShot`) | `timers` | `Timers_proofs` |
| `InternalMessages` | `utils/subagents.py` and its hooks in `main.py` and `utils/middleware.py` | `messages` | `InternalMessages_proofs` |
| `ChatHistory` | the message tree and its rows: `models/chats.py`, `models/chat_messages.py`, and who writes them in `main.py`, `routers/chats.py`, the client | `chat_history` | `ChatHistory_proofs`, `ChatHistoryTree_proofs` |

`MC*.tla` give the constants their small values, `*.cfg` are the runs, and
`PROJECT.json` maps each definition to the lines it stands for and lists runs,
mutants, hazards and theorems. A definition introduced as "Mutant" belongs to
no behaviour: it is a broken variant of the definition after it, and with it in
place the property named in `PROJECT.json` fails.

To check: `tlc -workers 2 -config Timers.cfg MCTimers.tla`, and likewise for
the others; `tlapm Timers_proofs.tla` and so on for the proofs.

## The system: inventory

| Component | State | Operations | What is hard about it | What makes it correct |
|---|---|---|---|---|
| Task registry, `tasks.py` | `tasks`, `item_tasks` per process; a Redis hash and a set per item | create, clean up, stop one, stop all of an item, list, pub/sub stop commands | three cleaners of one task (its own `finally`, the done callback, `stop_task`) in several processes; pub/sub keeps nothing; entries have no expiry; iteration over a list that shrinks | a running task can be found and stopped; a finished one leaves; hash and sets agree; "all stopped" is true |
| Distributed lock, `socket/utils.py` | a key with an expiry | acquire, renew, release | the expiry runs out while its holder sleeps | renewed and released only by its owner |
| Session pool, `socket/main.py` | `SESSION_POOL`: session to user and last heartbeat | connect, join, heartbeat, disconnect, event call, periodic cleanup | check-then-delete across processes; late writes after a disconnect; death of the cleanup loop | one cleanup at a time; no live session reaped; dead ones reaped in the end |
| Usage pool, `socket/main.py` | `USAGE_POOL`: model to sessions | usage, disconnect, cleanup | read-modify-write in several processes; the cleanup gives up for good | a session is counted where it is, and not for ever |
| Collaborative documents, `socket/main.py`, `socket/utils.py` | update list, users and document index in Redis; Socket.IO rooms; the clients' copies | join, state, update, leave, disconnect, awareness, compaction, debounced save | a join racing updates; a compaction racing appends; the last leave racing a join; reordered broadcasts | no member misses an update; a compaction loses none |
| Chat timers, `utils/timers.py` | status, claim id and `cancel_on` in the metadata of a hidden chat; locks per process | set, claim, execute, requeue, cancel | every instance polls; requeues; cancels that race claims; whole-history writes; crashes after the claim | a timer fires once, not after it is cancelled, and in the end; the transaction of a firing destroys nothing |
| Internal messages and sub-agents, `utils/subagents.py` | pending messages in the parent chat, capacity counters | run, deliver, process pending, cancel | the hand-over between a busy parent and the one who finds it idle; double release of a semaphore | each result is taken up once; the capacity comes back |
| Automations and scheduler, `models/automations.py`, `utils/automations.py` | `next_run_at`, `last_run_at`, `is_active`, runs | claim, execute, toggle, update, alerts | two instances, claims that commit before the work is done, one bad rule in a batch | an occurrence runs once |
| Chat completion, `main.py`, `utils/middleware.py` | tasks, the stream, the messages | fan-out, streaming, cancel, save | cancellation inside `finally`; parallel writers of one chat | see the registry; no message lost |
| Chats, `models/chats.py`, `models/chat_messages.py` | the history tree in JSON, its rows, a copy of it in every tab | upsert, merge, delete, dual write, rows made anew for a prompt | read-modify-write of the whole history; tabs that save old copies; rows written one by one after the commit | walks through the tree end; the current message exists; rows match or are made to match |
| Others | – | auth, access control, retrieval, files, channels, providers, tools, memory, events, client, demo | mostly sequential or I/O | `PROJECT.json` says why each is left out |

How they meet: a request to `main.py` saves messages, cancels timers, and starts
one registry task per model; timers and sub-agents ask the registry
(`has_active_tasks`) before they write to a parent chat; the end of a
generation leaves the registry and hands pending messages over; disconnecting
releases the session's pool entry, its usage and its documents, in this order
and only if the pool entry is still there; both cleanup loops run under a
`RedisLock`; Socket.IO broadcasts cross processes over Redis pub/sub. The trust
zones of `src/docs/ARQUITETURA_ZONAS_DE_CONFIANCA.md` are a plan that the code
does not implement, so nothing here models them.

## How the code becomes actions

An `asyncio` handler runs alone in its process from one await to the next, and
any other process may run in between. A step of a model is therefore one await
boundary: one Redis command (or pipeline or script), or one commit, with what
follows its answer. Where the code uses a *synchronous* Redis client (the
session pool), the handler holds its process and only other processes
interleave: `SessionPool.cpu`.

### TaskRegistry

`stage[t]` is the coroutine of a task (`"running"`, `"cancelling"`, inside its
own cleanup, in the `"tail"` of `process_chat` after that, `"ended"`), `save[t]`
the `redis_save_task` of `create_task`, `clean[t][c]` where each cleaner stands,
`hash` and `sets` the keys in Redis, `tasks` the dictionaries, `inbox` the stop
commands on their way. Actions follow `create_task`, `redis_cleanup_task` (the
pipeline `Remove`, then `Count`, then `Drop`), `cleanup_task`, `stop_task`
(`Lookup`, `Publish`, then cleanup), `stop_item_tasks`, the listener, and the
`finally` clause of `process_chat`. Faults (`MaxFaults`) are a crash, a failed
command and a lost command.

The Redis client of a process is a connection pool (`utils/redis.py:335`), so
two pipelines of one process are not ordered: the removal of the done callback
of a task that ends at once can execute before the save of `create_task`, and
the entry then stays for good. The model has this race. The history variable
`late` names the tasks it has hit, and `NoOrphanEntry` and `EndedIsUnlisted`
exempt them beside the tasks whose callback died: these are the only ways to an
entry that nothing removes.

### LocalTasks

The same file without Redis: `itemTasks[i]` is the *live list* that
`stop_item_tasks` walks by position while `cleanup_task` takes elements out.
A task leaves the dictionary in three ways: by its own cleanup, by a request
that stops its item, and by the endpoint that stops a single task (`StopTask`).
The history variable `popper` records which requests have popped a task, so
that `FailureMeansContention` can say that a request to stop an item fails only
at a task that *another* request has popped.

### SessionPool and RedisLock

`pool[s]` is the age of an entry (or `Absent`), `link[s]` the connection,
`join[s]` and `call[s]` handlers that await something, `phase`, `timer` and
`todo` the cleanup loop of each process, `lock` the key with its remaining
time. Time passes in ticks (`Tick`).

### Ydoc

One document in Redis mode. `updates` is the Redis list, each element the set
of updates it carries (a compacted snapshot carries several), `users` and
`index` the other two keys, `room` the Socket.IO room, `wire[p]` the broadcasts
on their way to process `p`, `doc[s]` what the client of `s` has, `view[s]`
what it believes. `JoinAt`, `UpdAt` and their kin are the positions of a
handler between its awaits. Updates are names and merge by union: the order in
which a CRDT integrates them is left to the library. `back` is a history
variable, the updates put back into a list that a leave has emptied. An editor
is reopened only after its earlier join has been answered. `Earlier` is what the
list holds at the start, left there by a leave that failed after the users were
taken out and before the list was emptied.

Broadcasts cross processes over Redis pub/sub, which keeps nothing for a
subscriber that reconnects: the fault `Reconnect(p)` empties `wire[p]`, and the
history variable `missed[s]` collects what a session has lost that way. `NoGap`
and `UpdateReachesMembers` exempt exactly these updates.

### Timers

`parent[t]` is the chat a timer is set in; `row[t]` is the status, claim and
`cancel_on` of the timer's row; `claim[p]` the open transaction of
`claim_due_timers` in process `p` (`held`: the rows `FOR UPDATE` locks, *all*
pending ones; `batch`: the due ones it took, at most `Limit` by age);
`run[t][k]` the execution under claim `k`, with the chat history it has read in
`seen`; `msgs[c]` who has written to chat `c`; `active[c]` what
`has_active_tasks` sees; `req[q]` a client request, a message or a read, with
its cancel; `fired[t]` is a history variable. `RowLocks` says whether the
database honours `FOR UPDATE` in this code (PostgreSQL). The `asyncio.Lock`s of
a timer and of a parent chat are implied by the stages of the runs in one
process.

In the transaction of the firing the prompt and the placeholder of its answer
enter the history together, under the lock of the chat's row. The completion
handler that the run then calls, as every client's message does, writes the
whole history again up to five times, each time from a copy read before an
await and with no lock: the fields of the chat, the message, the links of both
its sides, the placeholder (`main.py:1411-1522`; line 1420 writes another
column). `HandlerRead` and `HandlerWrite` are these writes for a run, `SayRead`
and `SayWrite` for a client; both go through `WriteBack`, which waits for a row
that a firing holds. Each write leaves the message in or adds it, and the model
leaves the number and the order of a run's writes open, so they may also be none
or more than the code makes. A message of someone else *can* be lost to them:
`FireKeepsMessages` is about the transaction of the firing, which is what the
code protects. `active` is the registry as `TaskRegistry` promises it.

`OneShot` says what the `set_timer` tool promises ("a one-shot timer for this
chat") without rows, claims, locks or schedulers: a timer waits, runs, and
fires once or goes back to wait; what is closed stays closed. `Timers`
instantiates it (`Promise`): `phase` is computed from the status of the row, the
runs and `fired`, and `prompts` is `fired`. A commit that claims a batch is
one `Claim` of many timers, a crash one `Close` of many, and a cancel that
writes a row a run already holds is no step of the timer's life at all.

### InternalMessages

One parent chat. `task[k]` is the coroutine of a generation or of a sub-agent:
its position `at`, its process, the copy of the results it has read (`seen`)
and the results it has taken (`batch`). `call[d]` is the `delegate()` call of
sub-agent `d`, `hist[d]` its result in the history of the parent, `active` the
registry, `used` and `permits` the two counters of each process. Actions:

* `Delegate`, `Insert`, `Saved`, `Return`: the tool call in both modes;
* `Worked`, `PutSelect`, `PutCommit`, `PutCheck`: the end of a sub-agent and
  the write of its result as an internal message;
* `PumpWait`, `PumpLock`, `PumpSelect`, `PumpCommit`:
  `process_pending_internal_messages`, whose return is the return of the
  completion handler it calls (`Save`, `Start` with a `batch`);
* `Turn`, `Save`, `Start`, `Stop`, `Finish`, `FinalSave`, `Cleanup`, `Check`: a
  generation of the parent, from the request of the user to the look at the
  registry in its `finally`.

`Holds` is the parent lock of a process, `RowLocked` the row lock of the
parent chat. Faults: a chat that cannot be made, a cancellation in that await,
a failed registration, a coroutine that dies, a crash. A save that writes back
a copy which has gone stale meanwhile counts as a fault in the bound (`stale`)
and is recorded in `clobbered`.

### ChatHistory

`chat` is the JSON history (`known` messages, `parent`, `kids`, `current`),
`rows` the table, `copy[t]` what tab `t` shows, `request[t]` the request of a
tab as a list of operations and the position in the first of them. Messages
are numbers in the order of their creation. The pure operations are operators
on a history: `Upserted` (`upsert_message_to_history`), `Merged`
(`merge_history`), `Cut`, `Ends` and `Deleted` (`delete_message_from_history`;
`Ends` is a recursive function, so that the module can be proved about),
`Repaired`. `Ask` and `Regenerate` start the five writes a turn makes (files,
question, link, placeholder, link), `Edit`, `Save` and `Delete` are the
requests of the tabs, a generation that saves into its message is an `Edit`.
`Get`, `Read`, `Commit`, `RowWrite`, `RowsDrop` are the awaits of each
operation; `LoadMap` and `Backfill` are `get_messages_map_by_chat_id`, which
gives rows to the parents that have none. Faults: a commit that fails (the
request goes on), a row that is not written, a request that dies.

What the runs and the attempts at stronger properties show of this code, and
why the properties are stated the way they are:

* a save into an answer that has been deleted meanwhile makes the message
  again, as a root or under a list of children that still names it: the tree
  stays a tree, so `Sound` allows it;
* asking below a message that another tab has deleted leaves a question whose
  parent does not exist: `Sound` therefore speaks of tabs that asked below what
  the chat held (`outdated`);
* of two overlapping writes one may be lost and old and new links mix: only
  `Acyclic` and `CurrentIsMessage` survive this, and these are the two that
  keep walks through the history from running for ever or into nothing;
* a lookup of the rows fills one level of missing parents, so a gap of several
  levels closes after as many prompts: `Heals` says that it does close.

## What the runs show

| Run | Result | Instance and bounds | Shows |
|---|---|---|---|
| `registry` | pass | 2 processes, 2 tasks of one chat, 1 stoppable, 1 fault | no entry outlives its task unless its cleanup died or its save came late (`NoOrphanEntry`); sets agree with the hash (`SetWithinHash`); a running task keeps its handle and its hash field (`RunningTaskHasHandle`, `RunningIsListed`); without a fault a published stop takes effect and an ended task leaves for good, unless its save comes late (`StopTakesEffect`, `EndedIsUnlisted`) |
| `registry_drop_race` | **violation** | 2 processes, 2 tasks, no faults | `RunningIsActive`: a task saved between `scard` and `delete` loses its membership |
| `local` | pass | 3 tasks of one chat, one `process_chat`, 2 stop requests | list and dictionary agree; a request for an item fails only where another one has popped the task it has come to; up to two ordinary tasks are all stopped; a request is answered |
| `local_skip_self` | **violation** | 2 `process_chat` tasks, 1 request | `AllStopped`: the loop skips the second task and reports success |
| `session` | pass | 2 processes, 1 session, `Timeout` 3, `LockTimeout` 2, `ScanTime` 1, 1 fault | one cleanup at a time although the lock expires before the sleep ends; a process never reaps a refreshed session of its own; what is gone is reaped |
| `session_refresh_race` | **violation** | 2 processes, 1 session | `ReapsOnlyExpired`: a heartbeat between the check and the delete is lost |
| `ydoc` | pass | 2 sessions on 2 processes, 2 earlier updates and 2 new ones, threshold 4, one session leaves and returns, 1 fault | `NoGap`, `SquashAloneLosesNothing`, `UpdateReachesMembers` |
| `ydoc_compaction` | **violation** | 3 earlier updates and 2 new ones, threshold 4, no leave, no faults | `SquashLosesNothing`: an update pushed between the read and the write of a compaction is deleted |
| `timers` | pass | 2 timers of one chat or of two, 2 processes, 1 request, `Limit` 1, 1 fault, row locks | `OneRun`, `FiresOnce`, `CancelledStays`, `FireKeepsMessages`, `DueSettles`; `IsOneShot`: `Timers` implements `OneShot` |
| `timers_cancel` | **violation** | 1 timer, 1 request, no faults | `CancelledNeverFires`: a stale cancel marks a row that is already past its check |
| `messages` | pass | 2 processes, 2 delegations, 3 generations, 2 user messages that reach different processes, `MaxLoad` 3, 1 fault, row locks | `TakenOnce`: a result is taken up once; `NoneForgotten`: while one is pending somebody will look for it; `SlotsAccounted`: both counters are exact; `Answered`: a result is taken when the chat comes to rest |
| `chat_history` | pass | 2 tabs, thread of 2 messages, 5 messages in all, `MaxLoad` 3 | `Acyclic`, `CurrentIsMessage` under overlaps and faults; `Mirror`, `Sound` without; `Heals`: missing rows come back |

Why these bounds are enough to be interesting. Every race above is between two
parties (two tasks of a chat, a cleanup and a heartbeat, a compaction and an
append, a claim and a cancel), so two of each suffice for the interleavings; the
third task of `local` is what makes a shrinking list skip one. One fault reaches
every state that a single crash or failed command can cause. In `session` the
timeouts keep the order they have by default (lock < sleep between passes, one
pass < lock). In `ydoc` two updates lie in the list at the start and the
threshold is four (as in the code, half of the list is merged), so the second
new update merges *two* entries into one. In `timers` the limit is one less than
the number of timers, so an older timer that is requeued delays the younger one;
with two chats that is the starvation by which a busy chat holds up another; and
two claim ids per timer would let a second run exist if the code allowed it. In
`ydoc` a lost connection and a reconnecting subscriber count as faults, like a
reaped session or a crash; `Leaver` bounds who closes, and reloads, its editor.
In `messages` `Serves` names the processes that the messages of the user reach,
one each, so that generations of both processes act as the pump; `MaxLoad`
bounds the user's messages and the delegations together, which leaves two of one
kind and one of the other; three generations suffice for two turns and the
answer to a batch; both limits of the configuration are 1, so that the second
delegation meets a full counter. In `chat_history` `MaxLoad` bounds requests,
overlaps of two requests and faults together: three requests one after the
other, two that overlap, or two with a fault. Five messages allow a second
question with its answer and a regeneration, that is a tree that branches.
Deadlock checking is off because these systems may come to rest: all tasks over,
clients silent.

The proofs cover the safety half of this for all sizes.

### Fairness

Nothing is ever assumed of a client, of a generation or of a fault.

* An await that has its answer is resumed by the event loop: weak fairness of
  the steps of handlers, cleaners and timer runs that are under way. A
  coroutine that is generating (`"running"`, `"tail"`) need not end.
* Pub/sub: weak fairness of delivery of what the subscriber's connection still
  brings; a command or a broadcast lost to a reconnect is a fault
  (`LoseCommand`, `Reconnect`), after which nothing is promised of it.
* The session cleanup has *strong* fairness: heartbeats share its process and
  disable it again and again, but the event loop serves ready callbacks first
  in, first out.
* The scheduler polls for ever: weak fairness of the claim in every process, and
  of the runs of each timer, whose awaits are answered.
* `DueSettles` asks for all chats to come to rest: a chat that is busy whenever
  it is looked at keeps its timers waiting by design, and as a poll takes the
  oldest due timers of the installation first, these also keep the timers of
  other chats from being claimed. `Answered` asks for the one parent chat to
  come to rest, and there a generation that has been stopped is cancelled, with
  the call it waits for, and the pump polls for ever; no generation and no
  sub-agent is promised to end by itself.
* `Heals` supposes that a tab goes on prompting: only then are rows looked up.

### Disagreements with the repository's own words

`PROJECT.json` "findings" quotes each line. Five runs end in a violation: the
race of `scard` and `delete` (`tasks.py:62`), the loop that skips a task
(`tasks.py:188`), the cleanup that deletes a refreshed session
(`socket/main.py:197`), the compaction that deletes a concurrent update
(`socket/utils.py:207`), and the cancelled timer that fires
(`utils/timers.py:218`).

## What is proved

All theorems hold for every value of the constants that satisfies the named
`ASSUME` of the module (types of the functions, null values outside their sets,
bounds that are natural numbers); TLC evaluates those on every run.

* **TaskRegistry_proofs.** `TypeCorrect`; `CleanersCorrect`, the invariant that
  makes the rest inductive: it says where each cleaner may stand for each stage
  of the coroutine, and that a `stop_task` past its lookup holds the item the
  task is stored under. Without it `SetWithinHash` is not inductive, since a
  `stop_task` with the wrong item would leave a member behind. From it follow
  `SetsAgreeWithHash`, `HandleKept`, `RunningListed` and `NoOrphans`, which
  needs that a save comes late only to a task that has ended. Two theorems are
  the safety halves of the liveness properties: while nothing fails, a listed
  task is live, or its done callback has still to take it off, or its save was
  late (`LeaksTakeFaults`), and the published stop command of a task that runs
  on is in the inbox of its own process (`StopIsOnItsWay`). `LoneTaskIsActive`
  marks where the race of `registry_drop_race` begins: with at most one task per
  item (`ItemOf` is injective) `RunningIsActive` holds, since then only the
  task's own cleaners ever delete its set.
* **LocalTasks_proofs.** `TypeCorrect` includes that no task is listed twice.
  `ListsAgree` rests on `ListInv` (a listed task belongs to that item and is in
  the dictionary unless it was popped). `FailureNeedsAnother` adds `PoppedInv`:
  a listed task that is missing from the dictionary has been popped by a
  request, and, from where the loop of a request stands on, by another than that
  request, whose own pops lie behind it. `PairIsStopped` follows a request
  through the list while it shrinks (`PairInv`): past its first task either that
  task is still in the list, with the running second one next to come, or no
  task of the two runs any more. `WaitsForCancelled`, the safety half of
  `StopAnswers`: what a request awaits has been cancelled or has ended, and is
  not cleaned up.
* **SessionPool_proofs.** `TypeCorrect` for any order of the timeouts. Assuming
  that a pass takes less than the expiry (`ScanTime < LockTimeout`):
  `LeaseCoversScan`, that a process in a pass owns the lock and what is left of
  the lease plus the time spent is at least the expiry, is inductive, and
  `OneScanner` follows because a lock has one owner. `OwnReaps` needs neither:
  between the read and the delete the synchronous client holds the process, so
  an entry found expired is still expired unless another process has written it.
  Hence `OneProcessReaps`: with one process `ReapsOnlyExpired`, which
  `session_refresh_race` refutes for two, holds. `OrphansStayOrphans` is the
  safety half of `OrphanReaped`: the entry of a session that is gone only ages
  or goes, once no join or heartbeat of its own is under way; a join may still
  be, since it awaits the user and writes the entry without a second look at the
  connection.
* **Ydoc_proofs.** `TypeCorrect`; lemmas on the contents of a list after an
  append and after a squash (`ContentsOfAppend`, `ContentsOfSquash`);
  `NoGapHolds`, from an invariant that speaks also of a session that is joining:
  once it is in the room and has read the list, every update is in what it has
  read, in its copy, on its way, or lost to it in a reconnect; and
  `SquashAlone`, that a compaction nobody has disturbed keeps every update.
  `NothingIsDropped` is the safety half of `UpdateReachesMembers`: no step takes
  an update off its way to a member that stays one, unless its handler is cut
  short or the process reconnects, so that what fairness has to add is only that
  handlers and deliveries go on.
* **Timers_proofs.** `TypeCorrect` for any database; then, assuming
  `RowLocks`, `RunInvHolds`: a row in a claim's transaction stays pending until
  the commit and belongs to one claim only, a timer with a run is not claimable
  and has no other run, and after firing it is never pending again and no run
  can reach the firing. Without the first part a stale commit could claim a
  timer that is running; without the second a requeue could leave two runs.
  From it `OneRunHolds`, `FiresOnceHolds` and `CancelledStaysHolds`. A second
  invariant, that a run inside its transaction has read what the chat still
  holds and is alone in it, gives `FireKeepsMessagesHolds`; the writes of the
  completion handlers keep it because each waits for the row. Without row locks
  these do not hold: two processes can claim one timer, and a message can be
  saved between the read and the write of a firing. `TimersAreOneShot` is the
  refinement: from `RunInv`, and from the fact that a cancel has selected only
  timers that are set, each step of `Timers` is a step of `OneShot` or leaves
  its variables alone. `OnlyFaultsStrand` needs no row locks: a row that says
  `running` names a claim whose run is at work before the firing (`Manned`),
  since a run leaves early only when the claim in the row is not its own; so
  only a fault leaves a timer for good in a state no poll looks at.
* **InternalMessages_proofs.** `TypesAndCalls`: an open call has one generation
  waiting for it, and coroutines that are under way have a process. `LocksHold`:
  of the coroutines of one process one holds the parent lock, and with row locks
  one in the installation is in a transaction. `TakenOnceHolds` assumes row
  locks or a single process (`Guarded`) and needs to know that a result in a
  batch about to be committed is still pending. `NoneForgottenHolds` needs no
  locks: its invariant says that whoever is registered will ask the registry on
  the way out, which makes it safe for a sub-agent to leave its result to a
  busy chat. `SlotsAccountedHolds` counts the runs that hold a slot.
* **ChatHistory_proofs.** `Aged`: in every copy, request and row a parent is
  older than its child. Each operation keeps it, whatever old copy it starts
  from, and any set of messages then has an oldest and a youngest member, hence
  `WalksEnd` (`Acyclic`) and, because walks end, `CurrentExists`. `Mirrored`
  says of a request that runs alone which rows it has still to write or delete;
  when nothing is left, `RowsMirror` follows.
* **ChatHistoryTree_proofs.** `TreeIsSound`. Between the writes of a turn the
  chat is *not* a tree: a question hangs below a parent that does not list it,
  or lists an answer that is not there yet. The invariant `Grown` says that what
  is missing is exactly what the request has still to do: `Owes` follows its
  operations from the save of a question to the link of its parent, the
  placeholder of the answer and the last link, and each commit pays one of them
  (`SaveGrows`, `HangGrows`, `LinkGrows`, `AnswerGrows`). It needs `Mirrored`,
  by which a lone request has read what the chat still holds, and it speaks of
  the tabs: the parents in a copy are in it, unless a deletion under way is
  about to renew the copy. A save from an old copy merges it into the tree, and
  with a parent missing from it the merge would leave an orphan. With no
  operation left, `Sound` follows.

Only model-checked: everything under fairness (`StopTakesEffect`,
`EndedIsUnlisted`, `StopAnswers`, `OrphanReaped`, `UpdateReachesMembers`,
`DueSettles`, `Answered`, `Heals`), since liveness and `ENABLED` are beyond the
prover; the safety halves named above are what is proved of them. Every other
property of the passing runs, invariant, action property or refinement, is a
theorem.

Assumptions beyond the types: `ScanTime < LockTimeout` (`LeaseCoversScan`,
`OneScanner`), `RowLocks` (the timers, but for `TypeCorrect` and
`OnlyFaultsStrand`), `Guarded` (row locks or one process, `TakenOnceHolds`), and
the two that mark where a violation begins: one task per item
(`LoneTaskIsActive`), one process (`OneProcessReaps`). Each has an instance: the
runs use the first three, the last two are chats with one generation at a time
and an installation without a second worker.

## What is not modelled

Payloads, texts, logging and configuration; the contents of generations; the
in-memory forms of the pools and of `YdocManager`; awareness (a relay that
keeps no state); the debounced save of a note; several documents or parent
chats at once; branching and import of chats; the fields of a message other
than its links. Components without a module are listed as `not_modelled` in
`PROJECT.json`, each with its reason. Those with state of their own that a
model checker would reach:

* **Automations** (`models/automations.py`). The claim is that of `Timers`
  with another row, and shares its hazards: off PostgreSQL two instances can
  read the same due row before either commits; an update computes
  `next_run_at` before it reads the row and can write back an occurrence a
  claim has taken; a claim is committed before the work, so a crash loses the
  occurrence. The code has no protection against the last two, and the
  docstring of `claim_due` ("the row can never be double-claimed") is stronger
  than what it does.
* **Calendar alerts** (`utils/automations.py:613`). An alert is sent before it
  is marked as sent: two instances that poll at once both send it. The mark
  stays when the event is moved to another time.
* **Usage pool** (`socket/main.py:227`, `347`, `883`). Read-modify-write of one
  Redis hash field by several processes, with nothing against lost updates.
* **Rate limiter, `RedisDict.set`**: small and mostly sequential.

Hazards without a property are listed in `PROJECT.json` with the reason: either
the code does not protect against them, so that no property of theirs holds, or
their component is not modelled.

## Plan

In this order; everything above the line exists.

1. Registry, both modes (`TaskRegistry`, `LocalTasks`).
2. Lock and session pool (`RedisLock`, `SessionPool`).
3. Documents (`Ydoc`).
4. Timers (`Timers`) and what they promise (`OneShot`).
5. Sub-agents and their results (`InternalMessages`), over the same parent lock
   and registry as `Timers`.
6. The message tree and its rows (`ChatHistory`).

---

7. `Automations`: `claim_due` with toggles, updates, deletions and crashes. To
   check: with row locks an occurrence is claimed once unless a client writes it
   back; a due one is run, or was lost to a fault. To prove: the first of these.
8. `Document`, the abstract specification of a shared document (a set of
   updates and members that receive them), implemented by the in-memory
   `YdocManager` outright and by `Ydoc` as long as no compaction is disturbed;
   the debounced save with it, on top of the registry.
9. `UsagePool` on the lock of `RedisLock`, sharing the argument of
   `LeaseCoversScan`; calendar alerts beside it.
10. `RateLimiter` and `RedisDict.set`.
