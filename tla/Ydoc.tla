--------------------------------- MODULE Ydoc ---------------------------------
(***************************************************************************)
(* One collaborative document of open_webui/socket: the Socket.IO handlers *)
(* of main.py that join, edit, reload and leave it, and YdocManager of     *)
(* utils.py that keeps its updates and its users in Redis for all          *)
(* processes.                                                              *)
(*                                                                         *)
(* A Yjs update is a name; applying updates is set union, so the state of  *)
(* a document is the set of updates it contains.  A handler is atomic from *)
(* one Redis command to the next: a step is a command and what follows its *)
(* answer up to the next one.  Handlers of all sessions interleave,        *)
(* those of one session too (Socket.IO runs each event in its own task).   *)
(***************************************************************************)
EXTENDS Integers, Sequences, FiniteSets

CONSTANTS
    Session, Proc,
    Home,           \* Home[s]: the process that holds the connection of s
    Update,
    Earlier,        \* the updates the list already holds, in its order
    Away,           \* the author of these: a session that is gone
    Author,         \* Author[u]: the session whose client makes u
    Threshold,      \* COMPACTION_THRESHOLD
    Leaver,         \* bound: the sessions that reload, close, disconnect or are reaped
    MaxOpens,       \* bound: how often editors are opened
    MaxFaults       \* bound: disconnections, crashes, Redis errors, reaped sessions
                    \* and subscribers that reconnect

Stored == {Earlier[i] : i \in DOMAIN Earlier}

ASSUME YdocAssumption ==
    /\ Home \in [Session -> Proc]
    /\ Earlier \in Seq(Update)
    /\ Away \notin Session
    /\ Author \in [Update -> Session \cup {Away}]
    /\ \A u \in Update : Author[u] = Away <=> u \in Stored
    /\ Threshold \in Nat \ {0}
    /\ Leaver \subseteq Session
    /\ MaxOpens \in Nat
    /\ MaxFaults \in Nat

VARIABLES
    link,       \* link[s]: the connection is up
    pool,       \* the sessions with an entry in SESSION_POOL
    view,       \* view[s]: the editor of the client: closed, waiting, synced
    doc,        \* doc[s]: the updates the client's editor has
    updates,    \* {doc}:updates, each entry the set of updates it encodes
    users,      \* {doc}:users
    index,      \* the sessions whose session:{sid}:documents holds the document
    room,       \* the Socket.IO room
    wire,       \* wire[p]: the updates Redis pub/sub has still to bring to p
    missed,     \* history: the updates pub/sub has lost for s since it opened its editor
    join,       \* join[s]: where the join handler stands
    got,        \* got[s]: what it has read of the document
    leave,      \* leave[s]: where the leave handler stands
    gone,       \* gone[s]: where the disconnect handler stands
    upd,        \* upd[u]: where the update handler stands
    snap,       \* snap[u]: the list its compaction has read
    back,       \* history: the updates a compaction has put back in the list
    opens, faults

client == <<link, view, doc>>
store == <<updates, users, index, back>>
rooms == <<room, wire, missed>>
joining == <<join, got>>
leaving == <<leave, gone>>
updating == <<upd, snap>>
bounds == <<opens, faults>>
vars == <<client, pool, store, rooms, joining, leaving, updating, bounds>>

Contents(q) == UNION {q[i] : i \in DOMAIN q}

InUpdate == {"append", "measure", "read", "write", "emit"}

TypeOK ==
    /\ link \in [Session -> BOOLEAN]
    /\ pool \subseteq Session
    /\ view \in [Session -> {"closed", "waiting", "synced"}]
    /\ doc \in [Session -> SUBSET Update]
    /\ updates \in Seq(SUBSET Update)
    /\ users \subseteq Session
    /\ index \subseteq Session
    /\ room \subseteq Session
    /\ wire \in [Proc -> SUBSET Update]
    /\ missed \in [Session -> SUBSET Update]
    /\ join \in [Session -> {"idle", "users", "index", "read", "send"}]
    /\ got \in [Session -> SUBSET Update]
    /\ leave \in [Session -> {"idle", "users", "index", "exists", "count", "updates", "key"}]
    /\ gone \in [Session -> {"idle", "users", "count", "updates", "key", "index"}]
    /\ upd \in [Update -> InUpdate \cup {"new", "rejected", "done", "lost"}]
    /\ snap \in [Update -> Seq(SUBSET Update)]
    /\ back \subseteq Update
    /\ opens \in 0..MaxOpens
    /\ faults \in 0..MaxFaults

\* The list may hold updates while nobody has the document open: a leave handler
\* that fails after it has removed the last user leaves them there.
Init ==
    /\ link = [s \in Session |-> TRUE]
    /\ pool = Session
    /\ view = [s \in Session |-> "closed"]
    /\ doc = [s \in Session |-> {}]
    /\ updates = [i \in DOMAIN Earlier |-> {Earlier[i]}]
    /\ users = {}
    /\ index = {}
    /\ room = {}
    /\ wire = [p \in Proc |-> {}]
    /\ missed = [s \in Session |-> {}]
    /\ join = [s \in Session |-> "idle"]
    /\ got = [s \in Session |-> {}]
    /\ leave = [s \in Session |-> "idle"]
    /\ gone = [s \in Session |-> "idle"]
    /\ upd = [u \in Update |-> IF u \in Stored THEN "done" ELSE "new"]
    /\ snap = [u \in Update |-> <<>>]
    /\ back = {}
    /\ opens = 0
    /\ faults = 0

-----------------------------------------------------------------------------
(* ydoc:document:join *)

\* JoinAt(s, a, b): the handler of s goes from a to b.
JoinAt(s, a, b) == join[s] = a /\ join' = [join EXCEPT ![s] = b]

\* The client opens an editor.  Without a pool entry, or read access to the note,
\* the handler returns.
Open(s) ==
    /\ link[s]
    /\ view[s] = "closed"
    /\ opens < MaxOpens
    /\ opens' = opens + 1
    /\ view' = [view EXCEPT ![s] = "waiting"]
    /\ \E b \in {"users", "idle"} : (b = "users" => s \in pool) /\ JoinAt(s, "idle", b)
    /\ UNCHANGED <<link, doc, pool, store, rooms, got, leaving, updating, faults>>

\* add_user: the users of the document ...
JoinUsers(s) ==
    /\ JoinAt(s, "users", "index")
    /\ users' = users \cup {s}
    /\ UNCHANGED <<client, pool, updates, index, back, rooms, got, leaving, updating, bounds>>

\* ... then the documents of the session; on its answer sio.enter_room, which
\* has no effect on a connection that is gone.
JoinIndex(s) ==
    /\ JoinAt(s, "index", "read")
    /\ index' = index \cup {s}
    /\ room' = IF link[s] THEN room \cup {s} ELSE room
    /\ UNCHANGED <<client, pool, updates, users, back, wire, missed, got, leaving, updating, bounds>>

\* get_updates
JoinRead(s) ==
    /\ JoinAt(s, "read", "send")
    /\ got' = [got EXCEPT ![s] = Contents(updates)]
    /\ UNCHANGED <<client, pool, store, rooms, leaving, updating, bounds>>

\* emit('ydoc:document:state'): the client applies it if its editor is open.
JoinSend(s) ==
    /\ JoinAt(s, "send", "idle")
    /\ got' = [got EXCEPT ![s] = {}]
    /\ IF link[s] /\ view[s] # "closed"
       THEN /\ doc' = [doc EXCEPT ![s] = @ \cup got[s]]
            /\ view' = [view EXCEPT ![s] = "synced"]
       ELSE UNCHANGED <<doc, view>>
    /\ UNCHANGED <<link, pool, store, rooms, leaving, updating, bounds>>

\* ydoc:document:state: the client asks for the state once more.
State(s) ==
    /\ link[s]
    /\ view[s] # "closed"
    /\ s \in room
    /\ updates # <<>>
    /\ doc' = [doc EXCEPT ![s] = @ \cup Contents(updates)]
    /\ UNCHANGED <<link, view, pool, store, rooms, joining, leaving, updating, bounds>>

-----------------------------------------------------------------------------
(* ydoc:document:update *)

UpdAt(u, a, b) == upd[u] = a /\ upd' = [upd EXCEPT ![u] = b]

\* The client edits and sends the update.  The handler checks the room and the
\* pool, then awaits the note and its access grants; without write access the
\* update is rejected.
Edit(u) ==
    LET s == Author[u] IN
    /\ \E b \in {"append", "rejected"} :
         UpdAt(u, "new", b) /\ (b = "append" => s \in room \cap pool)
    /\ link[s]
    /\ view[s] # "closed"
    /\ doc' = [doc EXCEPT ![s] = @ \cup {u}]
    /\ UNCHANGED <<link, view, pool, store, rooms, joining, leaving, snap, bounds>>

\* Mutant: the session is stored in place of the update.
AppendSid(u) ==
    /\ UpdAt(u, "append", "measure")
    /\ updates' = Append(updates, {Author[u]})
    /\ UNCHANGED <<client, pool, users, index, back, rooms, joining, leaving, snap, bounds>>

\* rpush
UpdAppend(u) ==
    /\ UpdAt(u, "append", "measure")
    /\ updates' = Append(updates, {u})
    /\ UNCHANGED <<client, pool, users, index, back, rooms, joining, leaving, snap, bounds>>

\* llen
Measure(u) ==
    /\ UpdAt(u, "measure", IF Len(updates) >= Threshold THEN "read" ELSE "emit")
    /\ UNCHANGED <<client, pool, store, rooms, joining, leaving, snap, bounds>>

\* lrange
CompactRead(u) ==
    /\ UpdAt(u, "read", IF Len(updates) <= 1 THEN "emit" ELSE "write")
    /\ snap' = [snap EXCEPT ![u] = IF Len(updates) <= 1 THEN @ ELSE updates]
    /\ UNCHANGED <<client, pool, store, rooms, joining, leaving, bounds>>

\* Mutant: one entry is neither in the snapshot nor in the rest.
SquashGap(q) ==
    LET mid == Len(q) \div 2
    IN  <<Contents(SubSeq(q, 1, mid - 1))>> \o SubSeq(q, mid + 1, Len(q))

\* The oldest half as one snapshot, then the rest.
Squash(q) ==
    LET mid == Len(q) \div 2
    IN  <<Contents(SubSeq(q, 1, mid))>> \o SubSeq(q, mid + 1, Len(q))

\* The pipeline: delete and rpush in one transaction.
CompactWrite(u) ==
    /\ UpdAt(u, "write", "emit")
    /\ updates' = Squash(snap[u])
    /\ back' = back \cup (Contents(updates') \ Contents(updates))
    /\ snap' = [snap EXCEPT ![u] = <<>>]
    /\ UNCHANGED <<client, pool, users, index, rooms, joining, leaving, bounds>>

\* Mutant: only to the clients that have been sent the state.
ReceiversSynced(p) == {s \in room : Home[s] = p /\ link[s] /\ view[s] = "synced"}

\* The clients of process p an emit to the room reaches.
Receivers(p) == {s \in room : Home[s] = p /\ link[s] /\ view[s] # "closed"}

\* doc after u has been emitted to the room in process p.
Emitted(u, p) ==
    [s \in Session |-> IF s \in Receivers(p) \ {Author[u]}
                       THEN doc[s] \cup {u} ELSE doc[s]]

\* Mutant: no client manager, as when WEBSOCKET_MANAGER is not "redis".
EmitHereOnly(u) ==
    /\ UpdAt(u, "emit", "done")
    /\ doc' = Emitted(u, Home[Author[u]])
    /\ UNCHANGED <<link, view, pool, store, rooms, joining, leaving, snap, bounds>>

\* sio.emit: the members of the room in this process, and the other processes
\* through Redis.
UpdEmit(u) ==
    /\ UpdAt(u, "emit", "done")
    /\ doc' = Emitted(u, Home[Author[u]])
    /\ wire' = [p \in Proc |-> IF p = Home[Author[u]] THEN wire[p] ELSE wire[p] \cup {u}]
    /\ UNCHANGED <<link, view, pool, store, room, missed, joining, leaving, snap, bounds>>

\* The client manager of p receives the message and emits it there.
Deliver(p, u) ==
    /\ u \in wire[p]
    /\ wire' = [wire EXCEPT ![p] = @ \ {u}]
    /\ doc' = Emitted(u, p)
    /\ UNCHANGED <<link, view, pool, store, room, missed, joining, leaving, updating, bounds>>

-----------------------------------------------------------------------------
(* clear_document, as a step of the leave or the disconnect handler *)

At(pc, s, a, b) == pc[s] = a /\ pc' = [pc EXCEPT ![s] = b]

ClearUpdates ==
    /\ updates' = <<>>
    /\ UNCHANGED <<users, index, back>>

ClearUsers ==
    /\ users' = {}
    /\ UNCHANGED <<updates, index, back>>

-----------------------------------------------------------------------------
(* ydoc:document:leave *)

\* The client closes the editor.
Close(s) ==
    /\ link[s]
    /\ view[s] # "closed"
    /\ view' = [view EXCEPT ![s] = "closed"]
    /\ doc' = [doc EXCEPT ![s] = {}]
    /\ missed' = [missed EXCEPT ![s] = {}]
    /\ At(leave, s, "idle", IF s \in pool THEN "users" ELSE "idle")
    /\ UNCHANGED <<link, pool, store, room, wire, joining, gone, updating, bounds>>

\* remove_user: the users of the document ...
LeaveUsers(s) ==
    /\ At(leave, s, "users", "index")
    /\ users' = users \ {s}
    /\ UNCHANGED <<client, pool, updates, index, back, rooms, joining, gone, updating, bounds>>

\* ... then the documents of the session; on its answer sio.leave_room.
LeaveIndex(s) ==
    /\ At(leave, s, "index", "exists")
    /\ index' = index \ {s}
    /\ room' = room \ {s}
    /\ UNCHANGED <<client, pool, updates, users, back, wire, missed, joining, gone, updating, bounds>>

\* document_exists ...
LeaveExists(s) ==
    /\ At(leave, s, "exists", IF updates # <<>> THEN "count" ELSE "idle")
    /\ UNCHANGED <<client, pool, store, rooms, joining, gone, updating, bounds>>

\* ... and len(get_users) == 0
LeaveCount(s) ==
    /\ At(leave, s, "count", IF users = {} THEN "updates" ELSE "idle")
    /\ UNCHANGED <<client, pool, store, rooms, joining, gone, updating, bounds>>

LeaveClear(s) ==
    /\ \/ At(leave, s, "updates", "key") /\ ClearUpdates
       \/ At(leave, s, "key", "idle") /\ ClearUsers
    /\ UNCHANGED <<client, pool, rooms, joining, gone, updating, bounds>>

-----------------------------------------------------------------------------
(* disconnect *)

\* A lost connection, a reaped session, a Redis error or a crash.
Fault == faults < MaxFaults /\ faults' = faults + 1 /\ UNCHANGED opens

\* A session the cleanup has reaped is not looked at any further.
Disconnect(s) ==
    /\ Fault
    /\ link[s]
    /\ link' = [link EXCEPT ![s] = FALSE]
    /\ view' = [view EXCEPT ![s] = "closed"]
    /\ doc' = [doc EXCEPT ![s] = {}]
    /\ pool' = pool \ {s}
    /\ IF s \in pool
       THEN At(gone, s, "idle", "users") /\ UNCHANGED room
       ELSE room' = room \ {s} /\ UNCHANGED gone
    /\ UNCHANGED <<store, wire, missed, joining, leave, updating>>

\* remove_user_from_all_documents: smembers of the session's documents, and
\* srem for this one if it is among them.
GoneUsers(s) ==
    /\ At(gone, s, "users", IF s \in index THEN "count" ELSE "index")
    /\ users' = IF s \in index THEN users \ {s} ELSE users
    /\ UNCHANGED <<client, pool, updates, index, back, rooms, joining, leave, updating, bounds>>

GoneCount(s) ==
    /\ At(gone, s, "count", IF users = {} THEN "updates" ELSE "index")
    /\ UNCHANGED <<client, pool, store, rooms, joining, leave, updating, bounds>>

GoneClear(s) ==
    /\ \/ At(gone, s, "updates", "key") /\ ClearUpdates
       \/ At(gone, s, "key", "index") /\ ClearUsers
    /\ UNCHANGED <<client, pool, rooms, joining, leave, updating, bounds>>

\* The session's documents are deleted and Socket.IO empties its rooms.
GoneIndex(s) ==
    /\ At(gone, s, "index", "idle")
    /\ index' = index \ {s}
    /\ room' = room \ {s}
    /\ UNCHANGED <<client, pool, updates, users, back, wire, missed, joining, leave, updating, bounds>>

-----------------------------------------------------------------------------
(* More faults *)

\* The session missed its heartbeats: its entry is reaped, nothing else.
Reaped(s) ==
    /\ Fault
    /\ s \in pool
    /\ pool' = pool \ {s}
    /\ UNCHANGED <<client, store, rooms, joining, leaving, updating>>

\* A Redis error ends a join or a leave handler half-way.
JoinFails(s) ==
    /\ Fault
    /\ join[s] # "idle"
    /\ join' = [join EXCEPT ![s] = "idle"]
    /\ got' = [got EXCEPT ![s] = {}]
    /\ UNCHANGED <<client, pool, store, rooms, leaving, updating>>

LeaveFails(s) ==
    /\ Fault
    /\ leave[s] # "idle"
    /\ leave' = [leave EXCEPT ![s] = "idle"]
    /\ UNCHANGED <<client, pool, store, rooms, joining, gone, updating>>

\* A Redis error ends the update handler, in append_to_updates or in emit.
UpdFails(u) ==
    /\ Fault
    /\ upd[u] \in InUpdate
    /\ upd' = [upd EXCEPT ![u] = "lost"]
    /\ snap' = [snap EXCEPT ![u] = <<>>]
    /\ UNCHANGED <<client, pool, store, rooms, joining, leaving>>

\* The subscriber of p loses its Redis connection and reconnects: pub/sub keeps
\* nothing of what was published meanwhile.
Reconnect(p) ==
    /\ Fault
    /\ \E lost \in SUBSET wire[p] \ {{}} :
         /\ wire' = [wire EXCEPT ![p] = @ \ lost]
         /\ missed' = [s \in Session |-> IF s \in room /\ Home[s] = p
                                         THEN missed[s] \cup lost ELSE missed[s]]
    /\ UNCHANGED <<client, pool, store, room, joining, leaving, updating>>

\* Process p dies with its connections, its rooms and its handlers.
Crash(p) ==
    LET here == {s \in Session : Home[s] = p}
        cut == {u \in Update : Author[u] \in here /\ upd[u] \in InUpdate}
    IN
    /\ Fault
    /\ link' = [s \in Session |-> s \notin here /\ link[s]]
    /\ view' = [s \in Session |-> IF s \in here THEN "closed" ELSE view[s]]
    /\ doc' = [s \in Session |-> IF s \in here THEN {} ELSE doc[s]]
    /\ room' = room \ here
    /\ wire' = [wire EXCEPT ![p] = {}]
    /\ join' = [s \in Session |-> IF s \in here THEN "idle" ELSE join[s]]
    /\ got' = [s \in Session |-> IF s \in here THEN {} ELSE got[s]]
    /\ leave' = [s \in Session |-> IF s \in here THEN "idle" ELSE leave[s]]
    /\ gone' = [s \in Session |-> IF s \in here THEN "idle" ELSE gone[s]]
    /\ upd' = [u \in Update |-> IF u \in cut THEN "lost" ELSE upd[u]]
    /\ snap' = [u \in Update |-> IF u \in cut THEN <<>> ELSE snap[u]]
    /\ UNCHANGED <<pool, store, missed>>

-----------------------------------------------------------------------------
JoinStep(s) ==
    JoinUsers(s) \/ JoinIndex(s) \/ JoinRead(s) \/ JoinSend(s)

LeaveStep(s) ==
    \/ LeaveUsers(s) \/ LeaveIndex(s)
    \/ LeaveExists(s) \/ LeaveCount(s) \/ LeaveClear(s)

GoneStep(s) == GoneUsers(s) \/ GoneCount(s) \/ GoneClear(s) \/ GoneIndex(s)

UpdStep(u) ==
    \/ UpdAppend(u) \/ Measure(u) \/ CompactRead(u) \/ CompactWrite(u)
    \/ UpdEmit(u)

Next ==
    \/ \E s \in Session : Open(s) \/ JoinStep(s) \/ LeaveStep(s) \/ GoneStep(s)
    \/ \E s \in Session : JoinFails(s) \/ LeaveFails(s)
    \/ \E s \in Leaver : State(s) \/ Close(s) \/ Disconnect(s) \/ Reaped(s)
    \/ \E u \in Update : Edit(u) \/ UpdStep(u) \/ UpdFails(u)
    \/ \E p \in Proc : Crash(p) \/ Reconnect(p) \/ \E u \in Update : Deliver(p, u)

Spec == Init /\ [][Next]_vars

\* Update handlers that await Redis are resumed, and the processes go on reading
\* what pub/sub has for them: a message is received or, with Reconnect, lost.
\* Nothing is assumed of clients or of other handlers.
Fairness ==
    /\ WF_upd(\E u \in Update : UpdStep(u))
    /\ WF_wire(\E p \in Proc, u \in Update : Deliver(p, u))

FairSpec == Spec /\ Fairness

-----------------------------------------------------------------------------
(* Properties *)

\* s takes part in the editing: it has been sent the state and is in the room.
Member(s) == view[s] = "synced" /\ s \in room /\ link[s]

\* u has still to be brought to the process of s, or a fault keeps it from s.
Pending(u, s) ==
    u \in wire[Home[s]] \cup missed[s] \/ upd[u] \in InUpdate \cup {"lost"}

\* No gap between the state a client is sent and the updates it is sent after:
\* a member has every update of the others that is in the list, except the ones
\* on their way to it and the ones a compaction has put back.  Joining enters
\* the room before it reads the list, and an update is in the list before it is
\* emitted; this is what fails if either order is reversed.
NoGap ==
    \A s \in Session : Member(s) =>
        \A u \in Contents(updates) :
            u \in doc[s] \/ Author[u] = s \/ u \in back \/ Pending(u, s)

\* The compaction loses nothing: "squash oldest half into one snapshot".
SquashLosesNothing ==
    [][\A u \in Update : CompactWrite(u) => Contents(updates) \subseteq Contents(updates')]_vars

\* It loses nothing as long as no other command has touched the list since the
\* compaction read it.
SquashAloneLosesNothing ==
    [][\A u \in Update : CompactWrite(u) /\ updates = snap[u] =>
         Contents(updates) = Contents(updates')]_vars

\* An update the server has accepted reaches every member, unless its handler
\* is cut short, pub/sub loses it for the member's process, or the member stops
\* being one.
UpdateReachesMembers ==
    \A u \in Update \ Stored : \A s \in Session \ {Author[u]} :
        upd[u] = "append" /\ Member(s) ~>
            u \in doc[s] \cup missed[s] \/ ~Member(s) \/ upd[u] = "lost"
=============================================================================
