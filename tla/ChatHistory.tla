------------------------------ MODULE ChatHistory ------------------------------
(***************************************************************************)
(* The history of one chat of open_webui/models/chats.py: a tree of        *)
(* messages in one JSON value, with links in both directions, mirrored row *)
(* by row in the table chat_message.  The browser tabs of its owner ask,   *)
(* regenerate, save their whole copy of the history and delete messages;   *)
(* the generations save into the messages they answer with.                *)
(*                                                                         *)
(* Every operation reads the whole history and writes it back at a later   *)
(* await, then writes rows, each in a transaction of its own.              *)
(***************************************************************************)
EXTENDS Integers, FiniteSets, Sequences

CONSTANTS
    N,              \* bound: the messages ever made, 1..N in order of creation
    Opening,        \* the messages of the chat at first, a thread 1..Opening
    Tab,            \* browser tabs, each with one request at a time
    MaxLoad         \* bound: requests, overlaps of two requests and faults together

ASSUME ChatHistoryAssumption ==
    /\ N \in Nat
    /\ Opening \in 0..N
    /\ MaxLoad \in Nat

VARIABLES
    chat,       \* the history in the chat row
    rows,       \* chat_message: the messages with a row, and the parent in it
    copy,       \* copy[t]: the history as tab t shows it
    request,    \* request[t]: the request of tab t
    issued,     \* the messages made so far are 1..issued
    asked,      \* those of the role user
    requests,   \* requests made
    overlaps,   \* requests made before another one was over
    faults,     \* requests that died, commits and writes of rows that failed
    outdated    \* a tab asked below a history it had not loaded (history)

vars == <<chat, rows, copy, request, issued, asked, requests, overlaps, faults, outdated>>
counters == <<requests, overlaps, outdated>>

Msg == 1..N
None == 0
Parent == Msg \cup {None}

\* What is not known has no parent and no children.
Histories == [known : SUBSET Msg, parent : [Msg -> Parent],
              kids : [Msg -> SUBSET Msg], current : Parent]
Rows == [known : SUBSET Msg, parent : [Msg -> Parent]]

\* touch: read the chat, change its files and models, write it back.
\* save, hang, link, edit: upserts with all links, with the children only
\* (found by a read of their own), or with none.
Ops == [kind : {"touch", "save", "hang", "link", "edit", "merge", "delete"},
        id : Parent, parent : Parent, kids : SUBSET Msg]
Op(kind, id, parent, kids) == [kind |-> kind, id |-> id, parent |-> parent, kids |-> kids]

NoHistory == [known |-> {}, parent |-> [m \in Msg |-> None],
              kids |-> [m \in Msg |-> {}], current |-> None]
NoRequest == [at |-> "idle", ops |-> <<>>, seen |-> NoHistory, todo |-> {}, gone |-> {}]

TypeOK ==
    /\ chat \in Histories
    /\ rows \in Rows
    /\ copy \in [Tab -> Histories]
    /\ request \in [Tab -> [at : {"idle", "get", "read", "commit", "rows", "map"}, ops : Seq(Ops),
                            seen : Histories, todo : SUBSET Msg, gone : SUBSET Msg]]
    /\ issued \in 0..N
    /\ asked \subseteq 1..issued
    /\ requests \in Nat
    /\ overlaps \in Nat
    /\ faults \in Nat
    /\ outdated \in BOOLEAN
    /\ \A t \in Tab : request[t].at = "rows" => request[t].todo \cup request[t].gone # {}

\* insert_new_chat, and a thread that has grown since.
Opened == [known |-> 1..Opening,
           parent |-> [m \in Msg |-> IF m <= Opening THEN m - 1 ELSE None],
           kids |-> [m \in Msg |-> IF m < Opening THEN {m + 1} ELSE {}],
           current |-> Opening]

Init ==
    /\ chat = Opened
    /\ rows = [known |-> Opened.known, parent |-> Opened.parent]
    /\ copy = [t \in Tab |-> Opened]
    /\ request = [t \in Tab |-> NoRequest]
    /\ issued = Opening
    /\ asked = {m \in 1..Opening : m % 2 = 1}
    /\ requests = 0
    /\ overlaps = 0
    /\ faults = 0
    /\ outdated = FALSE

-----------------------------------------------------------------------------
(* The operations on a history *)

Without(h, gone) ==
    [h EXCEPT !.known = @ \ gone,
              !.parent = [m \in Msg |-> IF m \in gone THEN None ELSE @[m]],
              !.kids = [m \in Msg |-> IF m \in gone THEN {} ELSE @[m]]]

\* _repair_chat_current_id: a current message that is not there becomes the
\* youngest one without children.
Leaves(h) == {m \in h.known : h.kids[m] = {}}
Repaired(h) ==
    IF h.current \in h.known \/ Leaves(h) = {} THEN h
    ELSE [h EXCEPT !.current = CHOOSE m \in Leaves(h) : \A l \in Leaves(h) : l <= m]

\* upsert_message_to_history.  A message that is not there is made; without a
\* parent it goes where a list of children names it.
\* Mutant: where a message names it as its parent.
ParentsBelow(h, op) ==
    LET naming == {p \in h.known : h.parent[p] = op.id}
    IN  IF op.parent # None THEN {op.parent} ELSE IF naming # {} THEN naming ELSE {None}
ParentsFor(h, op) ==
    LET naming == {p \in h.known : op.id \in h.kids[p]}
    IN  IF op.parent # None THEN {op.parent} ELSE IF naming # {} THEN naming ELSE {None}
Upserted(h, op) ==
    IF op.id \in h.known
    THEN {[h EXCEPT !.parent[op.id] = IF op.kind = "save" THEN op.parent ELSE @,
                    !.kids[op.id] = IF op.kind = "edit" THEN @ ELSE op.kids,
                    !.current = op.id]}
    ELSE {[h EXCEPT !.known = @ \cup {op.id},
                    !.parent[op.id] = p,
                    !.kids[op.id] = op.kids,
                    !.current = op.id] : p \in ParentsFor(h, op)}

\* Mutant: the children are kept.
MergedKeeping(h, in) ==
    LET known == h.known \cup in.known
    IN  [known |-> known,
         parent |-> [m \in Msg |-> IF m \in in.known THEN in.parent[m] ELSE h.parent[m]],
         kids |-> [m \in Msg |-> IF m \in in.known THEN in.kids[m] ELSE h.kids[m]],
         current |-> IF in.current \in known THEN in.current
                     ELSE IF h.current \in known THEN h.current ELSE None]

\* merge_history: the union, what comes in wins, the children are made anew.
Merged(h, in) ==
    LET known == h.known \cup in.known
        parent == [m \in Msg |-> IF m \in in.known THEN in.parent[m] ELSE h.parent[m]]
    IN  [known |-> known,
         parent |-> parent,
         kids |-> [p \in Msg |-> IF p \in known THEN {m \in known : parent[m] = p} ELSE {}],
         current |-> IF in.current \in known THEN in.current
                     ELSE IF h.current \in known THEN h.current ELSE None]

\* delete_message_from_history: the message goes with its children, and its
\* grandchildren move up to its parent.
Doomed(h, m) == IF m \in h.known THEN {m} \cup (h.kids[m] \cap h.known) ELSE {}
Cut(h, m) ==
    LET up == h.parent[m]
        grandchildren == UNION {h.kids[c] \cap h.known : c \in h.kids[m] \cap h.known}
        hung == [h EXCEPT !.parent = [x \in Msg |-> IF x \in grandchildren THEN up ELSE @[x]],
                          !.kids = [x \in Msg |-> IF x = up /\ x \in h.known
                                                  THEN (@[x] \ {m}) \cup grandchildren ELSE @[x]]]
    IN  Without(hung, Doomed(h, m))
\* The walk to the current message: down some branch, from the parent or a root.
Ends(h) ==
    LET end[m \in Parent] ==
          LET next == IF m = None THEN {x \in h.known : h.parent[x] = None} ELSE h.kids[m]
          IN  IF next = {} THEN {m} ELSE UNION {end[x] : x \in next}
    IN  end
\* Mutant: wherever the walk ends.
CurrentAfterWalk(h, end) == end
CurrentAfter(h, end) == IF end \in h.known THEN end ELSE None
Deleted(h, m) ==
    IF m \notin h.known THEN {Repaired(h)}
    ELSE LET cut == Cut(h, m)
         IN  {[cut EXCEPT !.current = CurrentAfter(cut, end)] : end \in Ends(cut)[h.parent[m]]}

Outcomes(op, h, in) ==
    CASE op.kind = "touch" -> {h}
      [] op.kind = "merge" -> {Merged(h, in)}
      [] op.kind = "delete" -> Deleted(h, op.id)
      [] OTHER -> Upserted(h, op)

-----------------------------------------------------------------------------
(* What the tabs and the generations ask for *)

Idle(t) == request[t].at = "idle"

FirstStep(op) == IF op.kind \in {"hang", "link"} THEN "get" ELSE "read"
Following(ops) ==
    IF Len(ops) <= 1 THEN NoRequest
    ELSE [NoRequest EXCEPT !.at = FirstStep(ops[2]), !.ops = Tail(ops)]

Tree(h) == <<h.known, h.parent, h.kids>>
Load == requests + overlaps + faults
Alone(t) == \A u \in Tab \ {t} : Idle(u)
Begin(t, ops) ==
    /\ Idle(t)
    /\ Load < MaxLoad
    /\ requests' = requests + 1
    /\ IF Alone(t) THEN UNCHANGED overlaps ELSE Load + 1 < MaxLoad /\ overlaps' = overlaps + 1
    /\ request' = [request EXCEPT ![t] = [NoRequest EXCEPT !.at = FirstStep(ops[1]), !.ops = ops]]
    /\ UNCHANGED <<chat, rows, faults>>

Reload(t) ==
    /\ Idle(t)
    /\ copy[t] # chat
    /\ copy' = [copy EXCEPT ![t] = chat]
    /\ UNCHANGED <<chat, rows, request, issued, asked, counters, faults>>

\* submitPrompt
Asked(h, m, p, kids, a) ==
    [h EXCEPT !.known = @ \cup {m, a},
              !.parent[m] = p, !.parent[a] = m,
              !.kids = [x \in Msg |-> IF x = m THEN kids
                                      ELSE IF x = p THEN @[x] \cup {m} ELSE @[x]],
              !.current = a]

\* chat_completion: message m of the user and the placeholder a of its answer
\* are saved and linked one after the other; the tab has them at once.
Turn(t, m, p, kids, a) ==
    /\ Begin(t, <<Op("touch", None, None, {}), Op("save", m, p, kids)>>
                \o (IF p = None THEN <<>> ELSE <<Op("hang", p, None, {m})>>)
                \o <<Op("link", m, None, {a}), Op("save", a, m, {})>>)
    /\ copy' = [copy EXCEPT ![t] = Asked(@, m, p, kids, a)]
    /\ issued' = a
    /\ outdated' = (outdated \/ Tree(copy[t]) # Tree(chat))

Ask(t, p) ==
    LET m == issued + 1
        a == issued + 2
    IN  /\ a <= N
        /\ p \in copy[t].known \cup {None}
        /\ Turn(t, m, p, {a}, a)
        /\ asked' = asked \cup {m}

\* The message goes with the children that this tab knows of.
Regenerate(t, m) ==
    LET a == issued + 1
    IN  /\ a <= N
        /\ m \in asked \cap copy[t].known
        /\ Turn(t, m, copy[t].parent[m], copy[t].kids[m] \cup {a}, a)
        /\ UNCHANGED asked

\* A generation saves into its message, or the user changes a text.
Edit(t, m) ==
    /\ m \in 1..issued
    /\ Begin(t, <<Op("edit", m, None, {})>>)
    /\ UNCHANGED <<copy, issued, asked, outdated>>

\* The tab shows another branch, or has edited its copy, and saves all of it.
Save(t, shown) ==
    /\ shown \in copy[t].known
    /\ Begin(t, <<Op("merge", None, None, {})>>)
    /\ copy' = [copy EXCEPT ![t].current = shown]
    /\ UNCHANGED <<issued, asked, outdated>>

Delete(t, m) ==
    /\ m \in copy[t].known
    /\ Begin(t, <<Op("delete", m, None, {})>>)
    /\ copy' = [copy EXCEPT ![t] = Cut(@, m)]
    /\ UNCHANGED <<issued, asked, outdated>>

-----------------------------------------------------------------------------
(* The steps of a request *)

\* The children to be written are those of this moment; a missing parent is
\* not linked, and neither is a child that is there.
Get(t) ==
    LET op == request[t].ops[1]
        kids == chat.kids[op.id] \cup op.kids
    IN  /\ request[t].at = "get"
        /\ request' = [request EXCEPT ![t] =
                         IF op.id \in chat.known /\ (op.kind = "link" \/ kids # chat.kids[op.id])
                         THEN [@ EXCEPT !.at = "read", !.ops[1].kids = kids]
                         ELSE Following(@.ops)]
        /\ UNCHANGED <<chat, rows, copy, issued, asked, counters, faults>>

Read(t) ==
    /\ request[t].at = "read"
    /\ request' = [request EXCEPT ![t] = [@ EXCEPT !.at = "commit", !.seen = chat]]
    /\ UNCHANGED <<chat, rows, copy, issued, asked, counters, faults>>

\* Mutant: with nothing to write or delete, too.
RowsAnyway(r, h, todo, gone) == [r EXCEPT !.at = "rows", !.seen = h, !.todo = todo, !.gone = gone]

\* Rows to be written, from the history h, and rows to be deleted after them.
RowsLeft(r, h, todo, gone) ==
    IF todo = {} /\ gone = {} THEN Following(r.ops)
    ELSE [r EXCEPT !.at = "rows", !.seen = h, !.todo = todo, !.gone = gone]

\* Mutant: a deletion writes no rows.
TodoIfAdded(op, h) ==
    CASE op.kind \in {"touch", "delete"} -> {}
      [] op.kind = "merge" -> h.known
      [] OTHER -> {op.id}
Todo(op, h) ==
    CASE op.kind = "touch" -> {}
      [] op.kind \in {"merge", "delete"} -> h.known
      [] OTHER -> {op.id}

\* The tab goes on with the history that answers its deletion.
Commit(t) ==
    LET r == request[t]
        op == r.ops[1]
        gone == IF op.kind = "delete" THEN Doomed(r.seen, op.id) ELSE {}
    IN  /\ r.at = "commit"
        /\ \E h \in Outcomes(op, r.seen, copy[t]) :
             /\ chat' = h
             /\ request' = [request EXCEPT ![t] =
                              RowsLeft(r, h, IF op.kind = "delete" /\ gone = {} THEN {} ELSE Todo(op, h), gone)]
             /\ copy' = IF op.kind = "delete" THEN [copy EXCEPT ![t] = h] ELSE copy
        /\ UNCHANGED <<rows, issued, asked, counters, faults>>

\* ChatMessages.upsert_message
RowWrite(t, m) ==
    LET r == request[t]
    IN  /\ r.at = "rows"
        /\ m \in r.todo
        /\ rows' = [known |-> rows.known \cup {m}, parent |-> [rows.parent EXCEPT ![m] = r.seen.parent[m]]]
        /\ request' = [request EXCEPT ![t] = RowsLeft(r, r.seen, r.todo \ {m}, r.gone)]
        /\ UNCHANGED <<chat, copy, issued, asked, counters, faults>>

\* delete_message_ids_by_chat_id
RowsDrop(t) ==
    LET r == request[t]
    IN  /\ r.at = "rows"
        /\ r.todo = {}
        /\ rows' = [known |-> rows.known \ r.gone,
                    parent |-> [m \in Msg |-> IF m \in r.gone THEN None ELSE rows.parent[m]]]
        /\ request' = [request EXCEPT ![t] = RowsLeft(r, r.seen, {}, {})]
        /\ UNCHANGED <<chat, copy, issued, asked, counters, faults>>

\* get_messages_map_by_chat_id, for the prompt of a generation: parents without
\* a row (all messages, when there is no row at all) are looked up in the chat ...
Gaps == IF rows.known = {} THEN Msg
        ELSE {rows.parent[m] : m \in rows.known} \ (rows.known \cup {None})
LoadMap(t) ==
    /\ Idle(t)
    /\ Gaps # {}
    /\ request' = [request EXCEPT ![t] = [NoRequest EXCEPT !.at = "map", !.todo = Gaps]]
    /\ IF Alone(t) THEN UNCHANGED overlaps ELSE Load < MaxLoad /\ overlaps' = overlaps + 1
    /\ UNCHANGED <<chat, rows, copy, issued, asked, requests, faults, outdated>>

\* Mutant: they are put into the prompt only.
BackfillNothing(t) ==
    LET r == request[t]
    IN  /\ r.at = "map"
        /\ request' = [request EXCEPT ![t] = NoRequest]
        /\ UNCHANGED <<chat, rows, copy, issued, asked, counters, faults>>

\* ... and get their rows back.
Backfill(t) ==
    LET r == request[t]
    IN  /\ r.at = "map"
        /\ request' = [request EXCEPT ![t] = RowsLeft(r, chat, r.todo \cap chat.known, {})]
        /\ UNCHANGED <<chat, rows, copy, issued, asked, counters, faults>>

-----------------------------------------------------------------------------
(* Faults *)

Fault ==
    /\ Load < MaxLoad
    /\ faults' = faults + 1

\* The upsert or the deletion returns nothing and the request goes on; a save
\* of the whole history writes the rows of what was not committed.
CommitFails(t) ==
    LET r == request[t]
    IN  /\ Fault
        /\ r.at = "commit"
        /\ request' = [request EXCEPT ![t] =
                         IF r.ops[1].kind = "merge"
                         THEN LET h == Merged(r.seen, copy[t]) IN RowsLeft(r, h, h.known, {})
                         ELSE Following(r.ops)]
        /\ UNCHANGED <<chat, rows, copy, issued, asked, counters>>

\* A failing write of a row is logged.
RowFails(t, m) ==
    LET r == request[t]
    IN  /\ Fault
        /\ r.at = "rows"
        /\ m \in r.todo
        /\ request' = [request EXCEPT ![t] = RowsLeft(r, r.seen, r.todo \ {m}, r.gone)]
        /\ UNCHANGED <<chat, rows, copy, issued, asked, counters>>

\* The process dies, or the rows cannot be deleted.
Dies(t) ==
    /\ Fault
    /\ ~Idle(t)
    /\ request' = [request EXCEPT ![t] = NoRequest]
    /\ UNCHANGED <<chat, rows, copy, issued, asked, counters>>

-----------------------------------------------------------------------------
Step(t) ==
    Get(t) \/ Read(t) \/ Commit(t) \/ (\E m \in Msg : RowWrite(t, m)) \/ RowsDrop(t) \/ Backfill(t)

Next ==
    \E t \in Tab :
      \/ Reload(t) \/ LoadMap(t) \/ Step(t)
      \/ \E p \in Parent : Ask(t, p)
      \/ \E m \in Msg : \/ Regenerate(t, m) \/ Edit(t, m) \/ Save(t, m) \/ Delete(t, m)
                        \/ RowFails(t, m)
      \/ CommitFails(t) \/ Dies(t)

Spec == Init /\ [][Next]_vars

\* Every await on the database is answered.
FairSpec == Spec /\ \A t \in Tab : WF_vars(Step(t))

-----------------------------------------------------------------------------
(* Properties *)

\* No message is its own ancestor, in the chat, in the rows or in a tab, and no
\* list of children leads back to its owner: walks in both directions end.
NoCycle(known, above) ==
    \A S \in (SUBSET known) \ {{}} : \E m \in S : above[m] \notin S
NoLoop(known, below) ==
    \A S \in (SUBSET known) \ {{}} : \E m \in S : below[m] \cap S = {}
Acyclic ==
    /\ \A h \in {chat} \cup {copy[t] : t \in Tab} :
         NoCycle(h.known, h.parent) /\ NoLoop(h.known, h.kids)
    /\ NoCycle(rows.known, rows.parent)

\* The leaf that tabs and prompts start from is a message of the chat, however
\* old the lists of children are that a deletion has walked down.
CurrentIsMessage == chat.current \in chat.known \cup {None}

AtRest == \A t \in Tab : Idle(t)

\* The two stores of the tree agree whenever all is quiet, whatever old copies
\* the tabs have saved, asked below or deleted from, unless requests overlapped
\* or failed: the rows of every operation are those its commit has changed.
Mirror ==
    (AtRest /\ overlaps = 0 /\ faults = 0) =>
        rows = [known |-> chat.known, parent |-> chat.parent]

\* The separate steps that link, the children made anew by a save and the moves
\* of a deletion add up to a tree: parents are there, and the children of a
\* message are those it is the parent of.  Tabs may save and delete from old
\* copies and generations may save late, but asking below an old copy breaks it.
Sound ==
    (AtRest /\ overlaps = 0 /\ ~outdated /\ faults = 0) =>
        \A m \in chat.known :
          /\ chat.parent[m] \in chat.known \cup {None}
          /\ chat.kids[m] = {c \in chat.known : chat.parent[c] = m}

\* "Future requests self-heal": whatever rows faults or overlaps have left out,
\* the prompts that follow fill all gaps above a row that the chat can fill.
Heals ==
    (\E t \in Tab : WF_vars(LoadMap(t))) => <>[](Gaps \cap chat.known = {})
=============================================================================
