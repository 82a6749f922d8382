-------------------------- MODULE ChatHistory_proofs --------------------------
(***************************************************************************)
(* ChatHistory for every number of messages, tabs, requests and faults:    *)
(* its types, that no walk along the links is endless, and that the        *)
(* current message of the chat exists.  A link always leads from an older  *)
(* message to a younger one, whichever copies are written over each other. *)
(***************************************************************************)
EXTENDS ChatHistory, WellFoundedInduction, SequenceTheorems, TLAPS

USE ChatHistoryAssumption DEF ChatHistoryAssumption

-----------------------------------------------------------------------------
(* The inductive invariant *)

Upserting == {"save", "hang", "link", "edit"}

\* Links by age, among the messages 1..n.
AgedHistories(n) ==
    {h \in Histories :
        /\ h.known \subseteq 1..n
        /\ \A m \in Msg : h.parent[m] < m
        /\ \A m \in Msg : \A c \in h.kids[m] : m < c}
AgedRows == {r \in Rows : \A m \in Msg : r.parent[m] < m}
AgedOps(n) ==
    {op \in Ops :
        /\ op.id <= n
        /\ op.kind \in Upserting => op.id \in Msg
        /\ op.parent = None \/ op.parent < op.id
        /\ \A c \in op.kids : op.id < c}

Plain(h) == \A m \in Msg \ h.known : h.parent[m] = None
Pointed(h) == h.current \in h.known \cup {None}
Places == {"idle", "get", "read", "commit", "rows", "map"}
AgedRequests(n) ==
    {r \in [at : Places, ops : Seq(AgedOps(n)), seen : AgedHistories(n),
            todo : SUBSET Msg, gone : SUBSET Msg] :
        /\ r.at \in {"get", "read", "commit"} => r.ops # <<>>
        /\ r.at = "rows" => r.todo \cup r.gone # {}
        /\ Pointed(r.seen)}

AgedStore ==
    /\ chat \in AgedHistories(issued) /\ Pointed(chat)
    /\ rows \in AgedRows
AgedTabs ==
    /\ copy \in [Tab -> AgedHistories(issued)]
    /\ request \in [Tab -> AgedRequests(issued)]
Counted ==
    /\ issued \in 0..N
    /\ asked \subseteq 1..issued
    /\ requests \in Nat /\ overlaps \in Nat /\ faults \in Nat /\ outdated \in BOOLEAN
Aged == AgedStore /\ AgedTabs /\ Counted

-----------------------------------------------------------------------------
(* Ends of walks *)

LEMMA AgedRequestFields ==
    ASSUME NEW n, NEW r \in AgedRequests(n)
    PROVE  /\ r.ops \in Seq(AgedOps(n)) /\ r.seen \in AgedHistories(n) /\ Pointed(r.seen)
           /\ r.todo \in SUBSET Msg /\ r.gone \in SUBSET Msg
           /\ r.at \in {"get", "read", "commit"} => r.ops # <<>>
           /\ r.at = "rows" => r.todo \cup r.gone # {}
BY DEF AgedRequests

LEMMA OldestExists ==
    ASSUME NEW S \in SUBSET Nat, S # {}
    PROVE  \E m \in S : \A l \in S : m <= l
<1>1. PICK m \in S : \A l \in S : ~(<<l, m>> \in OpToRel(<, Nat))
  BY NatLessThanWellFounded, WFMin
<1>2. \A l \in S : ~(l < m)
  BY <1>1 DEF OpToRel
<1>3. QED
  BY <1>2

LEMMA YoungestExists ==
    ASSUME NEW S \in SUBSET Msg, S # {}
    PROVE  \E m \in S : \A l \in S : l <= m
<1> DEFINE Years == {N - m : m \in S}
<1>1. Years \in SUBSET Nat /\ Years # {}
  <2>1. \A m \in S : N - m \in Nat
    BY DEF Msg
  <2>2. QED
    BY <2>1
<1>2. PICK y \in Years : \A z \in Years : y <= z
  BY <1>1, OldestExists
<1>3. PICK m \in S : y = N - m
  OBVIOUS
<1>4. \A l \in S : N - l \in Years
  OBVIOUS
<1>5. \A l \in S : N - m <= N - l
  BY <1>2, <1>3, <1>4
<1>6. ASSUME NEW l \in S PROVE l <= m
  <2>1. N - m <= N - l
    BY <1>5
  <2>2. l \in Int /\ m \in Int /\ N \in Int
    BY DEF Msg
  <2>3. QED
    BY ONLY <2>1, <2>2
<1>7. QED
  BY ONLY <1>6

\* A walk up the parents of an aged history ends, and so does one down the children.
LEMMA AgedEnds ==
    ASSUME NEW known \in SUBSET Msg, NEW above \in [Msg -> Parent], NEW below \in [Msg -> SUBSET Msg]
    PROVE  /\ (\A m \in Msg : above[m] < m) => NoCycle(known, above)
           /\ (\A m \in Msg : \A c \in below[m] : m < c) => NoLoop(known, below)
<1>1. ASSUME \A m \in Msg : above[m] < m, NEW S \in (SUBSET known) \ {{}}
      PROVE  \E m \in S : above[m] \notin S
  <2>1. S \in SUBSET Nat /\ S \subseteq Msg /\ S # {}
    BY <1>1 DEF Msg
  <2>2. PICK m \in S : \A l \in S : m <= l
    BY <2>1, OldestExists
  <2>3. above[m] \in Nat /\ above[m] < m /\ m \in Nat
    BY <1>1, <2>1 DEF Parent, Msg, None
  <2>4. QED
    BY <2>2, <2>3
<1>2. ASSUME \A m \in Msg : \A c \in below[m] : m < c, NEW S \in (SUBSET known) \ {{}}
      PROVE  \E m \in S : below[m] \cap S = {}
  <2>1. S \in SUBSET Msg /\ S # {}
    BY <1>2
  <2>2. PICK m \in S : \A l \in S : l <= m
    BY <2>1, YoungestExists
  <2>3. ASSUME NEW c \in below[m], c \in S PROVE FALSE
    <3>1. m < c /\ c <= m /\ m \in Nat /\ c \in Nat
      BY <1>2, <2>1, <2>2, <2>3 DEF Msg
    <3>2. QED
      BY <3>1
  <2>4. QED
    BY <2>3
<1>3. QED
  BY <1>1, <1>2 DEF NoCycle, NoLoop

-----------------------------------------------------------------------------
(* What the operations on a history keep *)

LEMMA OlderOps ==
    ASSUME NEW n \in Nat, NEW k \in Nat, n <= k
    PROVE  /\ AgedHistories(n) \subseteq AgedHistories(k)
           /\ AgedOps(n) \subseteq AgedOps(k)
           /\ AgedRequests(n) \subseteq AgedRequests(k)
<1>1. AgedHistories(n) \subseteq AgedHistories(k)
  BY DEF AgedHistories
<1>2. AgedOps(n) \subseteq AgedOps(k)
  BY DEF AgedOps, Ops, Parent, Msg, None
<1>3. Seq(AgedOps(n)) \subseteq Seq(AgedOps(k))
  BY <1>2
<1>4. QED
  BY <1>1, <1>2, <1>3 DEF AgedRequests

LEMMA UpsertedAged ==
    ASSUME NEW n \in Nat, NEW h \in AgedHistories(n), NEW op \in AgedOps(n),
           op.kind \in Upserting, NEW g \in Upserted(h, op)
    PROVE  g \in AgedHistories(n) /\ Pointed(g)
<1> USE DEF AgedHistories, Histories, AgedOps, Ops
<1>1. op.id \in Msg /\ op.id \in 1..n /\ op.parent \in Parent /\ op.parent < op.id
  BY DEF Msg, Parent, None
<1>2. CASE op.id \in h.known
  <2>1. g = [h EXCEPT !.parent[op.id] = IF op.kind = "save" THEN op.parent ELSE @,
                      !.kids[op.id] = IF op.kind = "edit" THEN @ ELSE op.kids,
                      !.current = op.id]
    BY <1>2 DEF Upserted
  <2>2. g \in Histories
    BY <1>1, <2>1 DEF Parent
  <2>3. g.known = h.known /\ g.current = op.id
    BY <2>1
  <2>4. \A m \in Msg : g.parent[m] < m
    BY <1>1, <2>1
  <2>5. \A m \in Msg : \A c \in g.kids[m] : m < c
    BY <1>1, <2>1
  <2>6. QED
    BY <1>2, <2>2, <2>3, <2>4, <2>5 DEF Pointed
<1>3. CASE op.id \notin h.known
  <2>1. PICK p \in ParentsFor(h, op) :
          g = [h EXCEPT !.known = @ \cup {op.id}, !.parent[op.id] = p,
                        !.kids[op.id] = op.kids, !.current = op.id]
    BY <1>3 DEF Upserted
  <2>2. p \in Parent /\ p < op.id
    BY <1>1 DEF ParentsFor, Parent, Msg, None
  <2>3. g \in Histories /\ g.known = h.known \cup {op.id} /\ g.current = op.id
    BY <1>1, <2>1, <2>2 DEF Parent
  <2>4. \A m \in Msg : g.parent[m] < m
    BY <1>1, <2>1, <2>2
  <2>5. \A m \in Msg : \A c \in g.kids[m] : m < c
    BY <1>1, <2>1
  <2>6. QED
    BY <1>1, <2>3, <2>4, <2>5 DEF Pointed
<1>4. QED
  BY <1>2, <1>3

LEMMA MergedAged ==
    ASSUME NEW n \in Nat, NEW h \in AgedHistories(n), NEW in \in AgedHistories(n)
    PROVE  Merged(h, in) \in AgedHistories(n) /\ Pointed(Merged(h, in))
<1> DEFINE g == Merged(h, in)
<1> USE DEF AgedHistories, Histories
<1>1. g.known = h.known \cup in.known /\ g.current \in g.known \cup {None}
  BY DEF Merged
<1>2. g.parent = [m \in Msg |-> IF m \in in.known THEN in.parent[m] ELSE h.parent[m]]
  BY DEF Merged
<1>3. g.kids = [p \in Msg |-> IF p \in g.known THEN {m \in g.known : g.parent[m] = p} ELSE {}]
  BY DEF Merged
<1>4. g = [known |-> g.known, parent |-> g.parent, kids |-> g.kids, current |-> g.current]
  BY DEF Merged
<1>5. \A m \in Msg : g.parent[m] \in Parent /\ g.parent[m] < m
  BY <1>2
<1>6. \A m \in Msg : \A c \in g.kids[m] : m < c
  BY <1>1, <1>3, <1>5
<1>7. g \in Histories
  <2>1. g.known \in SUBSET Msg /\ g.current \in Parent
    BY <1>1 DEF Parent
  <2>2. g.parent \in [Msg -> Parent]
    BY <1>2
  <2>3. g.kids \in [Msg -> SUBSET Msg]
    BY <1>3, <2>1
  <2> HIDE DEF g
  <2>4. QED
    BY <1>4, <2>1, <2>2, <2>3
<1> HIDE DEF g
<1>8. g \in AgedHistories(n) /\ Pointed(g)
  BY <1>1, <1>5, <1>6, <1>7 DEF Pointed
<1>9. QED
  BY <1>8 DEF g

LEMMA WithoutAged ==
    ASSUME NEW n \in Nat, NEW h \in AgedHistories(n), NEW gone
    PROVE  /\ Without(h, gone) \in AgedHistories(n)
           /\ Without(h, gone).known = h.known \ gone
           /\ Plain(h) => Plain(Without(h, gone))
<1> USE DEF AgedHistories, Histories
<1> DEFINE parent == [m \in Msg |-> IF m \in gone THEN None ELSE h.parent[m]]
           kids == [m \in Msg |-> IF m \in gone THEN {} ELSE h.kids[m]]
           g == [h EXCEPT !.known = h.known \ gone, !.parent = parent, !.kids = kids]
<1>1. Without(h, gone) = g
  BY DEF Without
<1>2. parent \in [Msg -> Parent] /\ \A m \in Msg : parent[m] < m
  BY DEF Parent, Msg, None
<1>3. kids \in [Msg -> SUBSET Msg] /\ \A m \in Msg : \A c \in kids[m] : m < c
  OBVIOUS
<1> HIDE DEF parent, kids
<1>4. g \in Histories /\ g.known = h.known \ gone /\ g.parent = parent /\ g.kids = kids
  BY <1>2, <1>3
<1> HIDE DEF g
<1>5. Plain(h) => Plain(g)
  BY <1>4 DEF Plain, parent
<1>6. QED
  BY <1>1, <1>2, <1>3, <1>4, <1>5

LEMMA CutAged ==
    ASSUME NEW n \in Nat, NEW h \in AgedHistories(n), NEW m \in h.known
    PROVE  /\ Cut(h, m) \in AgedHistories(n)
           /\ Cut(h, m).known = h.known \ Doomed(h, m)
           /\ Plain(h) => Plain(Cut(h, m))
<1> USE DEF AgedHistories, Histories
<1> DEFINE up == h.parent[m]
           grandchildren == UNION {h.kids[c] \cap h.known : c \in h.kids[m] \cap h.known}
           parent == [x \in Msg |-> IF x \in grandchildren THEN up ELSE h.parent[x]]
           kids == [x \in Msg |-> IF x = up /\ x \in h.known
                                  THEN (h.kids[x] \ {m}) \cup grandchildren ELSE h.kids[x]]
           hung == [h EXCEPT !.parent = parent, !.kids = kids]
<1>1. Cut(h, m) = Without(hung, Doomed(h, m))
  BY DEF Cut
<1>2. m \in Msg /\ m \in Nat /\ up \in Parent /\ up \in Nat /\ up < m
  BY DEF Parent, Msg, None
<1>3. \A x \in grandchildren : x \in Msg /\ x \in Nat /\ m < x
  <2> SUFFICES ASSUME NEW c \in h.kids[m] \cap h.known, NEW x \in h.kids[c] \cap h.known
               PROVE  x \in Msg /\ x \in Nat /\ m < x
    OBVIOUS
  <2>1. c \in Nat /\ x \in Nat /\ c \in Msg /\ x \in Msg
    BY DEF Msg
  <2>2. m < c /\ c < x
    BY <1>2, <2>1
  <2>3. QED
    BY <1>2, <2>1, <2>2
<1> HIDE DEF up, grandchildren
<1>4. parent \in [Msg -> Parent] /\ \A x \in Msg : parent[x] < x
  BY <1>2, <1>3 DEF Parent, None, Msg
<1>5. \A x \in Msg : kids[x] \subseteq Msg /\ \A c \in kids[x] : x < c
  <2> SUFFICES ASSUME NEW x \in Msg, NEW c \in kids[x]
               PROVE  c \in Msg /\ x < c
    OBVIOUS
  <2>1. c \in h.kids[x] \/ (x = up /\ c \in grandchildren)
    OBVIOUS
  <2>2. CASE c \in h.kids[x]
    BY <2>2
  <2>3. CASE x = up /\ c \in grandchildren
    BY <1>2, <1>3, <2>3
  <2>4. QED
    BY <2>1, <2>2, <2>3
<1>6. kids \in [Msg -> SUBSET Msg]
  BY <1>5
<1> HIDE DEF parent, kids
<1>7. hung \in Histories /\ hung.known = h.known /\ hung.parent = parent /\ hung.kids = kids
  BY <1>4, <1>6
<1> HIDE DEF hung
<1>8. hung \in AgedHistories(n)
  BY <1>4, <1>5, <1>7
<1>9. Plain(h) => Plain(hung)
  <2>1. grandchildren \subseteq h.known
    BY DEF grandchildren
  <2>2. QED
    BY <1>7, <2>1 DEF Plain, parent
<1>10. QED
  BY <1>1, <1>7, <1>8, <1>9, WithoutAged

LEMMA RepairedAged ==
    ASSUME NEW n \in Nat, NEW h \in AgedHistories(n), Pointed(h)
    PROVE  Repaired(h) \in AgedHistories(n) /\ Pointed(Repaired(h))
<1> USE DEF AgedHistories, Histories
<1>1. CASE h.current \in h.known \/ Leaves(h) = {}
  BY <1>1 DEF Repaired
<1>2. CASE ~(h.current \in h.known \/ Leaves(h) = {})
  <2> DEFINE leaf == CHOOSE m \in Leaves(h) : \A l \in Leaves(h) : l <= m
  <2>1. Leaves(h) \in SUBSET Msg /\ Leaves(h) # {}
    BY <1>2 DEF Leaves
  <2>2. leaf \in Leaves(h)
    BY <2>1, YoungestExists
  <2>3. leaf \in h.known /\ leaf \in Msg
    BY <2>1, <2>2 DEF Leaves
  <2>4. Repaired(h) = [h EXCEPT !.current = leaf]
    BY <1>2 DEF Repaired
  <2> HIDE DEF leaf
  <2>5. QED
    BY <2>3, <2>4 DEF Pointed, Parent
<1>3. QED
  BY <1>1, <1>2

LEMMA DeletedAged ==
    ASSUME NEW n \in Nat, NEW h \in AgedHistories(n), Pointed(h), NEW m, NEW g \in Deleted(h, m)
    PROVE  g \in AgedHistories(n) /\ Pointed(g)
<1>1. CASE m \notin h.known
  BY <1>1, RepairedAged DEF Deleted
<1>2. CASE m \in h.known
  <2> DEFINE cut == Cut(h, m)
  <2>1. cut \in AgedHistories(n)
    BY <1>2, CutAged
  <2>2. PICK end : g = [cut EXCEPT !.current = CurrentAfter(cut, end)]
    BY <1>2 DEF Deleted
  <2>3. CurrentAfter(cut, end) \in cut.known \cup {None}
    BY DEF CurrentAfter
  <2> HIDE DEF cut
  <2>4. QED
    BY <2>1, <2>2, <2>3 DEF AgedHistories, Histories, Pointed, Parent
<1>3. QED
  BY <1>1, <1>2

LEMMA OutcomesAged ==
    ASSUME NEW n \in Nat, NEW op \in AgedOps(n), NEW h \in AgedHistories(n), Pointed(h),
           NEW in \in AgedHistories(n), NEW g \in Outcomes(op, h, in)
    PROVE  g \in AgedHistories(n) /\ Pointed(g)
<1>1. CASE op.kind = "touch"
  BY <1>1 DEF Outcomes
<1>2. CASE op.kind = "merge"
  BY <1>2, MergedAged DEF Outcomes
<1>3. CASE op.kind = "delete"
  BY <1>3, DeletedAged DEF Outcomes
<1>4. CASE op.kind \in Upserting
  BY <1>4, UpsertedAged DEF Outcomes, Upserting
<1>5. QED
  BY <1>1, <1>2, <1>3, <1>4 DEF AgedOps, Ops, Upserting

-----------------------------------------------------------------------------
(* What the steps of a request keep *)

LEMMA NoRequestAged ==
    ASSUME NEW n \in Nat
    PROVE  NoHistory \in AgedHistories(n) /\ NoRequest \in AgedRequests(n)
<1>1. NoHistory \in AgedHistories(n) /\ Pointed(NoHistory)
  BY DEF NoHistory, AgedHistories, Histories, Parent, Msg, None, Pointed
<1>2. <<>> \in Seq(AgedOps(n))
  OBVIOUS
<1>3. QED
  BY <1>1, <1>2 DEF NoRequest, AgedRequests, Places

LEMMA BegunAged ==
    ASSUME NEW n \in Nat, NEW ops \in Seq(AgedOps(n)), ops # <<>>, NEW op
    PROVE  [NoRequest EXCEPT !.at = FirstStep(op), !.ops = ops] \in AgedRequests(n)
<1>1. FirstStep(op) \in {"get", "read"}
  BY DEF FirstStep
<1>2. NoRequest \in AgedRequests(n)
  BY NoRequestAged
<1>3. QED
  BY <1>1, <1>2 DEF AgedRequests, Places

LEMMA FollowingAged ==
    ASSUME NEW n \in Nat, NEW ops \in Seq(AgedOps(n))
    PROVE  Following(ops) \in AgedRequests(n)
<1>1. CASE Len(ops) <= 1
  BY <1>1, NoRequestAged DEF Following
<1>2. CASE ~(Len(ops) <= 1)
  <2>1. Tail(ops) \in Seq(AgedOps(n)) /\ Len(Tail(ops)) # 0
    <3>1. ops # <<>> /\ Len(ops) \in Nat /\ Len(ops) > 1
      BY <1>2, EmptySeq
    <3>2. Tail(ops) \in Seq(AgedOps(n)) /\ Len(Tail(ops)) = Len(ops) - 1
      BY <3>1, HeadTailProperties
    <3>3. \A i \in Nat : i > 1 => i - 1 # 0
      OBVIOUS
    <3>4. QED
      BY <3>1, <3>2, <3>3, Zenon
  <2>2. Tail(ops) # <<>>
    BY <2>1, EmptySeq
  <2>3. QED
    BY <1>2, <2>1, <2>2, BegunAged DEF Following
<1>3. QED
  BY <1>1, <1>2

LEMMA RowsLeftAged ==
    ASSUME NEW n \in Nat, NEW r \in AgedRequests(n), NEW h \in AgedHistories(n), Pointed(h),
           NEW todo \in SUBSET Msg, NEW gone \in SUBSET Msg
    PROVE  RowsLeft(r, h, todo, gone) \in AgedRequests(n)
<1>1. CASE todo = {} /\ gone = {}
  <2>1. r.ops \in Seq(AgedOps(n))
    BY DEF AgedRequests
  <2>2. QED
    BY <1>1, <2>1, FollowingAged DEF RowsLeft
<1>2. CASE ~(todo = {} /\ gone = {})
  <2>1. RowsLeft(r, h, todo, gone) = [r EXCEPT !.at = "rows", !.seen = h, !.todo = todo, !.gone = gone]
    BY <1>2 DEF RowsLeft
  <2>2. todo \cup gone # {}
    BY <1>2
  <2>3. QED
    BY <2>1, <2>2 DEF AgedRequests, Places
<1>3. QED
  BY <1>1, <1>2

LEMMA GetAged ==
    ASSUME Aged, NEW t \in Tab, Get(t)
    PROVE  Aged'
<1> DEFINE r == request[t]
           op == r.ops[1]
           kids == chat.kids[op.id] \cup op.kids
<1>1. r \in AgedRequests(issued) /\ r.at = "get" /\ r.ops \in Seq(AgedOps(issued)) /\ r.ops # <<>>
  BY DEF Aged, AgedTabs, Get, AgedRequests
<1>2. op \in AgedOps(issued) /\ 1 \in 1..Len(r.ops)
  BY <1>1
<1>3. issued \in Nat /\ chat \in AgedHistories(issued)
  BY DEF Aged, AgedStore, Counted
<1>4. Following(r.ops) \in AgedRequests(issued)
  BY <1>1, <1>3, FollowingAged
<1>5. ASSUME op.id \in chat.known
      PROVE  [r EXCEPT !.at = "read", !.ops[1].kids = kids] \in AgedRequests(issued)
  <2> DEFINE linked == [op EXCEPT !.kids = kids]
             ops == [r.ops EXCEPT ![1] = linked]
  <2>1. op.id \in Msg /\ chat.kids[op.id] \subseteq Msg /\ \A c \in chat.kids[op.id] : op.id < c
    BY <1>3, <1>5 DEF AgedHistories, Histories
  <2>2. op \in Ops /\ op.kids \subseteq Msg
    BY <1>2 DEF AgedOps, Ops
  <2>3. linked \in AgedOps(issued)
    <3>1. kids \subseteq Msg /\ \A c \in kids : op.id < c
      BY <1>2, <2>1, <2>2 DEF AgedOps
    <3> HIDE DEF kids, op
    <3>2. linked \in Ops
      BY <2>2, <3>1 DEF Ops
    <3>3. /\ linked.id = op.id /\ linked.kind = op.kind /\ linked.parent = op.parent
          /\ linked.kids = kids
      BY <2>2 DEF Ops
    <3> HIDE DEF linked
    <3>4. QED
      BY <1>2, <3>1, <3>2, <3>3 DEF AgedOps
  <2> HIDE DEF linked
  <2>4. ops \in Seq(AgedOps(issued)) /\ ops # <<>>
    BY <1>1, <1>2, <2>3
  <2>5. [r EXCEPT !.at = "read", !.ops = ops] \in AgedRequests(issued)
    <3> HIDE DEF ops
    <3>1. QED
      BY <1>1, <2>4 DEF AgedRequests, Places
  <2>6. QED
    BY <2>5 DEF linked
<1>6. request' \in [Tab -> AgedRequests(issued)]
  <2>1. \/ /\ request' = [request EXCEPT ![t] = [r EXCEPT !.at = "read", !.ops[1].kids = kids]]
           /\ op.id \in chat.known
        \/ request' = [request EXCEPT ![t] = Following(r.ops)]
    BY DEF Get
  <2> HIDE DEF r, op, kids
  <2>2. QED
    BY <1>4, <1>5, <2>1 DEF Aged, AgedTabs
<1>7. UNCHANGED <<chat, rows, copy, issued, asked, counters, faults>>
  BY DEF Get
<1>8. QED
  BY <1>6, <1>7 DEF Aged, AgedStore, AgedTabs, Counted, counters

LEMMA ReadAged ==
    ASSUME Aged, NEW t \in Tab, Read(t)
    PROVE  Aged'
<1>1. request[t] \in AgedRequests(issued) /\ request[t].at = "read"
  BY DEF Aged, AgedTabs, Read
<1>2. [request[t] EXCEPT !.at = "commit", !.seen = chat] \in AgedRequests(issued)
  BY <1>1 DEF AgedRequests, Places, Aged, AgedStore
<1>3. QED
  BY <1>2 DEF Read, Aged, AgedStore, AgedTabs, Counted, counters

LEMMA CommitAged ==
    ASSUME Aged, NEW t \in Tab, Commit(t)
    PROVE  Aged'
<1> DEFINE r == request[t]
           op == r.ops[1]
           gone == IF op.kind = "delete" THEN Doomed(r.seen, op.id) ELSE {}
<1>1. r \in AgedRequests(issued) /\ r.at = "commit" /\ r.ops \in Seq(AgedOps(issued)) /\ r.ops # <<>>
  BY DEF Aged, AgedTabs, Commit, AgedRequests
<1>2. op \in AgedOps(issued) /\ issued \in Nat /\ copy[t] \in AgedHistories(issued)
  BY <1>1 DEF Aged, AgedTabs, Counted
<1>3. r.seen \in AgedHistories(issued) /\ Pointed(r.seen)
  BY <1>1 DEF AgedRequests
<1>4. gone \in SUBSET Msg
  BY <1>3 DEF Doomed, AgedHistories, Histories
<1>5. PICK h \in Outcomes(op, r.seen, copy[t]) :
        /\ chat' = h
        /\ request' = [request EXCEPT ![t] =
                         RowsLeft(r, h, IF op.kind = "delete" /\ gone = {} THEN {} ELSE Todo(op, h), gone)]
        /\ copy' = IF op.kind = "delete" THEN [copy EXCEPT ![t] = h] ELSE copy
  BY DEF Commit
<1> HIDE DEF gone
<1>6. h \in AgedHistories(issued) /\ Pointed(h)
  BY <1>2, <1>3, OutcomesAged
<1>7. (IF op.kind = "delete" /\ gone = {} THEN {} ELSE Todo(op, h)) \in SUBSET Msg
  <2>1. h.known \subseteq Msg
    BY <1>6 DEF AgedHistories, Histories
  <2>2. op.kind \in Upserting => op.id \in Msg
    BY <1>2 DEF AgedOps
  <2>3. op.kind \in Upserting \cup {"touch", "merge", "delete"}
    BY <1>2 DEF AgedOps, Ops, Upserting
  <2> HIDE DEF op
  <2>4. CASE op.kind = "touch"
    BY <2>4 DEF Todo
  <2>5. CASE op.kind \in {"merge", "delete"}
    BY <2>1, <2>5 DEF Todo
  <2>6. CASE op.kind \in Upserting
    BY <2>2, <2>6 DEF Todo, Upserting
  <2>7. QED
    BY <2>3, <2>4, <2>5, <2>6
<1>8. RowsLeft(r, h, IF op.kind = "delete" /\ gone = {} THEN {} ELSE Todo(op, h), gone) \in AgedRequests(issued)
  BY <1>1, <1>2, <1>4, <1>6, <1>7, RowsLeftAged
<1>9. request' \in [Tab -> AgedRequests(issued)] /\ copy' \in [Tab -> AgedHistories(issued)]
  BY <1>5, <1>6, <1>8 DEF Aged, AgedTabs
<1>10. QED
  BY <1>5, <1>6, <1>9 DEF Commit, Aged, AgedStore, AgedTabs, Counted, counters

LEMMA RowStepsAged ==
    ASSUME Aged, NEW t \in Tab,
           (\E m \in Msg : RowWrite(t, m)) \/ RowsDrop(t) \/ Backfill(t) \/ LoadMap(t)
    PROVE  Aged'
<1> DEFINE r == request[t]
<1>1. /\ r \in AgedRequests(issued) /\ issued \in Nat
      /\ r.seen \in AgedHistories(issued) /\ Pointed(r.seen)
      /\ r.todo \in SUBSET Msg /\ r.gone \in SUBSET Msg
  BY DEF Aged, AgedTabs, Counted, AgedRequests
<1>2. /\ chat \in AgedHistories(issued) /\ Pointed(chat) /\ chat.known \subseteq Msg
      /\ rows \in AgedRows /\ request \in [Tab -> AgedRequests(issued)]
  BY DEF Aged, AgedStore, AgedTabs, AgedHistories, Histories
<1>3. ASSUME NEW m \in Msg, RowWrite(t, m) PROVE Aged'
  <2>1. RowsLeft(r, r.seen, r.todo \ {m}, r.gone) \in AgedRequests(issued)
    <3>1. r.todo \ {m} \in SUBSET Msg
      BY <1>1
    <3>2. QED
      BY <1>1, <3>1, RowsLeftAged
  <2>2. request' \in [Tab -> AgedRequests(issued)]
    BY <1>2, <1>3, <2>1 DEF RowWrite
  <2>3. r.seen.parent[m] \in Parent /\ r.seen.parent[m] < m
    BY <1>1 DEF AgedHistories, Histories
  <2>4. rows' \in AgedRows
    BY <1>2, <1>3, <2>3 DEF RowWrite, AgedRows, Rows
  <2>5. QED
    BY <1>3, <2>2, <2>4 DEF RowWrite, Aged, AgedStore, AgedTabs, Counted, counters
<1>4. ASSUME RowsDrop(t) PROVE Aged'
  <2>1. RowsLeft(r, r.seen, {}, {}) \in AgedRequests(issued)
    BY <1>1, RowsLeftAged
  <2>2. request' \in [Tab -> AgedRequests(issued)]
    BY <1>2, <1>4, <2>1 DEF RowsDrop
  <2>3. rows' \in AgedRows
    <3>1. \A m \in Msg : None \in Parent /\ None < m /\ rows.parent[m] \in Parent /\ rows.parent[m] < m
      BY <1>2 DEF AgedRows, Rows, Parent, Msg, None
    <3>2. rows.known \ r.gone \in SUBSET Msg
      BY <1>2 DEF AgedRows, Rows
    <3>3. rows' = [known |-> rows.known \ r.gone,
                   parent |-> [m \in Msg |-> IF m \in r.gone THEN None ELSE rows.parent[m]]]
      BY <1>4 DEF RowsDrop
    <3>4. rows' \in Rows /\ \A m \in Msg : rows'.parent[m] = IF m \in r.gone THEN None ELSE rows.parent[m]
      BY <3>1, <3>2, <3>3 DEF Rows
    <3>5. QED
      BY <3>1, <3>4 DEF AgedRows
  <2>4. QED
    BY <1>4, <2>2, <2>3 DEF RowsDrop, Aged, AgedStore, AgedTabs, Counted, counters
<1>5. ASSUME Backfill(t) PROVE Aged'
  <2>1. r.todo \cap chat.known \in SUBSET Msg
    BY <1>1
  <2>2. RowsLeft(r, chat, r.todo \cap chat.known, {}) \in AgedRequests(issued)
    BY <1>1, <1>2, <2>1, RowsLeftAged
  <2>3. request' \in [Tab -> AgedRequests(issued)]
    BY <1>2, <1>5, <2>2 DEF Backfill
  <2>4. QED
    BY <1>5, <2>3 DEF Backfill, Aged, AgedStore, AgedTabs, Counted, counters
<1>6. ASSUME LoadMap(t) PROVE Aged'
  <2>1. Gaps \in SUBSET Msg
    BY <1>2 DEF Gaps, AgedRows, Rows, Parent
  <2>2. [NoRequest EXCEPT !.at = "map", !.todo = Gaps] \in AgedRequests(issued)
    BY <1>1, <2>1, NoRequestAged DEF AgedRequests, Places
  <2>3. request' \in [Tab -> AgedRequests(issued)]
    BY <1>2, <1>6, <2>2 DEF LoadMap
  <2>4. overlaps' \in Nat
    BY <1>6 DEF LoadMap, Aged, Counted
  <2>5. QED
    BY <1>6, <2>3, <2>4 DEF LoadMap, Aged, AgedStore, AgedTabs, Counted
<1>7. QED
  BY <1>3, <1>4, <1>5, <1>6

LEMMA FaultsAged ==
    ASSUME Aged, NEW t \in Tab, CommitFails(t) \/ (\E m \in Msg : RowFails(t, m)) \/ Dies(t)
    PROVE  Aged'
<1> DEFINE r == request[t]
<1>1. /\ r \in AgedRequests(issued) /\ issued \in Nat /\ r.ops \in Seq(AgedOps(issued))
      /\ r.seen \in AgedHistories(issued) /\ Pointed(r.seen)
      /\ r.todo \in SUBSET Msg /\ r.gone \in SUBSET Msg
  BY DEF Aged, AgedTabs, Counted, AgedRequests
<1>2. request \in [Tab -> AgedRequests(issued)] /\ copy[t] \in AgedHistories(issued) /\ faults \in Nat
  BY DEF Aged, AgedTabs, Counted
<1>3. Following(r.ops) \in AgedRequests(issued) /\ NoRequest \in AgedRequests(issued)
  BY <1>1, FollowingAged, NoRequestAged
<1>4. ASSUME NEW g \in AgedRequests(issued), request' = [request EXCEPT ![t] = g], Fault,
             UNCHANGED <<chat, rows, copy, issued, asked, counters>>
      PROVE  Aged'
  BY <1>2, <1>4 DEF Fault, Aged, AgedStore, AgedTabs, Counted, counters
<1>5. ASSUME CommitFails(t) PROVE Aged'
  <2> DEFINE h == Merged(r.seen, copy[t])
  <2>1. h \in AgedHistories(issued) /\ Pointed(h)
    BY <1>1, <1>2, MergedAged
  <2>2. h.known \in SUBSET Msg
    BY <2>1 DEF AgedHistories, Histories
  <2> HIDE DEF h
  <2>3. RowsLeft(r, h, h.known, {}) \in AgedRequests(issued)
    BY <1>1, <2>1, <2>2, RowsLeftAged
  <2>4. \/ request' = [request EXCEPT ![t] = RowsLeft(r, h, h.known, {})]
        \/ request' = [request EXCEPT ![t] = Following(r.ops)]
    BY <1>5 DEF CommitFails, h
  <2>5. QED
    BY <1>3, <1>4, <1>5, <2>3, <2>4 DEF CommitFails
<1>6. ASSUME NEW m \in Msg, RowFails(t, m) PROVE Aged'
  <2>1. r.todo \ {m} \in SUBSET Msg
    BY <1>1
  <2>2. RowsLeft(r, r.seen, r.todo \ {m}, r.gone) \in AgedRequests(issued)
    BY <1>1, <2>1, RowsLeftAged
  <2>3. QED
    BY <1>4, <1>6, <2>2 DEF RowFails
<1>7. ASSUME Dies(t) PROVE Aged'
  BY <1>3, <1>4, <1>7 DEF Dies
<1>8. QED
  BY <1>5, <1>6, <1>7

-----------------------------------------------------------------------------
(* What the requests of the tabs keep *)

LEMMA BeginAged ==
    ASSUME Aged, NEW t \in Tab, NEW ops \in Seq(AgedOps(issued')), ops # <<>>, Begin(t, ops),
           issued' \in issued..N
    PROVE  /\ AgedStore'
           /\ copy \in [Tab -> AgedHistories(issued')]
           /\ request' \in [Tab -> AgedRequests(issued')]
           /\ requests' \in Nat /\ overlaps' \in Nat /\ faults' \in Nat
<1>1. issued \in Nat /\ issued' \in Nat /\ issued <= issued'
  BY DEF Aged, Counted
<1>2. AgedHistories(issued) \subseteq AgedHistories(issued') /\ AgedRequests(issued) \subseteq AgedRequests(issued')
  BY <1>1, OlderOps
<1>3. [NoRequest EXCEPT !.at = FirstStep(ops[1]), !.ops = ops] \in AgedRequests(issued')
  BY <1>1, BegunAged
<1>4. request' \in [Tab -> AgedRequests(issued')] /\ copy \in [Tab -> AgedHistories(issued')]
  BY <1>2, <1>3 DEF Begin, Aged, AgedTabs
<1>5. AgedStore'
  BY <1>2 DEF Begin, Aged, AgedStore, Pointed
<1>6. requests' \in Nat /\ overlaps' \in Nat /\ faults' \in Nat
  BY DEF Begin, Aged, Counted
<1>7. QED
  BY <1>4, <1>5, <1>6

LEMMA OneOp ==
    ASSUME NEW n \in Nat, NEW op \in AgedOps(n)
    PROVE  <<op>> \in Seq(AgedOps(n)) /\ <<op>> # <<>>
OBVIOUS

LEMMA TurnAged ==
    ASSUME Aged, NEW t \in Tab, NEW m \in Msg, NEW a \in Msg, NEW p \in Parent,
           NEW kids \in SUBSET Msg, \A c \in kids : m < c,
           p < m, m < a, a > issued, Turn(t, m, p, kids, a)
    PROVE  /\ AgedStore' /\ AgedTabs'
           /\ issued' = a
           /\ requests' \in Nat /\ overlaps' \in Nat /\ faults' \in Nat /\ outdated' \in BOOLEAN
<1> DEFINE first == <<Op("touch", None, None, {}), Op("save", m, p, kids)>>
           second == IF p = None THEN <<>> ELSE <<Op("hang", p, None, {m})>>
           third == <<Op("link", m, None, {a}), Op("save", a, m, {})>>
           ops == first \o second \o third
           shown == Asked(copy[t], m, p, kids, a)
<1>1. issued' = a /\ a \in Nat /\ issued \in Nat /\ m \in Nat /\ p \in Nat /\ a \in issued..N
  BY DEF Turn, Aged, Counted, Msg, Parent, None
<1>2. /\ Op("touch", None, None, {}) \in AgedOps(a) /\ Op("save", m, p, kids) \in AgedOps(a)
      /\ Op("link", m, None, {a}) \in AgedOps(a) /\ Op("save", a, m, {}) \in AgedOps(a)
      /\ p # None => Op("hang", p, None, {m}) \in AgedOps(a)
  BY <1>1 DEF Op, AgedOps, Ops, Upserting, Parent, Msg, None
<1>3. ops \in Seq(AgedOps(a)) /\ ops # <<>>
  <2>1. first \in Seq(AgedOps(a)) /\ Len(first) = 2 /\ third \in Seq(AgedOps(a)) /\ Len(third) = 2
    BY <1>2
  <2>2. second \in Seq(AgedOps(a))
    BY <1>2
  <2> HIDE DEF first, second, third
  <2>3. first \o second \in Seq(AgedOps(a))
    BY <2>1, <2>2, ConcatProperties
  <2> DEFINE turn == first \o second
  <2> HIDE DEF turn
  <2>4. turn \o third \in Seq(AgedOps(a)) /\ Len(turn \o third) = Len(turn) + Len(third) /\ Len(turn) \in Nat
    BY <2>1, <2>3, ConcatProperties, LenProperties DEF turn
  <2>5. ops \in Seq(AgedOps(a)) /\ Len(ops) # 0
    BY <2>1, <2>4 DEF turn
  <2>6. QED
    BY <2>5, EmptySeq
<1>4. Begin(t, ops)
  BY DEF Turn
<1> HIDE DEF ops
<1>5. /\ AgedStore'
      /\ copy \in [Tab -> AgedHistories(a)]
      /\ request' \in [Tab -> AgedRequests(a)]
      /\ requests' \in Nat /\ overlaps' \in Nat /\ faults' \in Nat
  BY <1>1, <1>3, <1>4, BeginAged
<1>6. shown \in AgedHistories(a)
  <2> USE DEF AgedHistories, Histories
  <2> DEFINE c == copy[t]
             above == [c.parent EXCEPT ![m] = p, ![a] = m]
             below == [x \in Msg |-> IF x = m THEN kids
                                     ELSE IF x = p THEN c.kids[x] \cup {m} ELSE c.kids[x]]
  <2>1. c \in AgedHistories(a) /\ c.known \cup {m, a} \subseteq 1..a
    BY <1>1, <1>5 DEF Msg
  <2>2. above \in [Msg -> Parent] /\ \A x \in Msg : above[x] < x
    BY <2>1 DEF Parent
  <2>3. below \in [Msg -> SUBSET Msg] /\ \A x \in Msg : \A y \in below[x] : x < y
    BY <2>1
  <2>4. shown = [c EXCEPT !.known = c.known \cup {m, a}, !.parent = above, !.kids = below, !.current = a]
    BY <2>1 DEF Asked
  <2> HIDE DEF above, below, c
  <2>5. shown \in Histories /\ shown.known = c.known \cup {m, a} /\ shown.parent = above /\ shown.kids = below
    <3> HIDE DEF shown
    <3>1. QED
      BY <2>1, <2>2, <2>3, <2>4 DEF Parent
  <2> HIDE DEF shown
  <2>6. QED
    BY <2>1, <2>2, <2>3, <2>5
<1>7. copy' = [copy EXCEPT ![t] = shown]
  BY DEF Turn
<1>8. outdated' \in BOOLEAN
  BY DEF Turn, Aged, Counted
<1> HIDE DEF shown
<1>9. copy' \in [Tab -> AgedHistories(a)]
  BY <1>5, <1>6, <1>7
<1>10. QED
  BY <1>1, <1>5, <1>8, <1>9 DEF AgedTabs

LEMMA AskAged ==
    ASSUME Aged, NEW t \in Tab, NEW p \in Parent, Ask(t, p)
    PROVE  Aged'
<1> DEFINE m == issued + 1
           a == issued + 2
<1>1. /\ issued \in Nat /\ a <= N /\ p \in copy[t].known \cup {None}
      /\ Turn(t, m, p, {a}, a) /\ asked' = asked \cup {m}
  BY DEF Ask, Aged, Counted
<1>2. copy[t].known \subseteq 1..issued
  BY DEF Aged, AgedTabs, AgedHistories
<1>3. m \in Msg /\ a \in Msg /\ m < a /\ a > issued /\ p < m
  BY <1>1, <1>2 DEF Msg, None
<1> HIDE DEF m, a
<1>4. /\ AgedStore' /\ AgedTabs' /\ issued' = a
      /\ requests' \in Nat /\ overlaps' \in Nat /\ faults' \in Nat /\ outdated' \in BOOLEAN
  BY <1>1, <1>3, TurnAged
<1>5. issued' \in 0..N /\ asked' \subseteq 1..issued'
  BY <1>1, <1>3, <1>4 DEF Aged, Counted, Msg
<1>6. QED
  BY <1>4, <1>5 DEF Aged, Counted

LEMMA RegenerateAged ==
    ASSUME Aged, NEW t \in Tab, NEW m \in Msg, Regenerate(t, m)
    PROVE  Aged'
<1> DEFINE a == issued + 1
           p == copy[t].parent[m]
           kids == copy[t].kids[m] \cup {a}
<1>1. /\ issued \in Nat /\ a <= N /\ m \in 1..issued
      /\ Turn(t, m, p, kids, a) /\ asked' = asked
  <2>1. issued \in Nat /\ asked \subseteq 1..issued
    BY DEF Aged, Counted
  <2>2. a <= N /\ m \in asked /\ Turn(t, m, p, kids, a) /\ asked' = asked
    BY Zenon DEF Regenerate
  <2>3. QED
    BY <2>1, <2>2
<1>2. copy[t] \in AgedHistories(issued)
  BY DEF Aged, AgedTabs
<1>3. a \in Msg /\ m < a /\ a > issued
  BY <1>1 DEF Msg
<1>4. p \in Parent /\ p < m
  BY <1>2 DEF AgedHistories, Histories
<1>5. kids \in SUBSET Msg /\ \A c \in kids : m < c
  BY <1>2, <1>3 DEF AgedHistories, Histories
<1> HIDE DEF a, p, kids
<1>6. /\ AgedStore' /\ AgedTabs' /\ issued' = a
      /\ requests' \in Nat /\ overlaps' \in Nat /\ faults' \in Nat /\ outdated' \in BOOLEAN
  BY <1>1, <1>3, <1>4, <1>5, TurnAged
<1>7. issued' \in 0..N /\ asked' \subseteq 1..issued'
  BY <1>1, <1>3, <1>6 DEF Aged, Counted, Msg
<1>8. QED
  BY <1>6, <1>7 DEF Aged, Counted

LEMMA OthersAged ==
    ASSUME Aged, NEW t \in Tab, NEW m \in Msg, Edit(t, m) \/ Save(t, m) \/ Delete(t, m)
    PROVE  Aged'
<1>1. issued \in Nat /\ copy \in [Tab -> AgedHistories(issued)] /\ issued \in issued..N
  BY DEF Aged, AgedTabs, Counted
<1>2. ASSUME NEW op \in AgedOps(issued), Begin(t, <<op>>), UNCHANGED <<issued, asked, outdated>>,
             copy' \in [Tab -> AgedHistories(issued)]
      PROVE  Aged'
  <2>1. issued' = issued
    BY <1>2
  <2>2. <<op>> \in Seq(AgedOps(issued')) /\ <<op>> # <<>>
    BY <1>1, <2>1, OneOp
  <2>3. /\ AgedStore' /\ request' \in [Tab -> AgedRequests(issued')]
        /\ requests' \in Nat /\ overlaps' \in Nat /\ faults' \in Nat
    BY <1>1, <1>2, <2>1, <2>2, BeginAged
  <2>4. QED
    BY <1>2, <2>1, <2>3 DEF Aged, AgedTabs, Counted
<1>3. ASSUME Edit(t, m) PROVE Aged'
  <2>1. Op("edit", m, None, {}) \in AgedOps(issued)
    BY <1>1, <1>3 DEF Edit, Op, AgedOps, Ops, Upserting, Parent, Msg, None
  <2>2. QED
    BY <1>1, <1>2, <1>3, <2>1 DEF Edit
<1>4. ASSUME Save(t, m) PROVE Aged'
  <2>1. Op("merge", None, None, {}) \in AgedOps(issued)
    BY <1>1 DEF Op, AgedOps, Ops, Upserting, Parent, None
  <2>2. [copy[t] EXCEPT !.current = m] \in AgedHistories(issued)
    BY <1>1 DEF AgedHistories, Histories, Parent
  <2>3. copy' \in [Tab -> AgedHistories(issued)]
    BY <1>1, <1>4, <2>2 DEF Save
  <2>4. QED
    BY <1>2, <1>4, <2>1, <2>3 DEF Save
<1>5. ASSUME Delete(t, m) PROVE Aged'
  <2>1. m \in copy[t].known /\ m <= issued /\ m \in Nat
    BY <1>1, <1>5 DEF Delete, AgedHistories
  <2>2. Op("delete", m, None, {}) \in AgedOps(issued)
    BY <1>1, <2>1 DEF Op, AgedOps, Ops, Upserting, Parent, None
  <2>3. Cut(copy[t], m) \in AgedHistories(issued)
    BY <1>1, <2>1, CutAged
  <2>4. copy' \in [Tab -> AgedHistories(issued)]
    BY <1>1, <1>5, <2>3 DEF Delete
  <2>5. QED
    BY <1>2, <1>5, <2>2, <2>4 DEF Delete
<1>6. QED
  BY <1>3, <1>4, <1>5

LEMMA ReloadAged ==
    ASSUME Aged, NEW t \in Tab, Reload(t)
    PROVE  Aged'
BY DEF Reload, Aged, AgedStore, AgedTabs, Counted, counters

-----------------------------------------------------------------------------
(* The theorems *)

LEMMA InitAged ==
    ASSUME Init
    PROVE  Aged
<1>1. Opened.known \subseteq 1..Opening /\ Opened.known \subseteq Msg
  BY DEF Opened, Msg
<1>2. /\ Opened.parent \in [Msg -> Parent] /\ \A m \in Msg : Opened.parent[m] < m
  BY DEF Opened, Parent, Msg, None
<1>3. /\ Opened.kids \in [Msg -> SUBSET Msg]
      /\ \A m \in Msg : \A c \in Opened.kids[m] : m < c
  BY DEF Opened, Msg
<1>4. Opened \in Histories
  BY <1>1, <1>2, <1>3 DEF Opened, Histories, Parent, Msg, None
<1>5. Opened \in AgedHistories(Opening) /\ Pointed(Opened)
  <2>1. Pointed(Opened)
    BY DEF Pointed, Opened, None
  <2>2. QED
    BY <1>1, <1>2, <1>3, <1>4, <2>1 DEF AgedHistories
<1>6. [known |-> Opened.known, parent |-> Opened.parent] \in AgedRows
  BY <1>1, <1>2 DEF AgedRows, Rows
<1>7. issued = Opening /\ Opening \in Nat
  BY DEF Init
<1>8. AgedStore /\ AgedTabs
  BY <1>5, <1>6, <1>7, NoRequestAged DEF Init, AgedStore, AgedTabs
<1>9. Counted
  BY DEF Init, Counted
<1>10. QED
  BY <1>8, <1>9 DEF Aged

LEMMA NextAged ==
    ASSUME Aged, [Next]_vars
    PROVE  Aged'
<1>1. CASE UNCHANGED vars
  BY <1>1 DEF vars, Aged, AgedStore, AgedTabs, Counted, Pointed
<1>2. ASSUME NEW t \in Tab, Reload(t) \/ LoadMap(t) \/ Step(t)
      PROVE  Aged'
  BY <1>2, ReloadAged, RowStepsAged, GetAged, ReadAged, CommitAged DEF Step
<1>3. ASSUME NEW t \in Tab, NEW p \in Parent, Ask(t, p)
      PROVE  Aged'
  BY <1>3, AskAged
<1>4. ASSUME NEW t \in Tab, NEW m \in Msg,
             Regenerate(t, m) \/ Edit(t, m) \/ Save(t, m) \/ Delete(t, m) \/ RowFails(t, m)
      PROVE  Aged'
  BY <1>4, RegenerateAged, OthersAged, FaultsAged
<1>5. ASSUME NEW t \in Tab, CommitFails(t) \/ Dies(t)
      PROVE  Aged'
  BY <1>5, FaultsAged
<1>6. QED
  BY <1>1, <1>2, <1>3, <1>4, <1>5 DEF Next

LEMMA AlwaysAged == Spec => []Aged
  BY InitAged, NextAged, PTL DEF Spec

\* The types of the stores, the tabs, their requests and the counters.
THEOREM TypeCorrect == Spec => []TypeOK
<1>1. ASSUME Aged PROVE TypeOK
  <2>1. chat \in Histories /\ rows \in Rows /\ copy \in [Tab -> Histories]
    BY <1>1 DEF Aged, AgedStore, AgedTabs, AgedHistories, AgedRows
  <2>2. AgedOps(issued) \subseteq Ops /\ AgedHistories(issued) \subseteq Histories
    BY DEF AgedOps, AgedHistories
  <2>3. Seq(AgedOps(issued)) \subseteq Seq(Ops)
    BY <2>2
  <2>4. request \in [Tab -> [at : Places, ops : Seq(Ops), seen : Histories, todo : SUBSET Msg, gone : SUBSET Msg]]
    BY <1>1, <2>2, <2>3 DEF Aged, AgedTabs, AgedRequests
  <2>5. \A t \in Tab : request[t].at = "rows" => request[t].todo \cup request[t].gone # {}
    BY <1>1 DEF Aged, AgedTabs, AgedRequests
  <2>6. QED
    BY <1>1, <2>1, <2>4, <2>5 DEF TypeOK, Places, Aged, Counted
<1>2. QED
  BY <1>1, AlwaysAged, PTL

\* Whatever old copies are merged, deletions moved up and late saves made, every
\* walk along parents or children, in the chat, a tab or the rows, ends.
THEOREM WalksEnd == Spec => []Acyclic
<1>1. ASSUME Aged PROVE Acyclic
  <2>1. \A h \in AgedHistories(issued) : NoCycle(h.known, h.parent) /\ NoLoop(h.known, h.kids)
    BY AgedEnds DEF AgedHistories, Histories
  <2>2. chat \in AgedHistories(issued) /\ \A t \in Tab : copy[t] \in AgedHistories(issued)
    BY <1>1 DEF Aged, AgedStore, AgedTabs
  <2>3. NoCycle(rows.known, rows.parent)
    <3>1. /\ rows.known \in SUBSET Msg /\ rows.parent \in [Msg -> Parent]
          /\ \A m \in Msg : rows.parent[m] < m
      BY <1>1 DEF Aged, AgedStore, AgedRows, Rows
    <3>2. [m \in Msg |-> {}] \in [Msg -> SUBSET Msg]
      OBVIOUS
    <3>3. QED
      BY <3>1, <3>2, AgedEnds
  <2>4. QED
    BY <2>1, <2>2, <2>3 DEF Acyclic
<1>2. QED
  BY <1>1, AlwaysAged, PTL

\* The leaf that tabs and prompts start from is always a message of the chat.
THEOREM CurrentExists == Spec => []CurrentIsMessage
<1>1. ASSUME Aged PROVE CurrentIsMessage
  BY <1>1 DEF Aged, AgedStore, Pointed, CurrentIsMessage
<1>2. QED
  BY <1>1, AlwaysAged, PTL

-----------------------------------------------------------------------------
(* The mirror: what a request that runs alone has still to write *)

Calm == overlaps = 0 /\ faults = 0

\* The rows w show the history c, but for the messages left.
Agrees(c, w, left) ==
    \A m \in Msg \ left : (m \in w.known <=> m \in c.known) /\ w.parent[m] = c.parent[m]

\* Request r still writes and deletes all rows that differ.
Fits(r, c, w) ==
    /\ Agrees(c, w, IF r.at = "rows" THEN r.todo \cup r.gone ELSE {})
    /\ r.at \in {"commit", "rows"} => r.seen = c
    /\ r.at = "rows" => r.todo \subseteq c.known /\ r.gone \cap c.known = {}
    /\ r.at = "map" => r.todo \cap c.known = {}

Mirrored ==
    Calm => /\ Plain(chat)
            /\ \A t, u \in Tab : ~Idle(t) /\ ~Idle(u) => t = u
            /\ AtRest => Agrees(chat, rows, {})
            /\ \A t \in Tab : ~Idle(t) => Fits(request[t], chat, rows)

LEMMA FollowingFits ==
    ASSUME NEW n \in Nat, NEW ops \in Seq(AgedOps(n)), NEW c, NEW w, Agrees(c, w, {})
    PROVE  Fits(Following(ops), c, w)
<1>1. Following(ops).at \in {"idle", "get", "read"}
  BY DEF Following, FirstStep, NoRequest
<1>2. QED
  BY <1>1 DEF Fits

LEMMA RowsLeftFits ==
    ASSUME NEW n \in Nat, NEW r \in AgedRequests(n), NEW c, NEW w, NEW todo, NEW gone,
           todo \subseteq c.known, gone \cap c.known = {}, Agrees(c, w, todo \cup gone)
    PROVE  Fits(RowsLeft(r, c, todo, gone), c, w)
<1>1. CASE todo = {} /\ gone = {}
  <2>1. r.ops \in Seq(AgedOps(n)) /\ Agrees(c, w, {})
    BY <1>1 DEF AgedRequests, Agrees
  <2>2. QED
    BY <1>1, <2>1, FollowingFits DEF RowsLeft
<1>2. CASE ~(todo = {} /\ gone = {})
  <2> DEFINE g == [r EXCEPT !.at = "rows", !.seen = c, !.todo = todo, !.gone = gone]
  <2>1. g.at = "rows" /\ g.seen = c /\ g.todo = todo /\ g.gone = gone
    BY DEF AgedRequests
  <2> HIDE DEF g
  <2>2. Fits(g, c, w)
    BY <2>1 DEF Fits
  <2>3. QED
    BY <1>2, <2>2 DEF RowsLeft, g
<1>3. QED
  BY <1>1, <1>2

Dropped(op, h) == IF op.kind = "delete" THEN Doomed(h, op.id) ELSE {}
Written(op, h, g) == IF op.kind = "delete" /\ Dropped(op, h) = {} THEN {} ELSE Todo(op, g)

\* The rows that a commit leaves are those of the messages it has changed.
LEMMA OutcomesFit ==
    ASSUME NEW n \in Nat, NEW op \in AgedOps(n), NEW h \in AgedHistories(n), Pointed(h), Plain(h),
           NEW in \in AgedHistories(n), NEW g \in Outcomes(op, h, in), NEW w, Agrees(h, w, {})
    PROVE  /\ Plain(g) /\ Written(op, h, g) \subseteq g.known /\ Dropped(op, h) \cap g.known = {}
           /\ Agrees(g, w, Written(op, h, g) \cup Dropped(op, h))
<1> USE DEF AgedHistories, Histories, Written, Dropped
<1> DEFINE gone == Dropped(op, h)
           todo == Written(op, h, g)
<1>1. g \in AgedHistories(n)
  BY OutcomesAged
<1>2. CASE op.kind = "touch"
  BY <1>2 DEF Outcomes, Todo, Agrees
<1>3. CASE op.kind = "merge"
  <2>1. g = Merged(h, in) /\ gone = {} /\ todo = g.known
    BY <1>3 DEF Outcomes, Todo
  <2>2. g.known = h.known \cup in.known /\ \A m \in Msg \ in.known : g.parent[m] = h.parent[m]
    BY <2>1 DEF Merged
  <2>3. QED
    BY <2>1, <2>2 DEF Plain, Agrees
<1>4. CASE op.kind = "delete" /\ op.id \notin h.known
  <2>1. g = Repaired(h)
    BY <1>4 DEF Outcomes, Deleted
  <2>2. g.known = h.known /\ g.parent = h.parent
    BY <2>1 DEF Repaired
  <2>3. gone = {} /\ todo = {}
    BY <1>4 DEF Doomed
  <2>4. QED
    BY <2>2, <2>3 DEF Plain, Agrees
<1>5. CASE op.kind = "delete" /\ op.id \in h.known
  <2> DEFINE cut == Cut(h, op.id)
  <2>1. cut \in Histories /\ cut.known = h.known \ Doomed(h, op.id) /\ Plain(cut)
    BY <1>5, CutAged
  <2>2. PICK end : g = [cut EXCEPT !.current = CurrentAfter(cut, end)]
    BY <1>5 DEF Outcomes, Deleted
  <2> HIDE DEF cut
  <2>3. g.known = cut.known /\ g.parent = cut.parent
    BY <2>1, <2>2
  <2>4. gone = Doomed(h, op.id) /\ op.id \in gone
    BY <1>5 DEF Doomed
  <2>5. todo = g.known
    BY <1>5, <2>4 DEF Todo
  <2>6. QED
    BY <2>1, <2>3, <2>4, <2>5 DEF Plain, Agrees
<1>6. CASE op.kind \in Upserting
  <2>1. g \in Upserted(h, op) /\ gone = {} /\ todo = {op.id}
    BY <1>6 DEF Outcomes, Todo, Upserting
  <2>2. g.known = h.known \cup {op.id} /\ \A m \in Msg \ {op.id} : g.parent[m] = h.parent[m]
    <3>1. CASE op.id \in h.known
      <4>1. g = [h EXCEPT !.parent[op.id] = IF op.kind = "save" THEN op.parent ELSE @,
                          !.kids[op.id] = IF op.kind = "edit" THEN @ ELSE op.kids,
                          !.current = op.id]
        BY <2>1, <3>1 DEF Upserted
      <4>2. QED
        BY <3>1, <4>1
    <3>2. CASE op.id \notin h.known
      <4>1. PICK p \in ParentsFor(h, op) :
              g = [h EXCEPT !.known = @ \cup {op.id}, !.parent[op.id] = p,
                            !.kids[op.id] = op.kids, !.current = op.id]
        BY <2>1, <3>2 DEF Upserted
      <4>2. QED
        BY <4>1
    <3>3. QED
      BY <3>1, <3>2
  <2>3. QED
    BY <2>1, <2>2 DEF Plain, Agrees
<1>7. QED
  BY <1>2, <1>3, <1>4, <1>5, <1>6 DEF AgedOps, Ops, Upserting

\* A step of the only request there is.
LEMMA AloneMirrored ==
    ASSUME request \in [Tab -> AgedRequests(issued)], NEW t \in Tab, NEW g,
           request' = [request EXCEPT ![t] = g], Alone(t), Plain(chat)', Fits(g, chat', rows')
    PROVE  Mirrored'
<1>1. \A u \in Tab : ~Idle(u)' => u = t
  BY DEF Alone, Idle
<1>2. request'[t] = g
  OBVIOUS
<1>3. AtRest' => Agrees(chat, rows, {})'
  <2>1. AtRest' => g.at = "idle"
    BY <1>2 DEF AtRest, Idle
  <2>2. QED
    BY <2>1 DEF Fits, Agrees
<1>4. \A u \in Tab : ~Idle(u)' => Fits(request[u], chat, rows)'
  BY <1>1, <1>2 DEF Fits, Agrees
<1>5. QED
  BY <1>1, <1>3, <1>4 DEF Mirrored

LEMMA BeginMirrored ==
    ASSUME Aged, Mirrored, NEW t \in Tab, NEW ops, Begin(t, ops)
    PROVE  Mirrored'
<1> SUFFICES ASSUME Calm' PROVE Mirrored'
  BY DEF Mirrored
<1>1. overlaps \in Nat /\ request \in [Tab -> AgedRequests(issued)]
  BY DEF Aged, Counted, AgedTabs
<1>2. Alone(t) /\ Idle(t) /\ Calm
  BY <1>1 DEF Begin, Calm
<1>3. Plain(chat) /\ Agrees(chat, rows, {}) /\ chat' = chat /\ rows' = rows
  BY <1>2 DEF Mirrored, AtRest, Alone, Begin
<1> DEFINE g == [NoRequest EXCEPT !.at = FirstStep(ops[1]), !.ops = ops]
<1>4. g.at \in {"get", "read"}
  BY DEF NoRequest, FirstStep
<1>5. request' = [request EXCEPT ![t] = g]
  BY DEF Begin
<1> HIDE DEF g
<1>6. Fits(g, chat', rows')
  BY <1>3, <1>4 DEF Fits
<1>7. Plain(chat)'
  BY <1>3 DEF Plain
<1>8. QED
  BY <1>1, <1>2, <1>5, <1>6, <1>7, AloneMirrored

\* A step of a request is not one of an idle tab and leaves the counters alone.
LEMMA StepFrame ==
    ASSUME NEW t \in Tab, Step(t)
    PROVE  /\ ~Idle(t)
           /\ requests' = requests /\ overlaps' = overlaps /\ faults' = faults /\ outdated' = outdated
<1>1. CASE Get(t)
  BY <1>1 DEF Get, Idle, counters
<1>2. CASE Read(t)
  BY <1>2 DEF Read, Idle, counters
<1>3. CASE Commit(t)
  BY <1>3 DEF Commit, Idle, counters
<1>4. CASE \E m \in Msg : RowWrite(t, m)
  BY <1>4 DEF RowWrite, Idle, counters
<1>5. CASE RowsDrop(t)
  BY <1>5 DEF RowsDrop, Idle, counters
<1>6. CASE Backfill(t)
  BY <1>6 DEF Backfill, Idle, counters
<1>7. QED
  BY <1>1, <1>2, <1>3, <1>4, <1>5, <1>6 DEF Step

LEMMA StepMirrored ==
    ASSUME Aged, Mirrored, NEW t \in Tab, Step(t)
    PROVE  Mirrored'
<1> SUFFICES ASSUME Calm' PROVE Mirrored'
  BY DEF Mirrored
<1> DEFINE r == request[t]
           op == r.ops[1]
<1>1. /\ request \in [Tab -> AgedRequests(issued)] /\ r \in AgedRequests(issued) /\ issued \in Nat
      /\ r.ops \in Seq(AgedOps(issued)) /\ r.seen \in AgedHistories(issued) /\ Pointed(r.seen)
      /\ r.todo \in SUBSET Msg /\ r.gone \in SUBSET Msg
      /\ rows \in AgedRows /\ chat \in AgedHistories(issued)
      /\ r.at \in {"get", "read", "commit"} => r.ops # <<>>
  <2>1. /\ request \in [Tab -> AgedRequests(issued)] /\ r \in AgedRequests(issued) /\ issued \in Nat
        /\ rows \in AgedRows /\ chat \in AgedHistories(issued)
    <3>1. request \in [Tab -> AgedRequests(issued)] /\ issued \in Nat
      BY DEF Aged, AgedTabs, Counted
    <3>2. rows \in AgedRows /\ chat \in AgedHistories(issued)
      BY DEF Aged, AgedStore
    <3>3. request[t] \in AgedRequests(issued)
      BY ONLY <3>1
    <3>4. QED
      BY <3>1, <3>2, <3>3
  <2> HIDE DEF r
  <2>2. QED
    BY <2>1, AgedRequestFields
<1>2. Calm /\ ~Idle(t)
  BY StepFrame DEF Calm
<1>3. Alone(t) /\ Plain(chat) /\ Fits(r, chat, rows)
  BY <1>2 DEF Mirrored, Alone
<1>4. ASSUME Get(t) PROVE Mirrored'
  <2>1. chat' = chat /\ rows' = rows /\ Agrees(chat, rows, {})
    <3>1. r.at = "get" /\ chat' = chat /\ rows' = rows
      BY Zenon, <1>4 DEF Get
    <3> HIDE DEF r
    <3>2. QED
      BY <1>3, <3>1 DEF Fits
  <2>2. PICK g : request' = [request EXCEPT ![t] = g]
               /\ (g = Following(r.ops) \/ \E kids : g = [r EXCEPT !.at = "read", !.ops[1].kids = kids])
    BY Zenon, <1>4 DEF Get
  <2>3. CASE g = Following(r.ops)
    <3>1. Fits(g, chat', rows')
      BY <1>1, <2>1, <2>3, FollowingFits
    <3>2. QED
      BY <1>1, <1>3, <2>1, <2>2, <3>1, AloneMirrored
  <2>4. CASE \E kids : g = [r EXCEPT !.at = "read", !.ops[1].kids = kids]
    <3>1. g.at = "read"
      BY <1>1, <2>4 DEF AgedRequests
    <3>2. Fits(g, chat', rows')
      BY <2>1, <3>1 DEF Fits
    <3>3. QED
      BY <1>1, <1>3, <2>1, <2>2, <3>2, AloneMirrored
  <2>5. QED
    BY <2>2, <2>3, <2>4
<1>5. ASSUME Read(t) PROVE Mirrored'
  <2> DEFINE g == [r EXCEPT !.at = "commit", !.seen = chat]
  <2>1. /\ chat' = chat /\ rows' = rows /\ Agrees(chat, rows, {})
        /\ request' = [request EXCEPT ![t] = g]
    BY <1>3, <1>5 DEF Read, Fits
  <2>2. g.at = "commit" /\ g.seen = chat
    BY <1>1 DEF AgedRequests
  <2> HIDE DEF g
  <2>3. Fits(g, chat', rows')
    BY <2>1, <2>2 DEF Fits
  <2>4. QED
    BY <1>1, <1>3, <2>1, <2>3, AloneMirrored
<1>6. ASSUME Commit(t) PROVE Mirrored'
  <2>1. PICK h \in Outcomes(op, r.seen, copy[t]) :
          /\ chat' = h
          /\ request' = [request EXCEPT ![t] = RowsLeft(r, h, Written(op, r.seen, h), Dropped(op, r.seen))]
    BY <1>6 DEF Commit, Written, Dropped
  <2>2. rows' = rows /\ r.at = "commit" /\ r.seen = chat /\ Agrees(chat, rows, {})
    BY <1>3, <1>6 DEF Commit, Fits
  <2>3. op \in AgedOps(issued) /\ copy[t] \in AgedHistories(issued)
    BY <1>1, <2>2 DEF Aged, AgedTabs
  <2> DEFINE todo == Written(op, r.seen, h)
             gone == Dropped(op, r.seen)
  <2>5. Plain(h) /\ todo \subseteq h.known /\ gone \cap h.known = {} /\ Agrees(h, rows, todo \cup gone)
    <3> HIDE DEF r, op
    <3>1. Plain(r.seen) /\ Agrees(r.seen, rows, {})
      BY <1>3, <2>2
    <3>2. QED
      BY <1>1, <2>1, <2>3, <3>1, OutcomesFit
  <2> HIDE DEF gone, todo
  <2>6. Fits(RowsLeft(r, h, todo, gone), h, rows)
    BY <1>1, <2>5, RowsLeftFits
  <2>7. Plain(chat)' /\ Fits(RowsLeft(r, h, todo, gone), chat', rows')
    BY <2>1, <2>2, <2>5, <2>6 DEF Plain
  <2>8. request' = [request EXCEPT ![t] = RowsLeft(r, h, todo, gone)]
    BY <2>1 DEF todo, gone
  <2>9. QED
    BY <1>1, <1>3, <2>7, <2>8, AloneMirrored
<1>7. ASSUME NEW m \in Msg, RowWrite(t, m) PROVE Mirrored'
  <2>1. /\ r.at = "rows" /\ m \in r.todo /\ chat' = chat
        /\ rows' = [known |-> rows.known \cup {m}, parent |-> [rows.parent EXCEPT ![m] = r.seen.parent[m]]]
        /\ request' = [request EXCEPT ![t] = RowsLeft(r, r.seen, r.todo \ {m}, r.gone)]
    BY <1>7 DEF RowWrite
  <2>2. /\ r.seen = chat /\ r.todo \subseteq chat.known /\ r.gone \cap chat.known = {}
        /\ Agrees(chat, rows, r.todo \cup r.gone)
    BY <1>3, <2>1 DEF Fits
  <2>3. Agrees(chat, rows', (r.todo \ {m}) \cup r.gone)
    BY <1>1, <2>1, <2>2 DEF Agrees, AgedRows, Rows
  <2>4. Fits(RowsLeft(r, chat, r.todo \ {m}, r.gone), chat', rows')
    BY <1>1, <2>1, <2>2, <2>3, RowsLeftFits
  <2>5. QED
    BY <1>1, <1>3, <2>1, <2>2, <2>4, AloneMirrored
<1>8. ASSUME RowsDrop(t) PROVE Mirrored'
  <2>1. /\ r.at = "rows" /\ r.todo = {} /\ chat' = chat
        /\ rows' = [known |-> rows.known \ r.gone,
                    parent |-> [m \in Msg |-> IF m \in r.gone THEN None ELSE rows.parent[m]]]
        /\ request' = [request EXCEPT ![t] = RowsLeft(r, r.seen, {}, {})]
    BY <1>8 DEF RowsDrop
  <2>2. r.seen = chat /\ r.gone \cap chat.known = {} /\ Agrees(chat, rows, r.gone)
    BY <1>3, <2>1 DEF Fits
  <2>3. Agrees(chat, rows', {})
    BY <1>3, <2>1, <2>2 DEF Agrees, Plain
  <2>4. Fits(RowsLeft(r, chat, {}, {}), chat', rows')
    BY <1>1, <2>1, <2>3, RowsLeftFits
  <2>5. QED
    BY <1>1, <1>3, <2>1, <2>2, <2>4, AloneMirrored
<1>9. ASSUME Backfill(t) PROVE Mirrored'
  <2>1. /\ r.at = "map" /\ chat' = chat /\ rows' = rows
        /\ request' = [request EXCEPT ![t] = RowsLeft(r, chat, r.todo \cap chat.known, {})]
    BY <1>9 DEF Backfill
  <2>2. r.todo \cap chat.known = {} /\ Agrees(chat, rows, {})
    BY <1>3, <2>1 DEF Fits
  <2>3. Fits(RowsLeft(r, chat, {}, {}), chat', rows')
    BY <1>1, <2>1, <2>2, RowsLeftFits
  <2>4. QED
    BY <1>1, <1>3, <2>1, <2>2, <2>3, AloneMirrored
<1>10. QED
  BY <1>4, <1>5, <1>6, <1>7, <1>8, <1>9 DEF Step

LEMMA LoadMapMirrored ==
    ASSUME Aged, Mirrored, NEW t \in Tab, LoadMap(t)
    PROVE  Mirrored'
<1> SUFFICES ASSUME Calm' PROVE Mirrored'
  BY DEF Mirrored
<1> DEFINE g == [NoRequest EXCEPT !.at = "map", !.todo = Gaps]
<1>1. /\ request \in [Tab -> AgedRequests(issued)] /\ overlaps \in Nat
      /\ chat.known \subseteq Msg /\ rows.known \subseteq Msg
  BY DEF Aged, AgedTabs, AgedStore, Counted, AgedHistories, Histories, AgedRows, Rows
<1>2. Alone(t) /\ Calm
  BY <1>1 DEF LoadMap, Calm
<1>3. /\ Plain(chat) /\ Agrees(chat, rows, {}) /\ chat' = chat /\ rows' = rows
      /\ request' = [request EXCEPT ![t] = g]
  BY <1>2 DEF Mirrored, AtRest, Alone, LoadMap
<1>4. rows.known = chat.known
  BY <1>1, <1>3 DEF Agrees
<1>5. Gaps \cap chat.known = {}
  BY <1>4 DEF Gaps
<1>6. g.at = "map" /\ g.todo = Gaps
  BY DEF NoRequest
<1> HIDE DEF g
<1>7. Fits(g, chat', rows') /\ Plain(chat)'
  BY <1>3, <1>5, <1>6 DEF Fits, Plain
<1>8. QED
  BY <1>1, <1>2, <1>3, <1>7, AloneMirrored

LEMMA NextMirrored ==
    ASSUME Aged, Mirrored, [Next]_vars
    PROVE  Mirrored'
<1>1. CASE UNCHANGED vars
  BY <1>1 DEF vars, Mirrored, Calm, Plain, AtRest, Idle
<1>2. ASSUME NEW t \in Tab, Reload(t) PROVE Mirrored'
  <2>1. UNCHANGED <<chat, rows, request, overlaps, faults>>
    BY <1>2 DEF Reload, counters
  <2>2. QED
    BY <2>1 DEF Mirrored, Calm, Plain, AtRest, Idle
<1>3. ASSUME NEW t \in Tab, NEW ops, Begin(t, ops) PROVE Mirrored'
  BY <1>3, BeginMirrored
<1>4. ASSUME NEW t \in Tab, NEW p \in Parent, Ask(t, p) PROVE Mirrored'
  BY <1>3, <1>4 DEF Ask, Turn
<1>5. ASSUME NEW t \in Tab, NEW m \in Msg, Regenerate(t, m) PROVE Mirrored'
  BY <1>3, <1>5 DEF Regenerate, Turn
<1>6. ASSUME NEW t \in Tab, NEW m \in Msg, Edit(t, m) \/ Save(t, m) \/ Delete(t, m) PROVE Mirrored'
  BY <1>3, <1>6 DEF Edit, Save, Delete
<1>7. ASSUME NEW t \in Tab, CommitFails(t) \/ (\E m \in Msg : RowFails(t, m)) \/ Dies(t) PROVE Mirrored'
  <2>1. faults \in Nat /\ faults' = faults + 1
    BY <1>7 DEF CommitFails, RowFails, Dies, Fault, Aged, Counted
  <2>2. faults' # 0
    BY <2>1
  <2>3. QED
    BY <2>2 DEF Mirrored, Calm
<1>8. QED
  BY <1>1, <1>2, <1>4, <1>5, <1>6, <1>7, StepMirrored, LoadMapMirrored DEF Next

LEMMA InitMirrored ==
    ASSUME Init
    PROVE  Mirrored
<1>1. Plain(chat) /\ Agrees(chat, rows, {})
  BY DEF Init, Opened, Plain, Agrees, Msg
<1>2. \A t \in Tab : Idle(t)
  BY DEF Init, Idle, NoRequest
<1>3. QED
  BY <1>1, <1>2 DEF Mirrored

\* Whatever old copies the tabs have saved, asked below or deleted from: the rows
\* show the parents of the chat whenever all is quiet, unless requests overlapped
\* or failed.
THEOREM RowsMirror == Spec => []Mirror
<1>1. ASSUME Aged, Mirrored PROVE Mirror
  <2> SUFFICES ASSUME AtRest, Calm PROVE rows = [known |-> chat.known, parent |-> chat.parent]
    BY DEF Mirror, Calm
  <2>1. Agrees(chat, rows, {})
    BY <1>1 DEF Mirrored
  <2>2. /\ rows = [known |-> rows.known, parent |-> rows.parent]
        /\ rows.known \subseteq Msg /\ chat.known \subseteq Msg
        /\ rows.parent \in [Msg -> Parent] /\ chat.parent \in [Msg -> Parent]
    BY <1>1 DEF Aged, AgedStore, AgedRows, Rows, AgedHistories, Histories
  <2>3. rows.known = chat.known /\ rows.parent = chat.parent
    BY <2>1, <2>2 DEF Agrees
  <2>4. QED
    BY <2>2, <2>3
<1>2. QED
  BY <1>1, AlwaysAged, InitAged, NextAged, InitMirrored, NextMirrored, PTL DEF Spec
=============================================================================
