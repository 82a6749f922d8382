------------------------ MODULE ChatHistoryTree_proofs ------------------------
(***************************************************************************)
(* ChatHistory for every number of messages and tabs: the steps of the     *)
(* requests add up to a tree.  Between two operations of a request that    *)
(* runs alone the links of the chat are not those of a tree; what they     *)
(* lack is exactly what the operations left will write.                    *)
(***************************************************************************)
EXTENDS ChatHistory_proofs

USE ChatHistoryAssumption DEF ChatHistoryAssumption

-----------------------------------------------------------------------------
(* Trees, and the trees that still lack a link *)

Children(h, m) == {c \in h.known : h.parent[c] = m}
Closed(h) == \A m \in h.known : h.parent[m] \in h.known \cup {None}
Listed(h, but) == \A m \in h.known \ but : h.kids[m] = Children(h, m)
Proper(h) == Closed(h) /\ Listed(h, {})

\* Message m lists its answer a, which is not there yet.
Awaiting(h, m, a) ==
    /\ m \in h.known /\ a \in Msg \ h.known
    /\ h.kids[m] = Children(h, m) \cup {a}
\* Its parent p may not list m yet.
Hanging(h, m, p, a) ==
    /\ Closed(h) /\ Listed(h, {m, p}) /\ Awaiting(h, m, a)
    /\ p \in h.known /\ h.parent[m] = p
    /\ h.kids[p] \cup {m} = Children(h, p)
Placed(h, m, a) == Closed(h) /\ Listed(h, {m}) /\ Awaiting(h, m, a)

\* Message m, new or there below p, is going to be saved for a new answer a.
Fitting(h, m, p, a) ==
    /\ a \in Msg \ h.known
    /\ m \in h.known => h.parent[m] = p
    /\ p \in h.known \cup {None}
Question(h, m, p, a) == Op("save", m, p, Children(h, m) \cup {a})

-----------------------------------------------------------------------------
(* What one operation makes of such a tree *)

\* The current message is no part of the tree.
LEMMA SameTree ==
    ASSUME NEW g, NEW h, g.known = h.known, g.parent = h.parent, g.kids = h.kids
    PROVE  /\ Closed(h) <=> Closed(g)
           /\ Proper(h) <=> Proper(g)
           /\ \A m, a : Placed(h, m, a) <=> Placed(g, m, a)
           /\ \A m, p, a : Hanging(h, m, p, a) <=> Hanging(g, m, p, a)
<1>1. \A m : Children(g, m) = Children(h, m)
  BY DEF Children
<1>2. QED
  BY <1>1 DEF Closed, Proper, Listed, Placed, Hanging, Awaiting

\* An upsert, field by field.
LEMMA UpsertedFields ==
    ASSUME NEW n \in Nat, NEW h \in AgedHistories(n), NEW op \in AgedOps(n),
           op.kind \in Upserting, NEW g \in Upserted(h, op)
    PROVE  /\ op.id \in Msg
           /\ g.known = h.known \cup {op.id}
           /\ \A m \in Msg \ {op.id} : g.parent[m] = h.parent[m] /\ g.kids[m] = h.kids[m]
           /\ op.id \in h.known =>
                /\ g.parent[op.id] = IF op.kind = "save" THEN op.parent ELSE h.parent[op.id]
                /\ g.kids[op.id] = IF op.kind = "edit" THEN h.kids[op.id] ELSE op.kids
           /\ op.id \notin h.known =>
                /\ g.parent[op.id] \in ParentsFor(h, op)
                /\ g.kids[op.id] = op.kids
<1> USE DEF AgedHistories, Histories, AgedOps, Ops
<1>1. CASE op.id \in h.known
  <2>1. g = [h EXCEPT !.parent[op.id] = IF op.kind = "save" THEN op.parent ELSE @,
                      !.kids[op.id] = IF op.kind = "edit" THEN @ ELSE op.kids,
                      !.current = op.id]
    BY <1>1 DEF Upserted
  <2>2. QED
    BY <1>1, <2>1
<1>2. CASE op.id \notin h.known
  <2>1. PICK p \in ParentsFor(h, op) :
          g = [h EXCEPT !.known = @ \cup {op.id}, !.parent[op.id] = p,
                        !.kids[op.id] = op.kids, !.current = op.id]
    BY <1>2 DEF Upserted
  <2>2. QED
    BY <1>2, <2>1
<1>3. QED
  BY <1>1, <1>2

\* The children of a tree are known, and younger.
LEMMA ProperKids ==
    ASSUME NEW n \in Nat, NEW h \in AgedHistories(n)
    PROVE  /\ h.known \subseteq Msg /\ Msg \subseteq Nat
           /\ \A m \in Msg : h.parent[m] \in Parent /\ h.parent[m] < m /\ h.parent[m] # m
           /\ \A m : \A c \in Children(h, m) : c \in h.known /\ h.parent[c] = m /\ m < c
<1>1. h.known \subseteq Msg /\ Msg \subseteq Nat
  BY DEF AgedHistories, Histories, Msg
<1>2. \A m \in Msg : h.parent[m] \in Parent /\ h.parent[m] < m /\ h.parent[m] # m
  <2>1. \A m \in Msg : h.parent[m] \in Parent /\ h.parent[m] < m
    BY DEF AgedHistories, Histories
  <2>2. \A m \in Msg : ~(m < m)
    BY DEF Msg
  <2>3. QED
    BY <2>1, <2>2
<1>3. \A m : \A c \in Children(h, m) : c \in h.known /\ h.parent[c] = m
  BY DEF Children
<1>4. ASSUME NEW m, NEW c \in Children(h, m) PROVE m < c
  <2>1. c \in Msg /\ h.parent[c] = m
    BY <1>1, <1>3
  <2>2. h.parent[c] < c
    BY <1>2, <2>1
  <2>3. QED
    BY ONLY <2>1, <2>2
<1>5. QED
  BY ONLY <1>1, <1>2, <1>3, <1>4

\* A question is saved: it is there and lists its answer.
LEMMA SaveGrows ==
    ASSUME NEW n \in Nat, NEW h \in AgedHistories(n), Proper(h),
           NEW m, NEW p \in Parent, NEW a \in Msg, Fitting(h, m, p, a),
           Question(h, m, p, a) \in AgedOps(n), NEW g \in Upserted(h, Question(h, m, p, a))
    PROVE  IF p = None THEN Placed(g, m, a) ELSE Hanging(g, m, p, a)
<1> DEFINE op == Question(h, m, p, a)
<1>1. op.kind = "save" /\ op.id = m /\ op.parent = p /\ op.kids = Children(h, m) \cup {a}
  BY DEF Question, Op
<1>2. m \in Msg /\ (p = None \/ p < m) /\ m < a
  BY <1>1 DEF AgedOps, Ops, Upserting
<1>3. /\ g.known = h.known \cup {m}
      /\ \A x \in Msg \ {m} : g.parent[x] = h.parent[x] /\ g.kids[x] = h.kids[x]
      /\ g.kids[m] = Children(h, m) \cup {a}
      /\ m \in h.known => g.parent[m] = p
      /\ m \notin h.known => g.parent[m] \in ParentsFor(h, op)
  <2> HIDE DEF op
  <2>1. op.kind \in Upserting
    BY <1>1 DEF Upserting
  <2>2. QED
    BY <1>1, <2>1, UpsertedFields DEF op
<1> HIDE DEF op
<1>4. h.known \subseteq Msg /\ Msg \subseteq Nat
  BY ProperKids
<1>5. g.parent[m] = p
  <2>1. CASE m \in h.known
    BY <1>3, <2>1
  <2>2. CASE m \notin h.known
    <3>1. \A q \in h.known : h.kids[q] \subseteq h.known
      BY DEF Proper, Listed, Children
    <3>2. {q \in h.known : op.id \in h.kids[q]} = {}
      BY <1>1, <2>2, <3>1
    <3>3. ParentsFor(h, op) = {p}
      BY <1>1, <3>2 DEF ParentsFor
    <3>4. QED
      BY <1>3, <2>2, <3>3
  <2>3. QED
    BY <2>1, <2>2
<1>6. m # a /\ p # m /\ m \in Nat
  BY <1>2, <1>4 DEF None, Msg
<1>7. \A x : Children(g, x) = IF x = p THEN Children(h, x) \cup {m} ELSE Children(h, x)
  <2>1. m \in h.known => h.parent[m] = p
    BY DEF Fitting
  <2>2. \A c \in h.known : g.parent[c] = h.parent[c]
    BY <1>3, <1>4, <1>5, <2>1
  <2>3. QED
    BY <1>3, <1>5, <2>1, <2>2 DEF Children
<1>8. Awaiting(g, m, a)
  BY <1>3, <1>6, <1>7 DEF Awaiting, Fitting
<1>9. Closed(g)
  BY <1>3, <1>4, <1>5 DEF Proper, Closed, Fitting
<1>10. Listed(g, {m, p})
  BY <1>3, <1>4, <1>7 DEF Proper, Listed
<1>11. CASE p = None
  <2>1. p \notin g.known
    BY <1>2, <1>3, <1>4, <1>11 DEF None, Msg
  <2>2. Listed(g, {m})
    BY <1>10, <2>1 DEF Listed
  <2>3. QED
    BY <1>8, <1>9, <1>11, <2>2 DEF Placed
<1>12. CASE p # None
  <2>1. p \in h.known /\ h.kids[p] = Children(h, p)
    BY <1>12 DEF Fitting, Proper, Listed
  <2>2. g.kids[p] \cup {m} = Children(g, p)
    BY <1>3, <1>4, <1>6, <1>7, <2>1
  <2>3. QED
    BY <1>3, <1>5, <1>8, <1>9, <1>10, <1>12, <2>1, <2>2 DEF Hanging
<1>13. QED
  BY <1>11, <1>12

\* Its parent lists it.
LEMMA HangGrows ==
    ASSUME NEW n \in Nat, NEW h \in AgedHistories(n), NEW m, NEW p, NEW a, Hanging(h, m, p, a)
    PROVE  /\ h.kids[p] \cup {m} = h.kids[p] => Placed(h, m, a)
           /\ \A g : /\ Op("hang", p, None, h.kids[p] \cup {m}) \in AgedOps(n)
                     /\ g \in Upserted(h, Op("hang", p, None, h.kids[p] \cup {m}))
                     => Placed(g, m, a)
<1>1. ASSUME NEW g, g.known = h.known, g.parent = h.parent, \A x \in Msg \ {p} : g.kids[x] = h.kids[x],
             g.kids[p] = h.kids[p] \cup {m}
      PROVE  Placed(g, m, a)
  <2>1. h.known \subseteq Msg /\ m # p
    BY ProperKids DEF Hanging, Awaiting
  <2>2. \A x : Children(g, x) = Children(h, x)
    BY <1>1 DEF Children
  <2>3. m \in Msg
    BY <2>1 DEF Hanging, Awaiting
  <2>4. Awaiting(g, m, a)
    BY <1>1, <2>1, <2>2, <2>3 DEF Hanging, Awaiting
  <2>5. Closed(g)
    BY <1>1 DEF Hanging, Closed
  <2>6. Listed(g, {m})
    <3>1. ASSUME NEW x \in h.known \ {m}, x # p PROVE g.kids[x] = Children(g, x)
      <4>1. h.kids[x] = Children(h, x)
        BY <3>1 DEF Hanging, Listed
      <4>2. QED
        BY <1>1, <2>1, <2>2, <3>1, <4>1
    <3>2. g.kids[p] = Children(g, p)
      BY <1>1, <2>2 DEF Hanging
    <3>3. QED
      BY <1>1, <3>1, <3>2 DEF Listed
  <2>7. QED
    BY <2>4, <2>5, <2>6 DEF Placed
<1>2. h.kids[p] \cup {m} = h.kids[p] => Placed(h, m, a)
  BY <1>1
<1>3. ASSUME NEW g, Op("hang", p, None, h.kids[p] \cup {m}) \in AgedOps(n),
             g \in Upserted(h, Op("hang", p, None, h.kids[p] \cup {m}))
      PROVE  Placed(g, m, a)
  <2> DEFINE op == Op("hang", p, None, h.kids[p] \cup {m})
  <2>1. op.kind = "hang" /\ op.id = p /\ op.kids = h.kids[p] \cup {m} /\ op.kind \in Upserting
    BY DEF Op, Upserting
  <2> HIDE DEF op
  <2>2. /\ g.known = h.known \cup {p}
        /\ \A x \in Msg \ {p} : g.parent[x] = h.parent[x] /\ g.kids[x] = h.kids[x]
        /\ p \in h.known => g.parent[p] = h.parent[p] /\ g.kids[p] = op.kids
    BY <1>3, <2>1, UpsertedFields DEF op
  <2>3. p \in h.known
    BY DEF Hanging
  <2>4. g \in AgedHistories(n)
    BY <1>3, <2>1, UpsertedAged DEF op
  <2>5. g.known = h.known /\ g.parent = h.parent
    BY <2>2, <2>3, <2>4 DEF AgedHistories, Histories
  <2>6. QED
    BY <1>1, <2>1, <2>2, <2>3, <2>5
<1>4. QED
  BY <1>2, <1>3

\* The question lists its answer, again.
LEMMA LinkGrows ==
    ASSUME NEW n \in Nat, NEW h \in AgedHistories(n), NEW m, NEW a, Placed(h, m, a),
           Op("link", m, None, h.kids[m]) \in AgedOps(n),
           NEW g \in Upserted(h, Op("link", m, None, h.kids[m]))
    PROVE  Placed(g, m, a)
<1> DEFINE op == Op("link", m, None, h.kids[m])
<1>1. op.kind = "link" /\ op.id = m /\ op.kids = h.kids[m] /\ op.kind \in Upserting
  BY DEF Op, Upserting
<1> HIDE DEF op
<1>2. /\ g.known = h.known \cup {m}
      /\ \A x \in Msg \ {m} : g.parent[x] = h.parent[x] /\ g.kids[x] = h.kids[x]
      /\ m \in h.known => g.parent[m] = h.parent[m] /\ g.kids[m] = h.kids[m]
  BY <1>1, UpsertedFields DEF op
<1>3. m \in h.known /\ g \in AgedHistories(n)
  BY <1>1, UpsertedAged DEF op, Placed, Awaiting
<1>4. g.known = h.known /\ g.parent = h.parent /\ g.kids = h.kids
  BY <1>2, <1>3 DEF AgedHistories, Histories
<1>5. QED
  BY <1>4, SameTree

\* The answer is there: a tree again.
LEMMA AnswerGrows ==
    ASSUME NEW n \in Nat, NEW h \in AgedHistories(n), NEW m, NEW a, Placed(h, m, a),
           Op("save", a, m, {}) \in AgedOps(n), NEW g \in Upserted(h, Op("save", a, m, {}))
    PROVE  Proper(g)
<1> DEFINE op == Op("save", a, m, {})
<1>1. op.kind = "save" /\ op.id = a /\ op.parent = m /\ op.kids = {} /\ op.kind \in Upserting
  BY DEF Op, Upserting
<1>2. m \in h.known /\ a \in Msg \ h.known /\ h.kids[m] = Children(h, m) \cup {a}
  BY DEF Placed, Awaiting
<1>3. h.known \subseteq Msg /\ m # None
  BY <1>2, ProperKids DEF Msg, None
<1> HIDE DEF op
<1>4. ParentsFor(h, op) = {m}
  BY <1>1, <1>3 DEF ParentsFor
<1>5. /\ g.known = h.known \cup {a}
      /\ \A x \in Msg \ {a} : g.parent[x] = h.parent[x] /\ g.kids[x] = h.kids[x]
      /\ g.parent[a] = m /\ g.kids[a] = {}
  <2>1. /\ g.known = h.known \cup {op.id}
        /\ \A x \in Msg \ {op.id} : g.parent[x] = h.parent[x] /\ g.kids[x] = h.kids[x]
        /\ op.id \notin h.known => g.parent[op.id] \in ParentsFor(h, op) /\ g.kids[op.id] = op.kids
    BY <1>1, UpsertedFields DEF op
  <2>2. QED
    BY <1>1, <1>2, <1>4, <2>1
<1>6. \A x : Children(g, x) = IF x = m THEN Children(h, x) \cup {a} ELSE Children(h, x)
  <2>1. \A c \in h.known : g.parent[c] = h.parent[c]
    BY <1>2, <1>3, <1>5
  <2>2. QED
    BY <1>5, <2>1 DEF Children
<1>7. Closed(g)
  BY <1>2, <1>3, <1>5 DEF Placed, Closed
<1>8. Children(h, a) = {} /\ m # a
  <2>1. m # a
    BY <1>2
  <2>2. a # None
    BY <1>2 DEF Msg, None
  <2>3. \A c \in h.known : h.parent[c] # a
    BY <1>2, <2>2 DEF Placed, Closed
  <2>4. QED
    BY <2>1, <2>3 DEF Children
<1>9. Listed(g, {})
  <2>1. \A x \in h.known \ {m} : g.kids[x] = Children(g, x)
    BY <1>2, <1>3, <1>5, <1>6 DEF Placed, Listed
  <2>2. g.kids[m] = Children(g, m)
    BY <1>2, <1>3, <1>5, <1>6, <1>8
  <2>3. g.kids[a] = Children(g, a)
    BY <1>5, <1>6, <1>8
  <2>4. QED
    BY <1>5, <2>1, <2>2, <2>3 DEF Listed
<1>10. QED
  BY <1>7, <1>9 DEF Proper

\* A late save into a message that is gone makes a root without children.
LEMMA EditGrows ==
    ASSUME NEW n \in Nat, NEW h \in AgedHistories(n), Proper(h), NEW m,
           Op("edit", m, None, {}) \in AgedOps(n), NEW g \in Upserted(h, Op("edit", m, None, {}))
    PROVE  Proper(g)
<1> DEFINE op == Op("edit", m, None, {})
<1>1. op.kind = "edit" /\ op.id = m /\ op.parent = None /\ op.kids = {} /\ op.kind \in Upserting
  BY DEF Op, Upserting
<1> HIDE DEF op
<1>2. /\ g.known = h.known \cup {m} /\ m \in Msg
      /\ \A x \in Msg \ {m} : g.parent[x] = h.parent[x] /\ g.kids[x] = h.kids[x]
      /\ m \in h.known => g.parent[m] = h.parent[m] /\ g.kids[m] = h.kids[m]
      /\ m \notin h.known => g.parent[m] \in ParentsFor(h, op) /\ g.kids[m] = {}
  BY <1>1, UpsertedFields DEF op
<1>3. h.known \subseteq Msg /\ Msg \subseteq Nat /\ g \in AgedHistories(n)
  BY <1>1, ProperKids, UpsertedAged DEF op
<1>4. CASE m \in h.known
  <2>1. g.known = h.known /\ \A x \in Msg : g.parent[x] = h.parent[x] /\ g.kids[x] = h.kids[x]
    BY <1>2, <1>4
  <2>2. /\ g.parent \in [Msg -> Parent] /\ h.parent \in [Msg -> Parent]
        /\ g.kids \in [Msg -> SUBSET Msg] /\ h.kids \in [Msg -> SUBSET Msg]
    BY <1>3 DEF AgedHistories, Histories
  <2>3. g.parent = h.parent /\ g.kids = h.kids
    BY <2>1, <2>2
  <2>4. QED
    BY <2>1, <2>3, SameTree
<1>5. CASE m \notin h.known
  <2>1. ParentsFor(h, op) = {None}
    <3>1. \A q \in h.known : h.kids[q] \subseteq h.known
      BY DEF Proper, Listed, Children
    <3>2. {q \in h.known : op.id \in h.kids[q]} = {}
      BY <1>1, <1>5, <3>1
    <3>3. QED
      BY <1>1, <3>2 DEF ParentsFor
  <2>2. g.parent[m] = None /\ g.kids[m] = {} /\ m # None
    BY <1>2, <1>5, <2>1 DEF Msg, None
  <2>3. \A c \in h.known : g.parent[c] = h.parent[c] /\ g.kids[c] = h.kids[c]
    BY <1>2, <1>3, <1>5
  <2>4. Closed(g)
    BY <1>2, <2>2, <2>3 DEF Proper, Closed
  <2>5. \A c \in g.known : g.parent[c] # m
    BY <1>2, <1>5, <2>2, <2>3 DEF Proper, Closed
  <2>6. \A x \in h.known : Children(g, x) = Children(h, x)
    <3>1. None \notin h.known
      BY <1>3 DEF Msg, None
    <3>2. QED
      BY <1>2, <2>2, <2>3, <3>1 DEF Children
  <2>7. Children(g, m) = {}
    BY <2>5 DEF Children
  <2>8. Listed(g, {})
    BY <1>2, <2>2, <2>3, <2>6, <2>7 DEF Proper, Listed
  <2>9. QED
    BY <2>4, <2>8 DEF Proper
<1>6. QED
  BY <1>4, <1>5

\* A save of a whole history makes all lists of children anew.
LEMMA MergedProper ==
    ASSUME NEW n \in Nat, NEW h \in AgedHistories(n), NEW in \in AgedHistories(n), Closed(h), Closed(in)
    PROVE  Proper(Merged(h, in))
<1> DEFINE g == Merged(h, in)
<1>1. h.known \subseteq Msg /\ in.known \subseteq Msg
  BY ProperKids
<1>2. /\ g.known = h.known \cup in.known
      /\ g.parent = [m \in Msg |-> IF m \in in.known THEN in.parent[m] ELSE h.parent[m]]
  BY DEF Merged
<1>3. g.kids = [p \in Msg |-> IF p \in g.known THEN {m \in g.known : g.parent[m] = p} ELSE {}]
  BY DEF Merged
<1> HIDE DEF g
<1>4. Listed(g, {})
  BY <1>1, <1>2, <1>3 DEF Listed, Children
<1>5. Closed(g)
  BY <1>1, <1>2 DEF Closed
<1>6. QED
  BY <1>4, <1>5 DEF Proper, g

\* A deletion takes the children along and moves the grandchildren up.
LEMMA CutProper ==
    ASSUME NEW n \in Nat, NEW h \in AgedHistories(n), Proper(h), NEW m \in h.known
    PROVE  Proper(Cut(h, m))
<1> DEFINE up == h.parent[m]
           grandchildren == UNION {h.kids[c] \cap h.known : c \in h.kids[m] \cap h.known}
           parent == [x \in Msg |-> IF x \in grandchildren THEN up ELSE h.parent[x]]
           kids == [x \in Msg |-> IF x = up /\ x \in h.known
                                  THEN (h.kids[x] \ {m}) \cup grandchildren ELSE h.kids[x]]
           hung == [h EXCEPT !.parent = parent, !.kids = kids]
           doomed == Doomed(h, m)
           g == Cut(h, m)
<1>1. /\ h.known \subseteq Msg /\ Msg \subseteq Nat
      /\ \A x \in Msg : h.parent[x] \in Parent /\ h.parent[x] # x
      /\ \A x : \A c \in Children(h, x) : c \in h.known /\ h.parent[c] = x
  BY ProperKids
<1>2. \A x \in h.known : h.kids[x] = Children(h, x)
  BY DEF Proper, Listed
<1>3. doomed = {m} \cup Children(h, m)
  BY <1>1, <1>2 DEF Doomed
<1>4. \A x : x \in grandchildren <=> \E c \in Children(h, m) : x \in Children(h, c)
  BY <1>1, <1>2
<1>5. Cut(h, m) = Without(hung, doomed)
  BY DEF Cut
<1> HIDE DEF up, grandchildren, doomed
<1>6. /\ g.known = h.known \ doomed
      /\ \A x \in Msg \ doomed : g.parent[x] = parent[x] /\ g.kids[x] = kids[x]
  <2> HIDE DEF parent, kids
  <2>1. hung.known = h.known /\ hung.parent = parent /\ hung.kids = kids
    BY DEF AgedHistories, Histories
  <2> HIDE DEF hung
  <2>2. g = [hung EXCEPT !.known = @ \ doomed,
                        !.parent = [x \in Msg |-> IF x \in doomed THEN None ELSE @[x]],
                        !.kids = [x \in Msg |-> IF x \in doomed THEN {} ELSE @[x]]]
    BY <1>5 DEF Without
  <2>3. QED
    BY <2>1, <2>2 DEF AgedHistories, Histories, hung
<1> HIDE DEF g
<1>7. grandchildren \subseteq h.known \ doomed
  <2> SUFFICES ASSUME NEW c \in Children(h, m), NEW x \in Children(h, c)
               PROVE  x \in h.known \ doomed
    BY <1>4
  <2>1. c \in h.known /\ h.parent[c] = m /\ x \in h.known /\ h.parent[x] = c /\ c # m
    BY <1>1
  <2>2. x # m
    <3>1. m < c /\ c < x
      BY ProperKids
    <3>2. m \in Nat /\ c \in Nat /\ x \in Nat
      BY <1>1, <2>1
    <3>3. QED
      BY <3>1, <3>2
  <2>3. x \notin Children(h, m)
    BY <1>1, <2>1
  <2>4. QED
    BY <1>3, <2>1, <2>2, <2>3
<1>8. up # m /\ up \in (h.known \ doomed) \cup {None}
  <2>1. up # m /\ up \in h.known \cup {None}
    BY <1>1 DEF up, Proper, Closed
  <2>2. up \notin Children(h, m)
    <3>1. \A c \in Children(h, m) : m < c
      BY ProperKids
    <3>2. up \in Nat /\ m \in Nat /\ up < m
      BY <1>1, ProperKids DEF up, Parent, Msg, None
    <3>3. QED
      BY <3>1, <3>2
  <2>3. QED
    BY <1>3, <2>1, <2>2
<1>9. \A x \in g.known : g.parent[x] = IF x \in grandchildren THEN up ELSE h.parent[x]
  BY <1>1, <1>6
<1>10. \A x \in g.known \ grandchildren : h.parent[x] \in (h.known \ doomed) \cup {None}
  <2> SUFFICES ASSUME NEW x \in h.known \ doomed, x \notin grandchildren
               PROVE  h.parent[x] \in (h.known \ doomed) \cup {None}
    BY <1>6
  <2>1. h.parent[x] \in h.known \cup {None} /\ x \in Children(h, h.parent[x])
    BY DEF Proper, Closed, Children
  <2>2. h.parent[x] # m
    BY <1>3, <2>1
  <2>3. h.parent[x] \notin Children(h, m)
    BY <1>4, <2>1
  <2>4. QED
    BY <1>3, <2>1, <2>2, <2>3
<1>11. Closed(g)
  BY <1>6, <1>8, <1>9, <1>10 DEF Closed
<1>12. ASSUME NEW x \in g.known PROVE g.kids[x] = Children(g, x)
  <2>1. x \in h.known /\ x \notin doomed /\ x \in Msg /\ x # m
    BY <1>1, <1>3, <1>6
  <2>2. g.kids[x] = IF x = up THEN (Children(h, x) \ {m}) \cup grandchildren ELSE Children(h, x)
    BY <1>2, <1>6, <2>1
  <2>3. ASSUME NEW c \in Children(h, x), c # m
        PROVE  c \in g.known /\ c \notin grandchildren
    <3>1. c \in h.known /\ h.parent[c] = x
      BY <1>1
    <3>2. c \notin doomed
      BY <1>1, <1>3, <2>1, <2>3, <3>1
    <3>3. c \notin grandchildren
      BY <1>1, <1>3, <1>4, <2>1, <3>1
    <3>4. QED
      BY <1>6, <3>1, <3>2, <3>3
  <2>4. m \in Children(h, x) => x = up
    BY <1>1 DEF up
  <2>5. CASE x = up
    <3>1. ASSUME NEW c \in g.kids[x] PROVE c \in Children(g, x)
      <4>1. CASE c \in grandchildren
        BY <1>6, <1>7, <1>9, <2>5, <4>1 DEF Children
      <4>2. CASE c \in Children(h, x) /\ c # m
        BY <1>1, <1>9, <2>3, <4>2 DEF Children
      <4>3. QED
        BY <2>2, <2>5, <3>1, <4>1, <4>2
    <3>2. ASSUME NEW c \in Children(g, x) PROVE c \in g.kids[x]
      <4>1. c \in g.known /\ g.parent[c] = x /\ c \in h.known /\ c # m
        BY <1>3, <1>6, <3>2 DEF Children
      <4>2. c \in grandchildren \/ c \in Children(h, x)
        BY <1>9, <4>1 DEF Children
      <4>3. QED
        BY <2>2, <2>5, <4>1, <4>2
    <3>3. QED
      BY <3>1, <3>2
  <2>6. CASE x # up
    <3>1. ASSUME NEW c \in Children(h, x) PROVE c \in Children(g, x)
      BY <1>1, <1>9, <2>3, <2>4, <2>6 DEF Children
    <3>2. ASSUME NEW c \in Children(g, x) PROVE c \in Children(h, x)
      BY <1>6, <1>9, <2>6, <3>2 DEF Children
    <3>3. QED
      BY <2>2, <2>6, <3>1, <3>2
  <2>7. QED
    BY <2>5, <2>6
<1>13. QED
  BY <1>11, <1>12 DEF Proper, Listed, g

LEMMA DeletedProper ==
    ASSUME NEW n \in Nat, NEW h \in AgedHistories(n), Proper(h), NEW m, NEW g \in Deleted(h, m)
    PROVE  Proper(g)
<1>1. CASE m \notin h.known
  <2>1. g = Repaired(h)
    BY <1>1 DEF Deleted
  <2>2. g.known = h.known /\ g.parent = h.parent /\ g.kids = h.kids
    BY <2>1 DEF Repaired, AgedHistories, Histories
  <2>3. QED
    BY <2>2, SameTree
<1>2. CASE m \in h.known
  <2> DEFINE cut == Cut(h, m)
  <2>1. cut \in AgedHistories(n) /\ Proper(cut)
    BY <1>2, CutAged, CutProper
  <2>2. PICK end : g = [cut EXCEPT !.current = CurrentAfter(cut, end)]
    BY <1>2 DEF Deleted
  <2> HIDE DEF cut
  <2>3. g.known = cut.known /\ g.parent = cut.parent /\ g.kids = cut.kids
    BY <2>1, <2>2 DEF AgedHistories, Histories
  <2>4. QED
    BY <2>1, <2>3, SameTree
<1>3. QED
  BY <1>1, <1>2

-----------------------------------------------------------------------------
(* What the operations of a request have still to add *)

Heads(q, op, rest) == q # <<>> /\ q[1] = op /\ Tail(q) = rest
Touch == Op("touch", None, None, {})
Answering(m, a) == <<Op("save", a, m, {})>>
Placing(m, a) == <<Op("link", m, None, {a})>> \o Answering(m, a)
Linking(m, p, a) ==
    IF p = None THEN Placing(m, a) ELSE <<Op("hang", p, None, {m})>> \o Placing(m, a)

\* History h and the operations q make a tree: nothing is lacking, or the links
\* of one question m, below p, and of its answer a.  The list K of children to
\* be written has been read, at the latest, when it is.
OneLeft(h, q) ==
    /\ Proper(h)
    /\ \E kind \in {"edit", "merge", "delete"}, m \in Parent : Heads(q, Op(kind, m, None, {}), <<>>)
QuestionLeft(h, q) ==
    \E m, a \in Msg, p \in Parent :
      /\ Proper(h) /\ Fitting(h, m, p, a)
      /\ \/ Heads(q, Touch, <<Question(h, m, p, a)>> \o Linking(m, p, a))
         \/ Heads(q, Question(h, m, p, a), Linking(m, p, a))
HangLeft(h, q) ==
    \E m, a \in Msg, p \in Parent :
      /\ Hanging(h, m, p, a)
      /\ \E K \in SUBSET (h.kids[p] \cup {m}) :
           m \in K /\ Heads(q, Op("hang", p, None, K), Placing(m, a))
LinkLeft(h, q) ==
    \E m, a \in Msg :
      /\ Placed(h, m, a)
      /\ \E K \in SUBSET h.kids[m] :
           a \in K /\ Heads(q, Op("link", m, None, K), Answering(m, a))
AnswerLeft(h, q) == \E m, a \in Msg : Placed(h, m, a) /\ q = Answering(m, a)

Owes(h, q) ==
    \/ Proper(h) /\ q = <<>>
    \/ OneLeft(h, q)
    \/ QuestionLeft(h, q)
    \/ HangLeft(h, q)
    \/ LinkLeft(h, q)
    \/ AnswerLeft(h, q)

LinksRead(op, h) == op.kind \in {"hang", "link"} => h.kids[op.id] \subseteq op.kids

\* Request r will make a tree of chat h.
Due(r, h) ==
    /\ Owes(h, IF r.at = "rows" THEN Tail(r.ops) ELSE r.ops)
    /\ r.at = "rows" => r.ops # <<>>
    /\ r.at \in {"idle", "map"} => r.ops = <<>>
    /\ r.at = "get" => r.ops[1].kind \in {"hang", "link"}
    /\ r.at \in {"read", "commit"} => LinksRead(r.ops[1], h)

\* The tab will go on with the history that answers its deletion.
Renewing(r) == r.at \in {"read", "commit"} /\ r.ops[1].kind = "delete"

Grown ==
    Calm /\ ~outdated =>
      /\ AtRest => Proper(chat)
      /\ \A t \in Tab : ~Idle(t) => Due(request[t], chat)
      /\ \A t \in Tab : Closed(copy[t]) \/ Renewing(request[t])

-----------------------------------------------------------------------------
(* Queues of operations *)

LEMMA HeadsOfCons ==
    ASSUME NEW op \in Ops, NEW q \in Seq(Ops)
    PROVE  <<op>> \o q \in Seq(Ops) /\ Heads(<<op>> \o q, op, q)
<1>1. <<op>> \in Seq(Ops) /\ Len(<<op>>) = 1 /\ <<op>>[1] = op
  OBVIOUS
<1> DEFINE one == <<op>>
           s == one \o q
<1> HIDE DEF one
<1>2. /\ s \in Seq(Ops) /\ Len(s) = Len(one) + Len(q) /\ Len(q) \in Nat
      /\ \A i \in 1..Len(one) + Len(q) : s[i] = IF i <= Len(one) THEN one[i] ELSE q[i - Len(one)]
  BY <1>1, ConcatProperties, LenProperties DEF one
<1> HIDE DEF s
<1>3. Len(s) = 1 + Len(q) /\ Len(s) # 0 /\ \A i \in 1..1 + Len(q) : s[i] = IF i <= 1 THEN op ELSE q[i - 1]
  BY <1>1, <1>2 DEF one
<1>4. s # <<>> /\ s[1] = op
  <2>1. s # <<>>
    BY <1>2, <1>3, EmptySeq
  <2>2. s[1] = op
    BY <1>2, <1>3
  <2>3. QED
    BY <2>1, <2>2
<1>5. /\ Tail(s) \in Seq(Ops) /\ Len(Tail(s)) = Len(s) - 1
      /\ \A i \in 1..Len(Tail(s)) : Tail(s)[i] = s[i + 1]
  BY <1>2, <1>4, HeadTailProperties
<1>6. Tail(s) = q
  <2> DEFINE rest == Tail(s)
  <2> HIDE DEF rest
  <2>1. rest \in Seq(Ops) /\ Len(rest) = Len(q) /\ \A i \in 1..Len(rest) : rest[i] = q[i]
    BY <1>2, <1>3, <1>5 DEF rest
  <2>2. rest = q
    BY <2>1, SeqEqual
  <2>3. QED
    BY <2>2 DEF rest
<1>7. QED
  BY <1>2, <1>4, <1>6 DEF Heads, s, one

LEMMA HeadsOfExcept ==
    ASSUME NEW q \in Seq(Ops), q # <<>>, NEW op \in Ops
    PROVE  Heads([q EXCEPT ![1] = op], op, Tail(q))
<1> DEFINE s == [q EXCEPT ![1] = op]
<1>1. Len(q) \in Nat /\ Len(q) # 0 /\ 1 \in 1..Len(q)
  <2>1. Len(q) \in Nat /\ Len(q) # 0
    BY EmptySeq, LenProperties
  <2>2. QED
    BY <2>1
<1>2. s \in Seq(Ops) /\ Len(s) = Len(q) /\ \A i \in 1..Len(q) : s[i] = IF i = 1 THEN op ELSE q[i]
  BY <1>1, ExceptSeq
<1> HIDE DEF s
<1>3. s # <<>> /\ s[1] = op
  <2>1. s # <<>>
    BY <1>1, <1>2, EmptySeq
  <2>2. QED
    BY <1>1, <1>2, <2>1
<1>4. /\ Tail(s) \in Seq(Ops) /\ Len(Tail(s)) = Len(s) - 1
      /\ \A i \in 1..Len(Tail(s)) : Tail(s)[i] = s[i + 1]
  BY <1>2, <1>3, HeadTailProperties
<1>5. /\ Tail(q) \in Seq(Ops) /\ Len(Tail(q)) = Len(q) - 1
      /\ \A i \in 1..Len(Tail(q)) : Tail(q)[i] = q[i + 1]
  BY HeadTailProperties
<1>6. \A i \in 1..Len(Tail(q)) : s[i + 1] = q[i + 1]
  BY <1>1, <1>2, <1>5
<1>7. Tail(s) = Tail(q)
  BY <1>2, <1>4, <1>5, <1>6, SeqEqual
<1>8. QED
  BY <1>3, <1>7 DEF Heads, s

LEMMA QueuesOfOps ==
    ASSUME NEW m \in Msg, NEW a \in Msg, NEW p \in Parent
    PROVE  /\ Answering(m, a) \in Seq(Ops) /\ Heads(Answering(m, a), Op("save", a, m, {}), <<>>)
           /\ Placing(m, a) \in Seq(Ops)
           /\ Heads(Placing(m, a), Op("link", m, None, {a}), Answering(m, a))
           /\ Linking(m, p, a) \in Seq(Ops)
           /\ p # None => Heads(Linking(m, p, a), Op("hang", p, None, {m}), Placing(m, a))
<1>1. /\ Op("save", a, m, {}) \in Ops /\ Op("link", m, None, {a}) \in Ops
      /\ Op("hang", p, None, {m}) \in Ops
  BY DEF Op, Ops, Parent
<1>2. Answering(m, a) \in Seq(Ops) /\ Heads(Answering(m, a), Op("save", a, m, {}), <<>>)
  <2> DEFINE op == Op("save", a, m, {})
  <2> HIDE DEF op
  <2>1. op \in Ops /\ <<>> \in Seq(Ops)
    BY <1>1 DEF op
  <2>2. <<op>> \o <<>> = <<op>>
    BY <2>1, ConcatEmptySeq
  <2>3. <<op>> \o <<>> \in Seq(Ops) /\ Heads(<<op>> \o <<>>, op, <<>>)
    BY <2>1, HeadsOfCons
  <2>4. QED
    BY <2>2, <2>3 DEF Answering, op
<1>3. Placing(m, a) \in Seq(Ops) /\ Heads(Placing(m, a), Op("link", m, None, {a}), Answering(m, a))
  BY <1>1, <1>2, HeadsOfCons DEF Placing
<1>4. /\ Linking(m, p, a) \in Seq(Ops)
      /\ p # None => Heads(Linking(m, p, a), Op("hang", p, None, {m}), Placing(m, a))
  BY <1>1, <1>3, HeadsOfCons DEF Linking
<1>5. QED
  BY <1>2, <1>3, <1>4

\* With nothing left to do there is a tree, and parents are always there.
LEMMA OwesTree ==
    ASSUME NEW h, NEW q, Owes(h, q)
    PROVE  Closed(h) /\ (q = <<>> => Proper(h))
<1>1. Closed(h)
  <2>1. OneLeft(h, q) \/ QuestionLeft(h, q) => Closed(h)
    BY DEF OneLeft, QuestionLeft, Proper
  <2>2. HangLeft(h, q) => Closed(h)
    BY DEF HangLeft, Hanging
  <2>3. LinkLeft(h, q) \/ AnswerLeft(h, q) => Closed(h)
    BY DEF LinkLeft, AnswerLeft, Placed
  <2>4. QED
    BY <2>1, <2>2, <2>3 DEF Owes, Proper
<1>2. \A m, a \in Msg : Answering(m, a) # <<>>
  BY QueuesOfOps DEF Heads, Parent
<1>3. ASSUME q = <<>> PROVE Proper(h)
  <2>1. \A o, rest : ~Heads(q, o, rest)
    BY <1>3 DEF Heads
  <2>2. ~OneLeft(h, q) /\ ~QuestionLeft(h, q)
    BY <2>1 DEF OneLeft, QuestionLeft
  <2>3. ~HangLeft(h, q) /\ ~LinkLeft(h, q)
    BY <2>1 DEF HangLeft, LinkLeft
  <2>4. ~AnswerLeft(h, q)
    BY <1>2, <1>3 DEF AnswerLeft
  <2>5. QED
    BY <2>2, <2>3, <2>4 DEF Owes
<1>4. QED
  BY <1>1, <1>3

LEMMA OwesPlacing ==
    ASSUME NEW h, NEW m \in Msg, NEW a \in Msg, NEW p \in Parent
    PROVE  /\ Placed(h, m, a) => Owes(h, Placing(m, a)) /\ Owes(h, Answering(m, a))
           /\ (IF p = None THEN Placed(h, m, a) ELSE Hanging(h, m, p, a)) => Owes(h, Linking(m, p, a))
<1>1. ASSUME Placed(h, m, a) PROVE Owes(h, Placing(m, a)) /\ Owes(h, Answering(m, a))
  <2>1. {a} \in SUBSET h.kids[m] /\ a \in {a}
    BY <1>1 DEF Placed, Awaiting
  <2>2. Heads(Placing(m, a), Op("link", m, None, {a}), Answering(m, a))
    BY QueuesOfOps
  <2>3. LinkLeft(h, Placing(m, a)) /\ AnswerLeft(h, Answering(m, a))
    BY <1>1, <2>1, <2>2 DEF LinkLeft, AnswerLeft
  <2>4. QED
    BY <2>3 DEF Owes
<1>2. ASSUME p # None, Hanging(h, m, p, a) PROVE Owes(h, Linking(m, p, a))
  <2>1. {m} \in SUBSET (h.kids[p] \cup {m}) /\ m \in {m}
    OBVIOUS
  <2>2. Heads(Linking(m, p, a), Op("hang", p, None, {m}), Placing(m, a))
    BY <1>2, QueuesOfOps
  <2>3. QED
    BY <1>2, <2>1, <2>2 DEF Owes, HangLeft
<1>3. QED
  BY <1>1, <1>2 DEF Linking

-----------------------------------------------------------------------------
(* What a request owes after a step of it *)

\* A commit leaves what the operations after it write.
LEMMA CommitGrows ==
    ASSUME NEW n \in Nat, NEW h \in AgedHistories(n), NEW in \in AgedHistories(n),
           NEW q \in Seq(AgedOps(n)), q # <<>>, Owes(h, q), LinksRead(q[1], h),
           q[1].kind = "merge" => Closed(in), NEW g \in Outcomes(q[1], h, in)
    PROVE  Owes(g, Tail(q))
<1>1. q[1] \in AgedOps(n)
  <2>1. Len(q) \in Nat /\ Len(q) # 0
    BY EmptySeq, LenProperties
  <2>2. QED
    BY <2>1
<1>2. ASSUME Proper(h), NEW kind \in {"edit", "merge", "delete"}, NEW m \in Parent,
             Heads(q, Op(kind, m, None, {}), <<>>)
      PROVE  Owes(g, Tail(q))
  <2>1. q[1] = Op(kind, m, None, {}) /\ q[1].kind = kind /\ q[1].id = m /\ Tail(q) = <<>>
    BY <1>2 DEF Heads, Op
  <2>2. CASE kind = "edit"
    BY <1>1, <1>2, <2>1, <2>2, EditGrows DEF Outcomes, Owes
  <2>3. CASE kind = "merge"
    BY <1>2, <2>1, <2>3, MergedProper DEF Outcomes, Owes, Proper
  <2>4. CASE kind = "delete"
    BY <1>2, <2>1, <2>4, DeletedProper DEF Outcomes, Owes
  <2>5. QED
    BY <2>2, <2>3, <2>4
<1>3. ASSUME NEW m \in Msg, NEW a \in Msg, NEW p \in Parent, Proper(h), Fitting(h, m, p, a),
             Heads(q, Touch, <<Question(h, m, p, a)>> \o Linking(m, p, a))
      PROVE  Owes(g, Tail(q))
  <2>1. g = h
    BY <1>3 DEF Heads, Touch, Op, Outcomes
  <2>2. Question(h, m, p, a) \in Ops
    BY ProperKids DEF Question, Op, Ops, Parent
  <2>3. Heads(Tail(q), Question(h, m, p, a), Linking(m, p, a))
    <3>1. Linking(m, p, a) \in Seq(Ops)
      BY QueuesOfOps
    <3>2. Heads(<<Question(h, m, p, a)>> \o Linking(m, p, a), Question(h, m, p, a), Linking(m, p, a))
      BY <2>2, <3>1, HeadsOfCons
    <3>3. QED
      BY <1>3, <3>2 DEF Heads
  <2>4. QED
    BY <1>3, <2>1, <2>3 DEF Owes, QuestionLeft
<1>4. ASSUME NEW m \in Msg, NEW a \in Msg, NEW p \in Parent, Proper(h), Fitting(h, m, p, a),
             Heads(q, Question(h, m, p, a), Linking(m, p, a))
      PROVE  Owes(g, Tail(q))
  <2>1. q[1] = Question(h, m, p, a) /\ Tail(q) = Linking(m, p, a)
    BY <1>4 DEF Heads
  <2>2. g \in Upserted(h, Question(h, m, p, a))
    BY <2>1 DEF Question, Op, Outcomes
  <2>3. IF p = None THEN Placed(g, m, a) ELSE Hanging(g, m, p, a)
    BY <1>1, <1>4, <2>1, <2>2, SaveGrows
  <2>4. QED
    BY <2>1, <2>3, OwesPlacing
<1>5. ASSUME NEW m \in Msg, NEW a \in Msg, NEW p \in Parent, Hanging(h, m, p, a),
             NEW K \in SUBSET (h.kids[p] \cup {m}), m \in K, Heads(q, Op("hang", p, None, K), Placing(m, a))
      PROVE  Owes(g, Tail(q))
  <2>1. q[1] = Op("hang", p, None, K) /\ Tail(q) = Placing(m, a)
    BY <1>5 DEF Heads
  <2>2. h.kids[p] \subseteq K
    BY <2>1 DEF Op, LinksRead
  <2>3. q[1] = Op("hang", p, None, h.kids[p] \cup {m})
    <3>1. K = h.kids[p] \cup {m}
      BY <1>5, <2>2
    <3>2. QED
      BY <2>1, <3>1
  <2>4. g \in Upserted(h, Op("hang", p, None, h.kids[p] \cup {m}))
    BY <2>3 DEF Op, Outcomes
  <2>5. Placed(g, m, a)
    BY <1>1, <1>5, <2>3, <2>4, HangGrows
  <2>6. QED
    BY <2>1, <2>5, OwesPlacing DEF Parent
<1>6. ASSUME NEW m \in Msg, NEW a \in Msg, Placed(h, m, a), NEW K \in SUBSET h.kids[m], a \in K,
             Heads(q, Op("link", m, None, K), Answering(m, a))
      PROVE  Owes(g, Tail(q))
  <2>1. q[1] = Op("link", m, None, K) /\ Tail(q) = Answering(m, a)
    BY <1>6 DEF Heads
  <2>2. K = h.kids[m]
    <3>1. h.kids[m] \subseteq K
      BY <2>1 DEF Op, LinksRead
    <3>2. QED
      BY <1>6, <3>1
  <2>3. g \in Upserted(h, Op("link", m, None, h.kids[m]))
    BY <2>1, <2>2 DEF Op, Outcomes
  <2>4. Placed(g, m, a)
    BY <1>1, <1>6, <2>1, <2>2, <2>3, LinkGrows
  <2>5. QED
    BY <2>1, <2>4, OwesPlacing DEF Parent
<1>7. ASSUME NEW m \in Msg, NEW a \in Msg, Placed(h, m, a), q = Answering(m, a)
      PROVE  Owes(g, Tail(q))
  <2>1. q[1] = Op("save", a, m, {}) /\ Tail(q) = <<>>
    BY <1>7, QueuesOfOps DEF Heads, Parent
  <2>2. g \in Upserted(h, Op("save", a, m, {}))
    BY <2>1 DEF Op, Outcomes
  <2>3. Proper(g)
    BY <1>1, <1>7, <2>1, <2>2, AnswerGrows
  <2>4. QED
    BY <2>1, <2>3 DEF Owes
<1>8. ~(Proper(h) /\ q = <<>>)
  OBVIOUS
<1>9. OneLeft(h, q) => Owes(g, Tail(q))
  BY <1>2 DEF OneLeft
<1>10. QuestionLeft(h, q) => Owes(g, Tail(q))
  BY <1>3, <1>4 DEF QuestionLeft
<1>11. HangLeft(h, q) => Owes(g, Tail(q))
  BY <1>5 DEF HangLeft
<1>12. LinkLeft(h, q) => Owes(g, Tail(q))
  BY <1>6 DEF LinkLeft
<1>13. AnswerLeft(h, q) => Owes(g, Tail(q))
  BY <1>7 DEF AnswerLeft
<1>14. Owes(h, q)
  OBVIOUS
<1>15. \/ OneLeft(h, q) \/ QuestionLeft(h, q) \/ HangLeft(h, q) \/ LinkLeft(h, q) \/ AnswerLeft(h, q)
  BY <1>8, <1>14 DEF Owes
<1>16. QED
  BY ONLY <1>9, <1>10, <1>11, <1>12, <1>13, <1>15

LEMMA FollowingDue ==
    ASSUME NEW q \in Seq(Ops), NEW h, q # <<>>, Owes(h, Tail(q))
    PROVE  Due(Following(q), h)
<1>1. Len(q) \in Nat /\ Len(q) # 0 /\ Tail(q) \in Seq(Ops) /\ Len(Tail(q)) = Len(q) - 1
  BY EmptySeq, LenProperties, HeadTailProperties
<1>2. CASE Len(q) <= 1
  <2>1. Tail(q) = <<>>
    BY <1>1, <1>2, EmptySeq
  <2>2. Following(q).at = "idle" /\ Following(q).ops = <<>>
    BY <1>2 DEF Following, NoRequest
  <2>3. QED
    BY <2>1, <2>2 DEF Due
<1>3. CASE ~(Len(q) <= 1)
  <2> DEFINE g == [NoRequest EXCEPT !.at = FirstStep(q[2]), !.ops = Tail(q)]
  <2>1. Following(q) = g
    BY <1>3 DEF Following
  <2>2. g.at = FirstStep(q[2]) /\ g.ops = Tail(q)
    BY DEF NoRequest
  <2>3. Tail(q)[1] = q[2]
    <3>1. \A i \in 1..Len(Tail(q)) : Tail(q)[i] = q[i + 1]
      BY HeadTailProperties
    <3>2. 1 \in 1..Len(Tail(q))
      BY <1>1, <1>3
    <3>3. Tail(q)[1] = q[1 + 1]
      BY <3>1, <3>2
    <3>4. 1 + 1 = 2
      OBVIOUS
    <3>5. QED
      BY <3>3, <3>4, Zenon
  <2> HIDE DEF g
  <2>4. \/ g.at = "get" /\ g.ops[1].kind \in {"hang", "link"}
        \/ g.at = "read" /\ g.ops[1].kind \notin {"hang", "link"}
    BY <2>2, <2>3 DEF FirstStep
  <2>5. QED
    BY <2>1, <2>2, <2>4 DEF Due, LinksRead
<1>4. QED
  BY <1>2, <1>3

LEMMA RowsLeftDue ==
    ASSUME NEW n \in Nat, NEW r \in AgedRequests(n), r.ops # <<>>, NEW h, Owes(h, Tail(r.ops)),
           NEW c, NEW todo, NEW gone
    PROVE  Due(RowsLeft(r, c, todo, gone), h)
<1>1. r.ops \in Seq(Ops)
  <2>1. AgedOps(n) \subseteq Ops /\ r.ops \in Seq(AgedOps(n))
    BY DEF AgedOps, AgedRequests
  <2>2. QED
    BY <2>1
<1>2. CASE todo = {} /\ gone = {}
  BY <1>1, <1>2, FollowingDue DEF RowsLeft
<1>3. CASE ~(todo = {} /\ gone = {})
  <2> DEFINE g == [r EXCEPT !.at = "rows", !.seen = c, !.todo = todo, !.gone = gone]
  <2>1. g.at = "rows" /\ g.ops = r.ops
    BY DEF AgedRequests
  <2> HIDE DEF g
  <2>2. Due(g, h)
    BY <2>1 DEF Due
  <2>3. QED
    BY <1>3, <2>2 DEF RowsLeft, g
<1>4. QED
  BY <1>2, <1>3

\* A step of the only request there is.
LEMMA AloneGrown ==
    ASSUME request \in [Tab -> AgedRequests(issued)], NEW t \in Tab, NEW g,
           request' = [request EXCEPT ![t] = g], Alone(t), Due(g, chat'),
           \A u \in Tab : Closed(copy'[u]) \/ Renewing(request'[u])
    PROVE  Grown'
<1>1. \A u \in Tab : ~Idle(u)' => u = t
  BY DEF Alone, Idle
<1>2. request'[t] = g
  OBVIOUS
<1>3. AtRest' => Proper(chat')
  <2>1. AtRest' => g.at = "idle"
    BY <1>2 DEF AtRest, Idle
  <2>2. g.at = "idle" => Owes(chat', <<>>)
    BY DEF Due
  <2>3. QED
    BY <2>1, <2>2, OwesTree
<1>4. \A u \in Tab : ~Idle(u)' => Due(request'[u], chat')
  BY <1>1, <1>2
<1>5. QED
  BY <1>3, <1>4 DEF Grown

\* The list of children that a link is going to write is read.
LEMMA GetGrown ==
    ASSUME Aged, NEW t \in Tab, Get(t), Due(request[t], chat)
    PROVE  \E g : request' = [request EXCEPT ![t] = g] /\ Due(g, chat)
<1> DEFINE r == request[t]
           op == r.ops[1]
           kids == chat.kids[op.id] \cup op.kids
           linked == [op EXCEPT !.kids = kids]
           ops == [r.ops EXCEPT ![1] = linked]
           g == [r EXCEPT !.at = "read", !.ops = ops]
<1>1. /\ r \in AgedRequests(issued) /\ issued \in Nat /\ chat \in AgedHistories(issued)
      /\ r.at = "get" /\ r.ops \in Seq(AgedOps(issued)) /\ r.ops # <<>>
  BY DEF Aged, AgedTabs, AgedStore, Counted, Get, AgedRequests
<1>2. r.ops \in Seq(Ops) /\ op \in Ops
  <2>1. AgedOps(issued) \subseteq Ops
    BY DEF AgedOps
  <2>2. Len(r.ops) \in Nat /\ Len(r.ops) # 0
    BY <1>1, EmptySeq, LenProperties
  <2>3. r.ops \in Seq(Ops)
    BY <1>1, <2>1
  <2>4. QED
    BY <2>2, <2>3
<1>3. request' = [request EXCEPT ![t] =
                    IF op.id \in chat.known /\ (op.kind = "link" \/ kids # chat.kids[op.id])
                    THEN g ELSE Following(r.ops)]
  BY DEF Get
<1>4. g.at = "read" /\ g.ops = ops
  <2> HIDE DEF ops
  <2>1. QED
    BY <1>1 DEF AgedRequests
<1>5. Owes(chat, r.ops) /\ op.kind \in {"hang", "link"}
  BY <1>1 DEF Due
<1> HIDE DEF g
<1>6. ASSUME NEW new, new = [op EXCEPT !.kids = kids], new \in Ops
      PROVE  Heads(ops, new, Tail(r.ops))
  BY <1>1, <1>2, <1>6, HeadsOfExcept
<1> HIDE DEF ops, op, r
<1>7. ASSUME NEW m \in Msg, NEW a \in Msg, NEW p \in Parent, Hanging(chat, m, p, a),
             NEW K \in SUBSET (chat.kids[p] \cup {m}), m \in K,
             Heads(r.ops, Op("hang", p, None, K), Placing(m, a))
      PROVE  /\ Due(g, chat)
             /\ kids = chat.kids[op.id] => Due(Following(r.ops), chat)
             /\ op.id \in chat.known /\ op.kind = "hang"
  <2>1. op = Op("hang", p, None, K) /\ Tail(r.ops) = Placing(m, a)
    BY <1>7 DEF Heads, op
  <2>2. op.id = p /\ op.kind = "hang" /\ op.kids = K /\ kids = chat.kids[p] \cup {m}
    BY <1>7, <2>1 DEF Op
  <2>3. p \in chat.known /\ chat.kids[p] \subseteq Msg
    BY <1>1, <1>7 DEF Hanging, AgedHistories, Histories
  <2>4. linked = Op("hang", p, None, chat.kids[p] \cup {m})
    <3> HIDE DEF kids
    <3>1. linked = Op("hang", p, None, kids)
      BY <2>1 DEF Op
    <3>2. kids = chat.kids[p] \cup {m}
      BY <2>2
    <3> HIDE DEF linked
    <3>3. QED
      BY <3>1, <3>2
  <2>5. linked \in Ops
    BY <2>3, <2>4 DEF Op, Ops, Parent
  <2>6. Heads(ops, linked, Placing(m, a))
    BY <1>6, <2>1, <2>5
  <2> HIDE DEF linked, kids
  <2>7. Owes(chat, ops)
    <3>1. (chat.kids[p] \cup {m}) \in SUBSET (chat.kids[p] \cup {m}) /\ m \in chat.kids[p] \cup {m}
      OBVIOUS
    <3>2. QED
      BY <1>7, <2>4, <2>6, <3>1 DEF Owes, HangLeft
  <2>8. LinksRead(ops[1], chat)
    BY <2>4, <2>6 DEF Heads, LinksRead, Op
  <2>9. Due(g, chat)
    BY <1>4, <2>7, <2>8 DEF Due
  <2>10. ASSUME kids = chat.kids[op.id] PROVE Due(Following(r.ops), chat)
    <3>1. Placed(chat, m, a)
      BY <1>1, <1>7, <2>2, <2>10, HangGrows
    <3>2. Owes(chat, Tail(r.ops))
      BY <2>1, <3>1, OwesPlacing DEF Parent
    <3>3. QED
      BY <1>1, <1>2, <3>2, FollowingDue
  <2>11. QED
    BY <2>2, <2>3, <2>9, <2>10
<1>8. ASSUME NEW m \in Msg, NEW a \in Msg, Placed(chat, m, a), NEW K \in SUBSET chat.kids[m], a \in K,
             Heads(r.ops, Op("link", m, None, K), Answering(m, a))
      PROVE  Due(g, chat) /\ op.id \in chat.known /\ op.kind = "link"
  <2>1. op = Op("link", m, None, K) /\ Tail(r.ops) = Answering(m, a)
    BY <1>8 DEF Heads, op
  <2>2. op.id = m /\ op.kind = "link" /\ op.kids = K /\ kids = chat.kids[m]
    BY <1>8, <2>1 DEF Op
  <2>3. m \in chat.known /\ chat.kids[m] \subseteq Msg
    BY <1>1, <1>8 DEF Placed, Awaiting, AgedHistories, Histories
  <2>4. linked = Op("link", m, None, chat.kids[m])
    <3> HIDE DEF kids
    <3>1. QED
      BY <2>1, <2>2 DEF Op
  <2>5. linked \in Ops
    BY <2>3, <2>4 DEF Op, Ops, Parent
  <2>6. Heads(ops, linked, Answering(m, a))
    BY <1>6, <2>1, <2>5
  <2> HIDE DEF linked, kids
  <2>7. Owes(chat, ops)
    <3>1. chat.kids[m] \in SUBSET chat.kids[m] /\ a \in chat.kids[m]
      BY <1>8
    <3>2. None \in Parent
      BY DEF Parent
    <3>3. QED
      BY <1>8, <2>4, <2>6, <3>1, <3>2 DEF Owes, LinkLeft
  <2>8. LinksRead(ops[1], chat)
    BY <2>4, <2>6 DEF Heads, LinksRead, Op
  <2>9. QED
    BY <1>4, <2>2, <2>3, <2>7, <2>8 DEF Due
<1>9. HangLeft(chat, r.ops) \/ LinkLeft(chat, r.ops)
  <2>1. ASSUME NEW rest, NEW o, Heads(r.ops, o, rest) PROVE o.kind \in {"hang", "link"}
    BY <1>5, <2>1 DEF Heads, op
  <2>2. ASSUME NEW m \in Msg, NEW a \in Msg PROVE r.ops # Answering(m, a)
    <3>1. Heads(Answering(m, a), Op("save", a, m, {}), <<>>)
      BY QueuesOfOps DEF Parent
    <3>2. Op("save", a, m, {}).kind = "save"
      BY DEF Op
    <3>3. QED
      BY <2>1, <3>1, <3>2
  <2>3. \A o, rest : o.kind \notin {"hang", "link"} => ~Heads(r.ops, o, rest)
    BY <2>1
  <2>4. \A kind \in {"edit", "merge", "delete"}, m \in Parent : ~Heads(r.ops, Op(kind, m, None, {}), <<>>)
    BY <2>3 DEF Op
  <2>5. \A m, a \in Msg, p \in Parent :
          /\ ~Heads(r.ops, Touch, <<Question(chat, m, p, a)>> \o Linking(m, p, a))
          /\ ~Heads(r.ops, Question(chat, m, p, a), Linking(m, p, a))
    <3>1. Touch.kind = "touch" /\ \A m, a, p : Question(chat, m, p, a).kind = "save"
      BY DEF Touch, Question, Op
    <3>2. QED
      BY <2>3, <3>1
  <2>6. ~OneLeft(chat, r.ops)
    BY <2>4 DEF OneLeft
  <2>7. ~QuestionLeft(chat, r.ops)
    BY <2>5 DEF QuestionLeft
  <2>8. ~AnswerLeft(chat, r.ops)
    BY <2>2 DEF AnswerLeft
  <2>9. Owes(chat, r.ops) /\ r.ops # <<>>
    BY <1>1, <1>5
  <2>10. QED
    BY ONLY <2>6, <2>7, <2>8, <2>9 DEF Owes
<1>10. HangLeft(chat, r.ops) => Due(IF op.id \in chat.known /\ (op.kind = "link" \/ kids # chat.kids[op.id])
                                    THEN g ELSE Following(r.ops), chat)
  BY <1>7 DEF HangLeft
<1>11. LinkLeft(chat, r.ops) => Due(g, chat) /\ op.id \in chat.known /\ op.kind = "link"
  BY <1>8 DEF LinkLeft
<1>12. QED
  BY <1>3, <1>9, <1>10, <1>11

LEMMA StepGrown ==
    ASSUME Aged, Mirrored, Grown, NEW t \in Tab, Step(t)
    PROVE  Grown'
<1> SUFFICES ASSUME Calm', ~outdated' PROVE Grown'
  BY DEF Grown
<1> DEFINE r == request[t]
           op == r.ops[1]
<1>1. /\ request \in [Tab -> AgedRequests(issued)] /\ r \in AgedRequests(issued) /\ issued \in Nat
      /\ r.ops \in Seq(AgedOps(issued)) /\ copy \in [Tab -> AgedHistories(issued)]
      /\ chat \in AgedHistories(issued)
      /\ r.at \in {"get", "read", "commit"} => r.ops # <<>>
  <2>1. /\ request \in [Tab -> AgedRequests(issued)] /\ r \in AgedRequests(issued) /\ issued \in Nat
        /\ copy \in [Tab -> AgedHistories(issued)] /\ chat \in AgedHistories(issued)
    BY DEF Aged, AgedTabs, AgedStore, Counted
  <2> HIDE DEF r
  <2>2. r.ops \in Seq(AgedOps(issued)) /\ (r.at \in {"get", "read", "commit"} => r.ops # <<>>)
    BY <2>1, AgedRequestFields
  <2>3. QED
    BY <2>1, <2>2
<1>2. Calm /\ ~outdated /\ ~Idle(t)
  <2>1. overlaps' = overlaps /\ faults' = faults /\ outdated' = outdated
    BY StepFrame
  <2>2. ~Idle(t)
    BY StepFrame
  <2>3. QED
    BY <2>1, <2>2 DEF Calm
<1>3. Alone(t) /\ Fits(r, chat, rows) /\ Due(r, chat)
  BY <1>2 DEF Mirrored, Grown, Alone
<1>4. \A u \in Tab \ {t} : Closed(copy[u])
  BY <1>2, <1>3 DEF Grown, Alone, Idle, Renewing
<1>5. Closed(copy[t]) \/ Renewing(r)
  BY <1>2 DEF Grown
<1> HIDE DEF r, op
<1>6. ASSUME NEW g, request' = [request EXCEPT ![t] = g], Due(g, chat'),
             \A u \in Tab \ {t} : copy'[u] = copy[u], Closed(copy'[t]) \/ Renewing(g)
      PROVE  Grown'
  <2>1. \A u \in Tab : Closed(copy'[u]) \/ Renewing(request'[u])
    BY <1>1, <1>4, <1>6
  <2>2. QED
    BY <1>1, <1>3, <1>6, <2>1, AloneGrown
<1>7. CASE Get(t)
  <2>1. PICK g : request' = [request EXCEPT ![t] = g] /\ Due(g, chat)
    BY <1>3, <1>7, GetGrown DEF r
  <2>2. chat' = chat /\ copy' = copy /\ r.at = "get"
    BY <1>7 DEF Get, r
  <2>3. Closed(copy[t])
    BY <1>5, <2>2 DEF Renewing
  <2>4. QED
    BY <1>6, <2>1, <2>2, <2>3
<1>8. CASE Read(t)
  <2> DEFINE g == [r EXCEPT !.at = "commit", !.seen = chat]
  <2>1. request' = [request EXCEPT ![t] = g] /\ chat' = chat /\ copy' = copy /\ r.at = "read"
    BY <1>8 DEF Read, r
  <2>2. g.at = "commit" /\ g.ops = r.ops
    BY <1>1 DEF AgedRequests
  <2> HIDE DEF g
  <2>3. Due(g, chat) /\ (Renewing(r) => Renewing(g))
    BY <1>3, <2>1, <2>2 DEF Due, Renewing
  <2>4. QED
    BY <1>5, <1>6, <2>1, <2>3
<1>9. CASE Commit(t)
  <2> DEFINE gone == IF op.kind = "delete" THEN Doomed(r.seen, op.id) ELSE {}
             todo(h) == IF op.kind = "delete" /\ gone = {} THEN {} ELSE Todo(op, h)
  <2>1. PICK h \in Outcomes(op, r.seen, copy[t]) :
          /\ chat' = h
          /\ request' = [request EXCEPT ![t] = RowsLeft(r, h, todo(h), gone)]
          /\ copy' = IF op.kind = "delete" THEN [copy EXCEPT ![t] = h] ELSE copy
    BY <1>9 DEF Commit, r, op
  <2> HIDE DEF gone, todo
  <2>2. r.at = "commit" /\ r.seen = chat /\ r.ops # <<>>
    BY <1>1, <1>3, <1>9 DEF Commit, Fits, r
  <2>3. Owes(chat, r.ops) /\ LinksRead(op, chat)
    BY <1>3, <2>2 DEF Due, op
  <2>4. op.kind # "delete" => Closed(copy[t])
    BY <1>5 DEF Renewing, op
  <2>5. Owes(h, Tail(r.ops))
    BY <1>1, <2>1, <2>2, <2>3, <2>4, CommitGrows DEF op
  <2>6. Due(RowsLeft(r, h, todo(h), gone), chat')
    BY <1>1, <2>1, <2>2, <2>5, RowsLeftDue
  <2>7. Closed(copy'[t]) /\ \A u \in Tab \ {t} : copy'[u] = copy[u]
    <3>1. Closed(h)
      BY <2>5, OwesTree
    <3>2. QED
      BY <1>1, <2>1, <2>4, <3>1
  <2>8. QED
    BY <1>6, <2>1, <2>6, <2>7
<1>10. ASSUME NEW c, NEW todo, NEW gone, r.at = "rows", chat' = chat, copy' = copy,
              request' = [request EXCEPT ![t] = RowsLeft(r, c, todo, gone)]
       PROVE  Grown'
  <2>1. Owes(chat, Tail(r.ops)) /\ r.ops # <<>>
    BY <1>3, <1>10 DEF Due
  <2>2. Due(RowsLeft(r, c, todo, gone), chat')
    BY <1>1, <1>10, <2>1, RowsLeftDue
  <2>3. Closed(copy[t])
    BY <1>5, <1>10 DEF Renewing
  <2>4. QED
    BY <1>6, <1>10, <2>2, <2>3
<1>11. CASE (\E m \in Msg : RowWrite(t, m)) \/ RowsDrop(t)
  BY <1>10, <1>11 DEF RowWrite, RowsDrop, r
<1>12. CASE Backfill(t)
  <2>1. /\ request' = [request EXCEPT ![t] = RowsLeft(r, chat, r.todo \cap chat.known, {})]
        /\ chat' = chat /\ copy' = copy /\ r.at = "map"
    BY <1>12 DEF Backfill, r
  <2>2. r.todo \cap chat.known = {} /\ r.ops = <<>> /\ Owes(chat, <<>>)
    BY <1>3, <2>1 DEF Fits, Due
  <2>3. RowsLeft(r, chat, r.todo \cap chat.known, {}) = NoRequest
    BY <2>2 DEF RowsLeft, Following
  <2>4. Due(NoRequest, chat)
    BY <2>2 DEF Due, NoRequest
  <2>5. Closed(copy[t])
    BY <1>5, <2>1 DEF Renewing
  <2>6. QED
    BY <1>6, <2>1, <2>3, <2>4, <2>5
<1>13. QED
  BY <1>7, <1>8, <1>9, <1>11, <1>12 DEF Step

-----------------------------------------------------------------------------
(* What a request owes when it begins *)

\* A request begins alone, on a chat that is a tree.
LEMMA BeginGrown ==
    ASSUME Aged, Grown, NEW t \in Tab, NEW ops, Begin(t, ops), Calm', ~outdated,
           Calm /\ Alone(t) /\ Proper(chat) /\ (\A u \in Tab : Closed(copy[u])) =>
             /\ ops # <<>> /\ Owes(chat, ops) /\ ops[1].kind \notin {"hang", "link"}
             /\ \A u \in Tab \ {t} : copy'[u] = copy[u]
             /\ Closed(copy'[t]) \/ ops[1].kind = "delete"
    PROVE  Grown'
<1>1. overlaps \in Nat /\ request \in [Tab -> AgedRequests(issued)]
  BY DEF Aged, Counted, AgedTabs
<1>2. Alone(t) /\ Idle(t) /\ Calm /\ chat' = chat
  BY <1>1 DEF Begin, Calm
<1>3. Proper(chat) /\ \A u \in Tab : Closed(copy[u])
  BY <1>2 DEF Grown, AtRest, Alone, Idle, Renewing
<1> DEFINE g == [NoRequest EXCEPT !.at = FirstStep(ops[1]), !.ops = ops]
<1>4. g.at = "read" /\ g.ops = ops
  BY <1>2, <1>3 DEF NoRequest, FirstStep
<1>5. request' = [request EXCEPT ![t] = g]
  BY DEF Begin
<1> HIDE DEF g
<1>6. Due(g, chat')
  BY <1>2, <1>3, <1>4 DEF Due, LinksRead
<1>7. \A u \in Tab : Closed(copy'[u]) \/ Renewing(request'[u])
  BY <1>1, <1>2, <1>3, <1>4, <1>5 DEF Renewing
<1>8. QED
  BY <1>1, <1>2, <1>5, <1>6, <1>7, AloneGrown

\* A question goes below a message of the chat that the tab shows.
LEMMA TurnGrown ==
    ASSUME Aged, Grown, NEW t \in Tab, NEW m \in Msg, NEW a \in Msg, NEW p \in Parent,
           NEW kids \in SUBSET Msg, Turn(t, m, p, kids, a), m # a, Calm', ~outdated',
           Proper(chat) /\ Tree(copy[t]) = Tree(chat) =>
             Fitting(chat, m, p, a) /\ kids = Children(chat, m) \cup {a}
    PROVE  Grown'
<1> DEFINE question == Op("save", m, p, kids)
           ops == <<Touch, question>>
                    \o (IF p = None THEN <<>> ELSE <<Op("hang", p, None, {m})>>)
                    \o <<Op("link", m, None, {a}), Op("save", a, m, {})>>
<1>1. Begin(t, ops) /\ copy' = [copy EXCEPT ![t] = Asked(copy[t], m, p, kids, a)]
  BY DEF Turn, Touch
<1>2. outdated \in BOOLEAN /\ copy \in [Tab -> AgedHistories(issued)]
  BY DEF Aged, AgedTabs, Counted
<1>3. ~outdated /\ Tree(copy[t]) = Tree(chat)
  BY <1>2 DEF Turn
<1>4. ops = <<Touch>> \o (<<question>> \o Linking(m, p, a))
  BY DEF Linking, Placing, Answering
<1>5. Touch \in Ops /\ Touch.kind = "touch" /\ question \in Ops
  BY DEF Touch, Op, Ops, Parent
<1>6. Linking(m, p, a) \in Seq(Ops)
  BY QueuesOfOps
<1> HIDE DEF ops, question
<1>7. Heads(ops, Touch, <<question>> \o Linking(m, p, a))
  BY <1>4, <1>5, <1>6, HeadsOfCons
<1>8. ASSUME Proper(chat), Closed(copy[t])
      PROVE  Owes(chat, ops) /\ Closed(copy'[t])
  <2>1. Fitting(chat, m, p, a) /\ question = Question(chat, m, p, a)
    BY <1>3, <1>8 DEF Question, question
  <2>2. Owes(chat, ops)
    BY <1>7, <1>8, <2>1 DEF Owes, QuestionLeft
  <2> DEFINE c == copy[t]
             d == Asked(c, m, p, kids, a)
  <2>3. c \in Histories /\ p \in c.known \cup {None}
    BY <1>2, <1>3, <2>1 DEF AgedHistories, Tree, Fitting
  <2> HIDE DEF c
  <2>4. /\ d.known = c.known \cup {m, a} /\ d.parent[m] = p /\ d.parent[a] = m
        /\ \A x \in Msg \ {m, a} : d.parent[x] = c.parent[x]
    BY <2>3 DEF Asked, Histories
  <2>5. copy'[t] = d
    BY <1>1, <1>2 DEF c
  <2> HIDE DEF d
  <2>6. Closed(d)
    BY <1>8, <2>3, <2>4 DEF Closed, Histories, c
  <2>7. QED
    BY <2>2, <2>5, <2>6
<1>9. ops # <<>> /\ ops[1].kind = "touch" /\ \A u \in Tab \ {t} : copy'[u] = copy[u]
  BY <1>1, <1>2, <1>5, <1>7 DEF Heads
<1>10. QED
  BY <1>1, <1>3, <1>8, <1>9, BeginGrown

LEMMA AskGrown ==
    ASSUME Aged, Grown, NEW t \in Tab, NEW p \in Parent, Ask(t, p), Calm', ~outdated'
    PROVE  Grown'
<1> DEFINE m == issued + 1
           a == issued + 2
<1>1. /\ issued \in Nat /\ a <= N /\ p \in copy[t].known \cup {None} /\ Turn(t, m, p, {a}, a)
      /\ chat.known \subseteq 1..issued
  BY DEF Ask, Aged, AgedStore, Counted, AgedHistories
<1>2. m \in Msg /\ a \in Msg /\ m # a /\ m \notin chat.known /\ a \notin chat.known /\ m # None
  <2>1. m \in Msg /\ a \in Msg /\ m # a /\ m # None
    <3>1. m \in Int /\ a \in Int /\ 1 <= m /\ m < a /\ a <= N
      BY <1>1
    <3> HIDE DEF m, a
    <3>2. QED
      BY <3>1 DEF Msg, None
  <2>2. m \notin 1..issued /\ a \notin 1..issued
    BY <1>1
  <2>3. QED
    BY <1>1, <2>1, <2>2
<1> HIDE DEF m, a
<1>3. ASSUME Proper(chat), Tree(copy[t]) = Tree(chat)
      PROVE  Fitting(chat, m, p, a) /\ {a} = Children(chat, m) \cup {a}
  <2>1. p \in chat.known \cup {None}
    BY <1>1, <1>3 DEF Tree
  <2>2. Children(chat, m) = {}
    BY <1>2, <1>3 DEF Proper, Closed, Children
  <2>3. QED
    BY <1>2, <2>1, <2>2 DEF Fitting
<1>4. QED
  BY <1>1, <1>2, <1>3, TurnGrown

LEMMA RegenerateGrown ==
    ASSUME Aged, Grown, NEW t \in Tab, NEW m \in Msg, Regenerate(t, m), Calm', ~outdated'
    PROVE  Grown'
<1> DEFINE a == issued + 1
           p == copy[t].parent[m]
           kids == copy[t].kids[m] \cup {a}
<1>1. a <= N /\ m \in copy[t].known /\ Turn(t, m, p, kids, a)
  BY Zenon DEF Regenerate
<1>2. /\ issued \in Nat /\ chat \in AgedHistories(issued) /\ copy[t] \in AgedHistories(issued)
  BY DEF Aged, AgedStore, AgedTabs, Counted
<1>3. a \in Msg /\ m # a /\ a \notin chat.known
  BY <1>1, <1>2 DEF Msg, AgedHistories
<1>4. p \in Parent /\ kids \in SUBSET Msg
  BY <1>2, <1>3 DEF AgedHistories, Histories
<1>5. ASSUME Proper(chat), Tree(copy[t]) = Tree(chat)
      PROVE  Fitting(chat, m, p, a) /\ kids = Children(chat, m) \cup {a}
  <2>1. m \in chat.known /\ p = chat.parent[m] /\ kids = chat.kids[m] \cup {a}
    BY <1>1, <1>5 DEF Tree
  <2>2. QED
    BY <1>3, <1>5, <2>1 DEF Proper, Closed, Listed, Fitting
<1> HIDE DEF a, p, kids
<1>6. QED
  BY <1>1, <1>3, <1>4, <1>5, TurnGrown

LEMMA OthersGrown ==
    ASSUME Aged, Grown, NEW t \in Tab, NEW m \in Msg, Edit(t, m) \/ Save(t, m) \/ Delete(t, m),
           Calm', ~outdated'
    PROVE  Grown'
<1>1. copy \in [Tab -> AgedHistories(issued)] /\ ~outdated
  BY DEF Aged, AgedTabs, Edit, Save, Delete
<1>2. ASSUME NEW kind \in {"edit", "merge", "delete"}, NEW id \in Parent, Begin(t, <<Op(kind, id, None, {})>>),
             \A u \in Tab \ {t} : copy'[u] = copy[u],
             Closed(copy[t]) => Closed(copy'[t]) \/ kind = "delete"
      PROVE  Grown'
  <2> DEFINE op == Op(kind, id, None, {})
             ops == <<op>>
  <2>1. op \in Ops /\ op.kind = kind /\ <<>> \in Seq(Ops) /\ <<op>> \o <<>> = <<op>>
    BY DEF Op, Ops, Parent
  <2> HIDE DEF op
  <2>2. Heads(ops, op, <<>>)
    BY <2>1, HeadsOfCons
  <2>3. ops # <<>> /\ ops[1].kind = kind
    BY <2>1, <2>2 DEF Heads
  <2> HIDE DEF ops
  <2>4. Proper(chat) => Owes(chat, ops)
    BY <1>2, <2>2 DEF Owes, OneLeft, op
  <2>5. Begin(t, ops)
    BY <1>2 DEF op, ops
  <2>6. QED
    BY <1>1, <1>2, <2>3, <2>4, <2>5, BeginGrown
<1>3. CASE Edit(t, m)
  BY <1>2, <1>3 DEF Edit, Parent
<1>4. CASE Save(t, m)
  <2>1. copy' = [copy EXCEPT ![t].current = m] /\ Begin(t, <<Op("merge", None, None, {})>>)
    BY <1>4 DEF Save
  <2>2. /\ \A u \in Tab \ {t} : copy'[u] = copy[u]
        /\ copy'[t].known = copy[t].known /\ copy'[t].parent = copy[t].parent
    BY <1>1, <2>1 DEF AgedHistories, Histories
  <2>3. Closed(copy[t]) => Closed(copy'[t])
    BY <2>2 DEF Closed
  <2>4. QED
    BY <1>2, <2>1, <2>2, <2>3 DEF Parent
<1>5. CASE Delete(t, m)
  <2>1. \A u \in Tab \ {t} : copy'[u] = copy[u]
    BY <1>1, <1>5 DEF Delete
  <2>2. QED
    BY <1>2, <1>5, <2>1 DEF Delete, Parent
<1>6. QED
  BY <1>3, <1>4, <1>5

LEMMA LoadMapGrown ==
    ASSUME Aged, Grown, NEW t \in Tab, LoadMap(t), Calm', ~outdated'
    PROVE  Grown'
<1> DEFINE g == [NoRequest EXCEPT !.at = "map", !.todo = Gaps]
<1>1. request \in [Tab -> AgedRequests(issued)] /\ overlaps \in Nat
  BY DEF Aged, AgedTabs, Counted
<1>2. Alone(t) /\ Idle(t) /\ Calm /\ ~outdated /\ chat' = chat /\ copy' = copy
  BY <1>1 DEF LoadMap, Calm
<1>3. Proper(chat) /\ \A u \in Tab : Closed(copy[u])
  BY <1>2 DEF Grown, AtRest, Alone, Idle, Renewing
<1>4. g.at = "map" /\ g.ops = <<>> /\ request' = [request EXCEPT ![t] = g]
  BY DEF NoRequest, LoadMap
<1> HIDE DEF g
<1>5. Due(g, chat')
  BY <1>2, <1>3, <1>4 DEF Due, Owes
<1>6. QED
  BY <1>1, <1>2, <1>3, <1>4, <1>5, AloneGrown

LEMMA ReloadGrown ==
    ASSUME Aged, Grown, NEW t \in Tab, Reload(t), Calm', ~outdated'
    PROVE  Grown'
<1>1. /\ copy' = [copy EXCEPT ![t] = chat]
      /\ UNCHANGED <<chat, request>> /\ Idle(t) /\ Calm /\ ~outdated
  BY DEF Reload, counters, Calm
<1>2. Closed(chat)
  <2>1. CASE AtRest
    BY <1>1, <2>1 DEF Grown, Proper
  <2>2. CASE ~AtRest
    BY <1>1, <2>2, OwesTree DEF Grown, AtRest, Due
  <2>3. QED
    BY <2>1, <2>2
<1>3. \A u \in Tab : Closed(copy'[u]) \/ Renewing(request'[u])
  BY <1>1, <1>2 DEF Grown, Aged, AgedTabs
<1>4. QED
  BY <1>1, <1>3 DEF Grown, AtRest, Idle

LEMMA NextGrown ==
    ASSUME Aged, Mirrored, Grown, [Next]_vars
    PROVE  Grown'
<1> SUFFICES ASSUME Calm', ~outdated' PROVE Grown'
  BY DEF Grown
<1>1. CASE UNCHANGED vars
  BY <1>1 DEF vars, Grown, Calm, AtRest, Idle
<1>2. ASSUME NEW t \in Tab, Reload(t) \/ LoadMap(t) \/ Step(t) PROVE Grown'
  BY <1>2, ReloadGrown, LoadMapGrown, StepGrown
<1>3. ASSUME NEW t \in Tab, NEW p \in Parent, Ask(t, p) PROVE Grown'
  BY <1>3, AskGrown
<1>4. ASSUME NEW t \in Tab, NEW m \in Msg, Regenerate(t, m) \/ Edit(t, m) \/ Save(t, m) \/ Delete(t, m)
      PROVE  Grown'
  BY <1>4, RegenerateGrown, OthersGrown
<1>5. ASSUME NEW t \in Tab, CommitFails(t) \/ (\E m \in Msg : RowFails(t, m)) \/ Dies(t) PROVE Grown'
  <2>1. faults \in Nat /\ faults' = faults + 1
    BY <1>5 DEF CommitFails, RowFails, Dies, Fault, Aged, Counted
  <2>2. faults' # 0
    BY <2>1
  <2>3. QED
    BY <2>2 DEF Calm
<1>6. QED
  BY <1>1, <1>2, <1>3, <1>4, <1>5 DEF Next

LEMMA InitGrown ==
    ASSUME Init
    PROVE  Grown
<1>1. Opened.known = 1..Opening /\ Opening \in Nat /\ 1..Opening \subseteq Msg
  <2>1. Opened.known = 1..Opening
    BY DEF Opened
  <2>2. QED
    BY <2>1 DEF Msg
<1>2. \A m \in 1..Opening : Opened.parent[m] = m - 1 /\ Opened.kids[m] = IF m < Opening THEN {m + 1} ELSE {}
  BY <1>1 DEF Opened
<1>3. Closed(Opened)
  <2>1. \A m \in 1..Opening : m - 1 \in (1..Opening) \cup {None}
    BY DEF None
  <2>2. QED
    BY <1>1, <1>2, <2>1 DEF Closed
<1>4. \A m \in 1..Opening : Children(Opened, m) = {c \in 1..Opening : c - 1 = m}
  BY <1>1, <1>2 DEF Children
<1>5. ASSUME NEW m \in 1..Opening
      PROVE  {c \in 1..Opening : c - 1 = m} = IF m < Opening THEN {m + 1} ELSE {}
  <2>1. \A c \in 1..Opening : c - 1 = m <=> c = m + 1
    OBVIOUS
  <2>2. CASE m < Opening
    <3>1. m + 1 \in 1..Opening
      BY <2>2
    <3>2. QED
      BY <2>1, <2>2, <3>1
  <2>3. CASE ~(m < Opening)
    <3>1. \A c \in 1..Opening : c # m + 1
      BY <2>3
    <3>2. QED
      BY <2>1, <2>3, <3>1
  <2>4. QED
    BY <2>2, <2>3
<1>6. Proper(Opened)
  <2>1. ASSUME NEW m \in Opened.known
        PROVE  Opened.kids[m] = Children(Opened, m)
    <3>1. m \in 1..Opening
      BY <1>1
    <3>2. Opened.kids[m] = IF m < Opening THEN {m + 1} ELSE {}
      BY <1>2, <3>1
    <3>3. Children(Opened, m) = {c \in 1..Opening : c - 1 = m}
      BY <1>4, <3>1
    <3>4. {c \in 1..Opening : c - 1 = m} = IF m < Opening THEN {m + 1} ELSE {}
      BY <1>5, <3>1
    <3>5. QED
      BY <3>2, <3>3, <3>4
  <2>2. Opened.known \ {} = Opened.known
    OBVIOUS
  <2>3. Listed(Opened, {})
    BY ONLY <2>1, <2>2 DEF Listed
  <2>4. QED
    BY ONLY <1>3, <2>3 DEF Proper
<1>7. chat = Opened /\ \A t \in Tab : copy[t] = Opened /\ Idle(t)
  BY DEF Init, Idle, NoRequest
<1>8. QED
  BY <1>3, <1>6, <1>7 DEF Grown

\* Unless requests overlapped or failed, or a tab asked below an old copy: when
\* all is quiet the parents are there and the children of a message are those it
\* is the parent of, however the links, saves and deletions were put together.
THEOREM TreeIsSound == Spec => []Sound
<1>1. ASSUME Grown PROVE Sound
  <2> SUFFICES ASSUME AtRest, overlaps = 0, ~outdated, faults = 0, NEW m \in chat.known
               PROVE  /\ chat.parent[m] \in chat.known \cup {None}
                      /\ chat.kids[m] = {c \in chat.known : chat.parent[c] = m}
    BY DEF Sound
  <2>1. Proper(chat)
    BY <1>1 DEF Grown, Calm
  <2>2. QED
    BY <2>1 DEF Proper, Closed, Listed, Children
<1>2. QED
  BY <1>1, AlwaysAged, InitAged, NextAged, InitMirrored, NextMirrored, InitGrown, NextGrown, PTL DEF Spec
=============================================================================
