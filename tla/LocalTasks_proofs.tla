------------------------- MODULE LocalTasks_proofs --------------------------
(***************************************************************************)
(* What the registry without Redis guarantees for every number of tasks,   *)
(* items and stop requests: its lists and its dictionary agree, a request  *)
(* fails only on a task another one has popped, and the shrinking loop     *)
(* still reaches two tasks that stay in it until they have ended.          *)
(***************************************************************************)
EXTENDS LocalTasks, TLAPS

-----------------------------------------------------------------------------
(* The inductive invariants *)

\* A task is in the list of its own item only, from its creation until its
\* cleanup, and in the dictionary unless it has been popped.
ListInv ==
    /\ \A i \in Item : \A k \in 1..Len(itemTasks[i]) :
         /\ ItemOf[itemTasks[i][k]] = i
         /\ stage[itemTasks[i][k]] \in {"running", "cancelling", "ended"}
         /\ itemTasks[i][k] \notin tasks =>
              stage[itemTasks[i][k]] \in {"cancelling", "ended"}
    /\ \A t \in tasks :
         /\ stage[t] \in {"running", "ended"}
         /\ \E k \in 1..Len(itemTasks[ItemOf[t]]) : itemTasks[ItemOf[t]][k] = t

\* A request that still has a list to go through works on an item.
Going(s) == stop[s].pc \in {"loop", "await"}
StopInv == \A s \in Stopper : Going(s) /\ ~stop[s].detached => stop[s].item \in Item

\* A task that has been popped and is still listed was popped by a request,
\* and not by one whose loop has still to reach it.
Other(f, s, t) == \E r \in Stopper \ {s} : r \in f[t]
PoppedAt(s) ==
    /\ stop[s].pc = "idle" => \A t \in Task : s \notin popper[t]
    /\ Going(s) /\ ~stop[s].detached =>
         \A k \in stop[s].next..Len(itemTasks[stop[s].item]) :
            itemTasks[stop[s].item][k] \notin tasks => Other(popper, s, itemTasks[stop[s].item][k])
    /\ stop[s].pc = "failed" /\ stop[s].item \in Item =>
         stop[s].cur \in Task /\ Other(popper, s, stop[s].cur)
ListedPopped ==
    \A i \in Item : \A k \in 1..Len(itemTasks[i]) :
       itemTasks[i][k] \notin tasks => \E r \in Stopper : r \in popper[itemTasks[i][k]]
PoppedInv == ListedPopped /\ \A s \in Stopper : PoppedAt(s)

\* The tasks a request was asked to stop, when they are two that stay in the
\* list until their end.
Pair(s) ==
    /\ \E t, u \in Task : stop[s].asked \subseteq {t, u}
    /\ stop[s].asked \cap SelfCleaning = {}

\* Where the loop over a pair stands: at the first element of the list it
\* started on; or past the first, which is still there, with the second to
\* come if it runs; or past both.
PairAt(s) ==
    /\ \A t \in stop[s].asked : stage[t] # "idle"
    /\ stop[s].pc = "await" => stop[s].next > 1
    /\ Pair(s) /\ Going(s) =>
         /\ stop[s].next = 1 => /\ ~stop[s].detached
                                /\ stop[s].asked = ToSet(itemTasks[stop[s].item])
         /\ stop[s].next > 1 => \A t \in stop[s].asked : stage[t] = "running" =>
              /\ ~stop[s].detached
              /\ stop[s].next = 2
              /\ Len(itemTasks[stop[s].item]) >= 2
              /\ itemTasks[stop[s].item][2] = t
              /\ stop[s].pc = "await" => itemTasks[stop[s].item][1] = stop[s].cur
              /\ itemTasks[stop[s].item][1] \in stop[s].asked
    /\ Pair(s) /\ stop[s].pc = "all" =>
         \A t \in stop[s].asked : stage[t] # "running"
PairInv == \A s \in Stopper : PairAt(s)

-----------------------------------------------------------------------------
(* Lists *)

\* list.remove on a list without repetitions takes out one position, or
\* nothing when the element is not there.
LEMMA Removed ==
  ASSUME NEW S, NEW q \in Seq(S), IsInjective(q), NEW e
  PROVE  /\ RemoveFirst(q, e) \in Seq(S)
         /\ IsInjective(RemoveFirst(q, e))
         /\ \A k \in 1..Len(RemoveFirst(q, e)) : RemoveFirst(q, e)[k] # e
         /\ \/ /\ RemoveFirst(q, e) = q
               /\ \A k \in 1..Len(q) : q[k] # e
            \/ \E p \in 1..Len(q) :
                 /\ q[p] = e
                 /\ Len(RemoveFirst(q, e)) = Len(q) - 1
                 /\ \A k \in 1..Len(q) - 1 :
                      RemoveFirst(q, e)[k] = IF k < p THEN q[k] ELSE q[k + 1]
<1>0. \A i, j \in 1..Len(q) : q[i] = q[j] => i = j
  BY DEF IsInjective
<1>1. CASE \A k \in 1..Len(q) : q[k] # e
  <2>1. RemoveFirst(q, e) = q
    BY <1>1 DEF RemoveFirst
  <2> QED
    BY <2>1, <1>1
<1>2. CASE \E k \in 1..Len(q) : q[k] = e
  <2>1. PICK p \in 1..Len(q) : q[p] = e
    BY <1>2
  <2>2. {i \in 1..Len(q) : q[i] = e} = {p}
    BY <2>1, <1>0
  <2>3. Min({p}) = p
    BY <2>1 DEF Min
  <2>4. SelectInSeq(q, LAMBDA v : v = e) = p
    BY <2>2, <2>3 DEF SelectInSeq
  <2>5. RemoveFirst(q, e) = SubSeq(q, 1, p - 1) \o SubSeq(q, p + 1, Len(q))
    BY <2>4, <1>2 DEF RemoveFirst, RemoveAt
  <2> DEFINE a == SubSeq(q, 1, p - 1)
             b == SubSeq(q, p + 1, Len(q))
  <2>6. /\ a \in Seq(S) /\ Len(a) = p - 1
        /\ \A k \in 1..p - 1 : a[k] = q[k]
    BY <2>1
  <2>7. /\ b \in Seq(S) /\ Len(b) = Len(q) - p
        /\ \A k \in 1..Len(q) - p : b[k] = q[p + k]
    BY <2>1
  <2> HIDE DEF a, b
  <2>8. /\ a \o b \in Seq(S)
        /\ Len(a \o b) = Len(q) - 1
        /\ \A k \in 1..Len(q) - 1 : (a \o b)[k] = IF k < p THEN q[k] ELSE q[k + 1]
    <3>0. Len(a) + Len(b) = Len(q) - 1
      <4>1. (p - 1) + (Len(q) - p) = Len(q) - 1
        BY <2>1
      <4>2. Len(a) = p - 1 /\ Len(b) = Len(q) - p
        BY <2>6, <2>7
      <4> QED
        BY <4>1, <4>2
    <3>1. a \o b \in Seq(S) /\ Len(a \o b) = Len(q) - 1
      <4>1. a \o b \in Seq(S) /\ Len(a \o b) = Len(a) + Len(b)
        <5>1. a \in Seq(S) /\ b \in Seq(S)
          BY <2>6, <2>7
        <5> QED
          BY <5>1
      <4> QED
        BY <3>0, <4>1
    <3>2. ASSUME NEW k \in 1..Len(q) - 1
          PROVE  (a \o b)[k] = IF k < p THEN q[k] ELSE q[k + 1]
      <4>1. CASE k < p
        BY <4>1, <2>1, <2>6, <2>7
      <4>2. CASE ~(k < p)
        <5>1. (a \o b)[k] = b[k - (p - 1)]
          BY <4>2, <2>1, <2>6, <2>7
        <5>2. k - (p - 1) \in 1..Len(q) - p
          BY <4>2, <2>1
        <5>3. b[k - (p - 1)] = q[p + (k - (p - 1))]
          BY <5>2, <2>7
        <5>4. p + (k - (p - 1)) = k + 1
          BY <2>1
        <5> QED
          BY <4>2, <5>1, <5>3, <5>4
      <4> QED
        BY <4>1, <4>2
    <3> QED
      BY <3>1, <3>2
  <2> DEFINE r == RemoveFirst(q, e)
  <2>9. r = a \o b
    BY <2>5 DEF a, b
  <2> HIDE DEF r
  <2>10. /\ r \in Seq(S) /\ Len(r) = Len(q) - 1
         /\ \A k \in 1..Len(q) - 1 : r[k] = IF k < p THEN q[k] ELSE q[k + 1]
    BY <2>8, <2>9
  <2>11. ASSUME NEW i \in 1..Len(r), NEW j \in 1..Len(r), r[i] = r[j] PROVE i = j
    <3> DEFINE at(k) == IF k < p THEN k ELSE k + 1
    <3>1. i \in 1..Len(q) - 1 /\ j \in 1..Len(q) - 1
      BY <2>10
    <3>2. \A k \in 1..Len(q) - 1 : at(k) \in 1..Len(q) /\ r[k] = q[at(k)]
      BY <2>1, <2>10
    <3>3. at(i) = at(j)
      BY ONLY <1>0, <2>11, <3>1, <3>2
    <3>4. QED
      BY ONLY <2>1, <3>1, <3>3
  <2>12. IsInjective(r)
    BY <2>11, <2>10 DEF IsInjective
  <2>13. ASSUME NEW k \in 1..Len(r) PROVE r[k] # e
    <3> DEFINE m == IF k < p THEN k ELSE k + 1
    <3>1. k \in 1..Len(q) - 1
      BY <2>10
    <3>2. m \in 1..Len(q) /\ m # p /\ r[k] = q[m]
      BY <2>1, <2>10, <3>1
    <3>3. QED
      BY ONLY <1>0, <2>1, <3>2
  <2> QED
    BY <2>1, <2>10, <2>12, <2>13 DEF r
<1> QED
  BY <1>1, <1>2

Without(r, q, e) ==
  /\ \A k \in 1..Len(r) : r[k] # e
  /\ \/ r = q
     \/ \E p \in 1..Len(q) :
          /\ Len(r) = Len(q) - 1
          /\ \A k \in 1..Len(q) - 1 : r[k] = IF k < p THEN q[k] ELSE q[k + 1]

LEMMA RemovedShape ==
  ASSUME NEW S, NEW q \in Seq(S), IsInjective(q), NEW e
  PROVE  Without(RemoveFirst(q, e), q, e)
<1> DEFINE r == RemoveFirst(q, e)
<1>1. \A k \in 1..Len(r) : r[k] # e
  BY Removed
<1>2. \/ r = q
      \/ \E p \in 1..Len(q) :
           /\ Len(r) = Len(q) - 1
           /\ \A k \in 1..Len(q) - 1 : r[k] = IF k < p THEN q[k] ELSE q[k + 1]
  BY Removed
<1>3. QED
  BY ONLY <1>1, <1>2 DEF Without

-----------------------------------------------------------------------------
(* Types *)

\* What a cleanup leaves of the list it works on, and of the others.
LEMMA CleanupLists ==
  ASSUME TypeOK, NEW t \in Task, Cleanup(t)
  PROVE  /\ itemTasks' \in [Item -> Seq(Task)]
         /\ \A i \in Item : IsInjective(itemTasks'[i])
         /\ itemTasks'[ItemOf[t]] = RemoveFirst(itemTasks[ItemOf[t]], t)
         /\ \A i \in Item \ {ItemOf[t]} : itemTasks'[i] = itemTasks[i]
         /\ tasks' = tasks \ {t}
<1>1. ItemOf[t] \in Item
  BY ConstantsAssumption
<1>2. /\ RemoveFirst(itemTasks[ItemOf[t]], t) \in Seq(Task)
      /\ IsInjective(RemoveFirst(itemTasks[ItemOf[t]], t))
  BY <1>1, Removed DEF TypeOK
<1> QED
  BY <1>1, <1>2 DEF Cleanup, TypeOK

\* It changes of a request only whether its loop has lost the list.
LEMMA CleanupStop ==
  ASSUME TypeOK, NEW t \in Task, Cleanup(t)
  PROVE  /\ stop' \in [Stopper -> Stops]
         /\ \A s \in Stopper :
              /\ stop'[s].pc = stop[s].pc /\ stop'[s].item = stop[s].item
              /\ stop'[s].next = stop[s].next /\ stop'[s].cur = stop[s].cur
              /\ stop'[s].asked = stop[s].asked
              /\ stop'[s].detached = (stop[s].detached
                   \/ (stop[s].item = ItemOf[t] /\ itemTasks'[ItemOf[t]] = <<>>))
<1> DEFINE left == RemoveFirst(itemTasks[ItemOf[t]], t)
           new(s) == IF stop[s].item = ItemOf[t] /\ left = <<>>
                     THEN [stop[s] EXCEPT !.detached = TRUE] ELSE stop[s]
<1>1. stop' = [s \in Stopper |-> new(s)]
  BY DEF Cleanup
<1>2. itemTasks'[ItemOf[t]] = left
  BY CleanupLists
<1>3. ASSUME NEW s \in Stopper
      PROVE  /\ new(s) \in Stops
             /\ new(s).pc = stop[s].pc /\ new(s).item = stop[s].item
             /\ new(s).next = stop[s].next /\ new(s).cur = stop[s].cur
             /\ new(s).asked = stop[s].asked
             /\ new(s).detached = (stop[s].detached
                  \/ (stop[s].item = ItemOf[t] /\ left = <<>>))
  <2>1. stop[s] \in Stops
    BY DEF TypeOK
  <2> HIDE DEF left
  <2> QED
    BY <2>1 DEF Stops
<1> HIDE DEF new, left
<1> QED
  BY <1>1, <1>2, <1>3

\* A request that has a list to go through keeps it.
LEMMA StopStep ==
  ASSUME TypeOK, StopInv, [Next]_vars
  PROVE  StopInv'
<1>0. stop \in [Stopper -> Stops]
  BY DEF TypeOK
<1>1. ASSUME NEW t \in Task, Create(t) \/ Finish(t) \/ Raise(t)
      PROVE  StopInv'
  BY <1>1 DEF Create, Finish, Raise, StopInv, Going
<1>2. ASSUME NEW t \in Task, SelfCleanup(t) \/ Callback(t)
      PROVE  StopInv'
  <2>1. Cleanup(t)
    BY <1>2 DEF SelfCleanup, Callback
  <2>2. \A s \in Stopper : /\ stop'[s].pc = stop[s].pc /\ stop'[s].item = stop[s].item
                           /\ stop[s].detached => stop'[s].detached
    BY <2>1, CleanupStop
  <2> QED
    BY <2>2 DEF StopInv, Going
<1>3. ASSUME NEW s \in Stopper, NEW i \in Item, StopItemTasks(s, i)
      PROVE  StopInv'
  <2> DEFINE new == [NoStop EXCEPT !.pc = "loop", !.item = i, !.asked = ToSet(itemTasks[i])]
  <2>1. new.item = i
    BY DEF NoStop
  <2>2. stop' = [stop EXCEPT ![s] = new]
    BY <1>3 DEF StopItemTasks
  <2> HIDE DEF new
  <2> QED
    BY <1>0, <2>1, <2>2 DEF StopInv, Going
<1>4. ASSUME NEW s \in Stopper, NEW t \in Task, StopTask(s, t) \/ StopTaskMissing(s, t)
      PROVE  StopInv'
  <2>1. PICK c \in {"await", "raised", "loop"} : c = AwaitPc(t)
    BY DEF AwaitPc
  <2>2. CASE StopTask(s, t)
    <3> DEFINE new == [NoStop EXCEPT !.pc = c, !.cur = t, !.next = 2, !.detached = TRUE,
                                     !.asked = {t}]
    <3>1. new.detached
      BY DEF NoStop
    <3>2. stop' = [stop EXCEPT ![s] = new]
      BY <2>1, <2>2 DEF StopTask
    <3> HIDE DEF new
    <3> QED
      BY <1>0, <3>1, <3>2 DEF StopInv, Going
  <2>3. CASE StopTaskMissing(s, t)
    <3> DEFINE new == [NoStop EXCEPT !.pc = "failed", !.cur = t]
    <3>1. new.pc = "failed"
      BY DEF NoStop
    <3>2. stop' = [stop EXCEPT ![s] = new]
      BY <2>3 DEF StopTaskMissing
    <3> HIDE DEF new
    <3> QED
      BY <1>0, <3>1, <3>2 DEF StopInv, Going
  <2> QED
    BY <1>4, <2>2, <2>3
<1>5. ASSUME NEW s \in Stopper,
             StopFound(s) \/ StopMissing(s) \/ StopReturns(s) \/ Awaited(s)
      PROVE  StopInv'
  <2>1. /\ Going(s)
        /\ stop'[s].item = stop[s].item /\ stop'[s].detached = stop[s].detached
        /\ \A u \in Stopper \ {s} : stop'[u] = stop[u]
    <3>1. Going(s)
      BY <1>5 DEF StopFound, StopMissing, StopReturns, Awaited, InLoop, Going
    <3>2. \/ \E c, n, t : stop' = [stop EXCEPT ![s].pc = c, ![s].cur = t, ![s].next = n]
          \/ \E c, t : stop' = [stop EXCEPT ![s].pc = c, ![s].cur = t]
          \/ \E c : stop' = [stop EXCEPT ![s].pc = c]
      BY <1>5 DEF StopFound, StopMissing, StopReturns, Awaited
    <3>3. ASSUME NEW c, NEW n, NEW t,
                 \/ stop' = [stop EXCEPT ![s].pc = c, ![s].cur = t, ![s].next = n]
                 \/ stop' = [stop EXCEPT ![s].pc = c, ![s].cur = t]
                 \/ stop' = [stop EXCEPT ![s].pc = c]
          PROVE  /\ stop'[s].item = stop[s].item /\ stop'[s].detached = stop[s].detached
                 /\ \A u \in Stopper \ {s} : stop'[u] = stop[u]
      BY <1>0, <3>3 DEF Stops
    <3> QED
      BY <3>1, <3>2, <3>3
  <2> QED
    BY <2>1 DEF StopInv, Going
<1>6. CASE UNCHANGED vars
  BY <1>6 DEF vars, StopInv, Going
<1> QED
  BY <1>1, <1>2, <1>3, <1>4, <1>5, <1>6 DEF Next

\* What is left in a list moves down by at most one position, and t is gone.
LEMMA CleanupShift ==
  ASSUME TypeOK, ListInv, NEW t \in Task, Cleanup(t)
  PROVE  \A i \in Item : \A k \in 1..Len(itemTasks'[i]) :
           /\ itemTasks'[i][k] # t
           /\ \E m \in 1..Len(itemTasks[i]) : m >= k /\ itemTasks'[i][k] = itemTasks[i][m]
<1>1. ASSUME NEW i \in Item, NEW k \in 1..Len(itemTasks'[i])
      PROVE  /\ itemTasks'[i][k] # t
             /\ \E m \in 1..Len(itemTasks[i]) : m >= k /\ itemTasks'[i][k] = itemTasks[i][m]
  <2>1. CASE i = ItemOf[t]
    <3> DEFINE q == itemTasks[i]
               r == itemTasks'[i]
    <3>0. r = RemoveFirst(q, t) /\ q \in Seq(Task) /\ IsInjective(q)
      BY <2>1, CleanupLists DEF TypeOK
    <3>1. k \in 1..Len(r)
      OBVIOUS
    <3> HIDE DEF q, r
    <3>2. /\ r[k] # t
          /\ \/ r = q
             \/ \E p \in 1..Len(q) :
                  /\ Len(r) = Len(q) - 1
                  /\ \A m \in 1..Len(q) - 1 :
                       r[m] = IF m < p THEN q[m] ELSE q[m + 1]
      <4>1. Without(r, q, t)
        BY ONLY <3>0, RemovedShape
      <4> QED
        BY ONLY <3>1, <4>1 DEF Without
    <3>3. Len(q) \in Nat
      BY <3>0
    <3>4. \E m \in 1..Len(q) : m >= k /\ r[k] = q[m]
      <4>1. CASE r = q
        BY <3>1, <3>3, <4>1
      <4>2. ASSUME NEW p \in 1..Len(q), Len(r) = Len(q) - 1,
                   \A m \in 1..Len(q) - 1 : r[m] = IF m < p THEN q[m] ELSE q[m + 1]
            PROVE  \E m \in 1..Len(q) : m >= k /\ r[k] = q[m]
        <5>1. CASE k < p
          BY <3>1, <4>2, <3>3, <5>1
        <5>2. CASE ~(k < p)
          <6>1. k + 1 \in 1..Len(q) /\ k + 1 >= k /\ r[k] = q[k + 1]
            BY <3>1, <4>2, <3>3, <5>2
          <6> QED
            BY <6>1
        <5> QED
          BY <5>1, <5>2
      <4> QED
        BY <3>2, <4>1, <4>2
    <3> QED
      BY <3>2, <3>4 DEF q, r
  <2>2. CASE i # ItemOf[t]
    <3>1. itemTasks'[i] = itemTasks[i]
      BY <2>2, CleanupLists
    <3>2. ItemOf[itemTasks[i][k]] = i
      BY <3>1 DEF ListInv
    <3>3. k \in 1..Len(itemTasks[i]) /\ k >= k
      BY <3>1
    <3> QED
      BY <3>1, <3>2, <3>3, <2>2
  <2> QED
    BY <2>1, <2>2
<1> QED
  BY <1>1

\* Types and lists are kept together: that a list stays free of repetitions
\* rests on a task being created once.
LEMMA ListStep ==
  ASSUME TypeOK, ListInv, StopInv, [Next]_vars
  PROVE  TypeOK' /\ ListInv'
<1>1. ASSUME NEW t \in Task, Create(t)
      PROVE  TypeOK' /\ ListInv'
  <2> DEFINE i == ItemOf[t]
             q == itemTasks[i]
             n == Append(q, t)
  <2>1. i \in Item /\ q \in Seq(Task) /\ IsInjective(q)
    BY ConstantsAssumption DEF TypeOK
  <2>2. \A k \in 1..Len(q) : q[k] # t
    BY <1>1, <2>1 DEF ListInv, Create
  <2>3. /\ n \in Seq(Task) /\ Len(n) = Len(q) + 1
        /\ n[Len(q) + 1] = t
        /\ \A k \in 1..Len(q) : n[k] = q[k]
    BY <2>1
  <2>4. itemTasks' = [itemTasks EXCEPT ![i] = n]
    BY <1>1 DEF Create
  <2>5. /\ stage' = [stage EXCEPT ![t] = "running"]
        /\ stage[t] = "idle"
        /\ tasks' = tasks \cup {t}
        /\ raised' = raised /\ stop' = stop /\ popper' = popper
    BY <1>1 DEF Create
  <2> HIDE DEF n, q
  <2>6. \A a, b \in 1..Len(n) : n[a] = n[b] => a = b
    <3>1. \A a, b \in 1..Len(q) : q[a] = q[b] => a = b
      BY <2>1 DEF IsInjective
    <3> QED
      BY <2>1, <2>2, <2>3, <3>1
  <2>7. IsInjective(n)
    BY <2>3, <2>6 DEF IsInjective
  <2>8. TypeOK'
    BY <2>1, <2>3, <2>4, <2>5, <2>7 DEF TypeOK, Stage
  <2>9. ListInv'
    <3>1. ASSUME NEW j \in Item, NEW k \in 1..Len(itemTasks'[j])
          PROVE  /\ ItemOf[itemTasks'[j][k]] = j
                 /\ stage'[itemTasks'[j][k]] \in {"running", "cancelling", "ended"}
                 /\ itemTasks'[j][k] \notin tasks' =>
                      stage'[itemTasks'[j][k]] \in {"cancelling", "ended"}
      <4>1. CASE j = i
        <5>1. itemTasks'[j] = n
          BY <4>1, <2>1, <2>4 DEF TypeOK
        <5>2. CASE k = Len(q) + 1
          BY <5>1, <5>2, <2>3, <2>5, <4>1 DEF TypeOK
        <5>3. CASE k \in 1..Len(q)
          BY <5>1, <5>3, <2>1, <2>2, <2>3, <2>5, <4>1 DEF TypeOK, ListInv, q
        <5> QED
          BY <5>1, <5>2, <5>3, <2>1, <2>3
      <4>2. CASE j # i
        <5>1. itemTasks'[j] = itemTasks[j]
          BY <4>2, <2>1, <2>4 DEF TypeOK
        <5>2. itemTasks[j][k] \in Task /\ stage[itemTasks[j][k]] # "idle"
          BY <5>1 DEF TypeOK, ListInv
        <5> QED
          BY <5>1, <5>2, <2>5 DEF TypeOK, ListInv
      <4> QED
        BY <4>1, <4>2
    <3>2. ASSUME NEW u \in tasks'
          PROVE  /\ stage'[u] \in {"running", "ended"}
                 /\ \E k \in 1..Len(itemTasks'[ItemOf[u]]) : itemTasks'[ItemOf[u]][k] = u
      <4>1. CASE u = t
        <5>1. stage'[t] = "running"
          BY <2>5 DEF TypeOK
        <5>2. itemTasks'[ItemOf[t]] = n
          BY <2>1, <2>4 DEF TypeOK
        <5>3. Len(q) + 1 \in 1..Len(n)
          BY <2>1, <2>3
        <5> HIDE DEF n, q
        <5> QED
          BY <4>1, <5>1, <5>2, <5>3, <2>3
      <4>2. CASE u # t
        <5>1. u \in tasks /\ u \in Task
          BY <4>2, <2>5 DEF TypeOK
        <5>2. PICK k \in 1..Len(itemTasks[ItemOf[u]]) : itemTasks[ItemOf[u]][k] = u
          BY <5>1 DEF ListInv
        <5>3. ItemOf[u] \in Item
          BY <5>1, ConstantsAssumption
        <5>4. k \in 1..Len(itemTasks'[ItemOf[u]]) /\ itemTasks'[ItemOf[u]][k] = u
          BY <5>2, <5>3, <2>1, <2>3, <2>4 DEF TypeOK, q
        <5>5. stage'[u] \in {"running", "ended"}
          BY <5>1, <4>2, <2>5 DEF TypeOK, ListInv
        <5> QED
          BY <5>4, <5>5
      <4> QED
        BY <4>1, <4>2
    <3> QED
      BY <3>1, <3>2 DEF ListInv
  <2> QED
    BY <2>8, <2>9
\* The two cleanups take t out of its list, whatever its stage becomes.
<1>2. ASSUME NEW t \in Task, Cleanup(t), NEW w \in {"tail", "cleaned"},
             stage' = [stage EXCEPT ![t] = w], raised' = raised, popper' = popper
      PROVE  TypeOK' /\ ListInv'
  <2>1. TypeOK'
    BY <1>2, CleanupLists, CleanupStop DEF TypeOK, Stage
  <2>2. ItemOf[t] \in Item /\ itemTasks[ItemOf[t]] \in Seq(Task) /\ IsInjective(itemTasks[ItemOf[t]])
    BY ConstantsAssumption DEF TypeOK
  <2>3. \A i \in Item : \A k \in 1..Len(itemTasks'[i]) :
          /\ itemTasks'[i][k] # t
          /\ \E m \in 1..Len(itemTasks[i]) : itemTasks'[i][k] = itemTasks[i][m]
    BY <1>2, CleanupShift
  <2>4. \A u \in tasks' : u \in tasks /\ u # t /\ u \in Task /\ stage'[u] = stage[u]
    BY <1>2, CleanupLists DEF TypeOK
  <2>5. \A u \in tasks' : \E k \in 1..Len(itemTasks'[ItemOf[u]]) :
          itemTasks'[ItemOf[u]][k] = u
    <3>1. ASSUME NEW u \in tasks'
          PROVE  \E k \in 1..Len(itemTasks'[ItemOf[u]]) : itemTasks'[ItemOf[u]][k] = u
      <4>1. PICK m \in 1..Len(itemTasks[ItemOf[u]]) : itemTasks[ItemOf[u]][m] = u
        BY <2>4 DEF ListInv
      <4>2. CASE ItemOf[u] = ItemOf[t]
        <5> DEFINE q == itemTasks[ItemOf[t]]
                   r == itemTasks'[ItemOf[t]]
        <5>0. r = RemoveFirst(q, t) /\ q \in Seq(Task) /\ IsInjective(q)
          BY <1>2, <2>2, CleanupLists
        <5>2. Len(q) \in Nat /\ m \in 1..Len(q) /\ q[m] = u /\ u # t
          BY <4>1, <4>2, <2>2, <2>4
        <5> HIDE DEF q, r
        <5>a. \/ RemoveFirst(q, t) = q
              \/ \E p \in 1..Len(q) :
                   /\ q[p] = t /\ Len(RemoveFirst(q, t)) = Len(q) - 1
                   /\ \A k \in 1..Len(q) - 1 :
                        RemoveFirst(q, t)[k] = IF k < p THEN q[k] ELSE q[k + 1]
          BY <5>0, Removed, Z3
        <5>1. \/ r = q
              \/ \E p \in 1..Len(q) :
                   /\ q[p] = t /\ Len(r) = Len(q) - 1
                   /\ \A k \in 1..Len(q) - 1 :
                        r[k] = IF k < p THEN q[k] ELSE q[k + 1]
          BY <5>0, <5>a, Zenon
        <5>3. \E k \in 1..Len(r) : r[k] = u
          <6>1. ASSUME NEW p \in 1..Len(q), q[p] = t, Len(r) = Len(q) - 1,
                       \A k \in 1..Len(q) - 1 : r[k] = IF k < p THEN q[k] ELSE q[k + 1]
                PROVE  \E k \in 1..Len(r) : r[k] = u
            <7>1. CASE m < p
              BY <6>1, <5>2, <7>1
            <7>2. CASE m > p
              <8>1. m - 1 \in 1..Len(q) - 1 /\ ~(m - 1 < p) /\ (m - 1) + 1 = m
                BY <6>1, <5>2, <7>2
              <8> QED
                BY <6>1, <5>2, <8>1
            <7> QED
              BY <6>1, <5>2, <7>1, <7>2
          <6> QED
            BY <5>1, <5>2, <6>1
        <5> QED
          BY <5>3, <4>2 DEF r
      <4>3. CASE ItemOf[u] # ItemOf[t]
        BY <4>1, <4>3, <2>4, <1>2, CleanupLists, ConstantsAssumption
      <4> QED
        BY <4>2, <4>3
    <3> QED
      BY <3>1
  <2>6. ASSUME NEW i \in Item, NEW k \in 1..Len(itemTasks'[i])
        PROVE  /\ ItemOf[itemTasks'[i][k]] = i
               /\ stage'[itemTasks'[i][k]] \in {"running", "cancelling", "ended"}
               /\ itemTasks'[i][k] \notin tasks' =>
                    stage'[itemTasks'[i][k]] \in {"cancelling", "ended"}
    <3>1. PICK m \in 1..Len(itemTasks[i]) : itemTasks'[i][k] = itemTasks[i][m]
      BY <2>3
    <3>2. itemTasks'[i][k] # t /\ itemTasks[i][m] \in Task
      BY <2>3 DEF TypeOK
    <3>3. tasks' = tasks \ {t}
      BY <1>2, CleanupLists
    <3> QED
      BY <3>1, <3>2, <3>3, <1>2 DEF TypeOK, ListInv
  <2>7. ListInv'
    BY <2>4, <2>5, <2>6 DEF ListInv
  <2> QED
    BY <2>1, <2>7
<1>3. ASSUME NEW t \in Task, SelfCleanup(t)
      PROVE  TypeOK' /\ ListInv'
  BY <1>2, <1>3 DEF SelfCleanup
<1>4. ASSUME NEW t \in Task, Callback(t)
      PROVE  TypeOK' /\ ListInv'
  BY <1>2, <1>4 DEF Callback
<1>5. ASSUME NEW t \in Task, Finish(t) \/ Raise(t)
      PROVE  TypeOK' /\ ListInv'
  <2>1. /\ stage' = [stage EXCEPT ![t] = "ended"]
        /\ raised' \subseteq Task
        /\ tasks' = tasks /\ itemTasks' = itemTasks /\ stop' = stop
        /\ popper' = popper
    BY <1>5 DEF Finish, Raise, TypeOK
  <2>2. TypeOK'
    BY <2>1 DEF TypeOK, Stage
  <2>3. \A u \in Task : stage'[u] = stage[u] \/ stage'[u] = "ended"
    BY <2>1 DEF TypeOK
  <2>4. \A i \in Item : \A k \in 1..Len(itemTasks[i]) : itemTasks[i][k] \in Task
    BY DEF TypeOK
  <2>5. ListInv'
    BY <2>1, <2>3, <2>4 DEF ListInv, TypeOK
  <2> QED
    BY <2>2, <2>5
<1>6. ASSUME NEW s \in Stopper, NEW i \in Item, StopItemTasks(s, i)
      PROVE  TypeOK' /\ ListInv'
  <2> DEFINE new == [NoStop EXCEPT !.pc = "loop", !.item = i, !.asked = ToSet(itemTasks[i])]
  <2>0. ToSet(itemTasks[i]) \subseteq Task
    BY DEF TypeOK, ToSet
  <2>1. new \in Stops
    <3>1. NoStop \in Stops
      BY DEF NoStop, Stops, StopPc
    <3>2. PICK z \in Stops : z = NoStop
      BY <3>1
    <3>3. [z EXCEPT !.pc = "loop", !.item = i, !.asked = ToSet(itemTasks[i])] \in Stops
      BY <2>0 DEF Stops, StopPc
    <3> QED
      BY <3>2, <3>3
  <2>2. /\ stop' = [stop EXCEPT ![s] = new]
        /\ UNCHANGED <<stage, raised, tasks, itemTasks, popper>>
    BY <1>6 DEF StopItemTasks
  <2> HIDE DEF new
  <2> QED
    BY <2>1, <2>2 DEF TypeOK, ListInv
\* A request pops a task, on the way through a list or by its id.
<1>7. ASSUME NEW s \in Stopper, NEW t \in tasks, PopAndCancel(s, t),
             NEW new \in Stops, stop' = [stop EXCEPT ![s] = new]
      PROVE  TypeOK' /\ ListInv'
  <2>1. t \in Task
    BY DEF TypeOK
  <2>2. /\ tasks' = tasks \ {t}
        /\ stage' = [stage EXCEPT ![t] = IF @ = "running" THEN "cancelling" ELSE @]
        /\ popper' = [popper EXCEPT ![t] = @ \cup {s}]
        /\ raised' = raised /\ itemTasks' = itemTasks
    BY <1>7 DEF PopAndCancel
  <2>3. popper' \in [Task -> SUBSET Stopper]
    BY <2>1, <2>2 DEF TypeOK
  <2>4. stop' \in [Stopper -> Stops]
    BY <1>7 DEF TypeOK
  <2>5. TypeOK'
    BY <2>1, <2>2, <2>3, <2>4 DEF TypeOK, Stage
  <2>6. stage[t] \in {"running", "ended"}
    BY DEF ListInv
  <2>7. \A u \in Task : stage'[u] = IF u = t /\ stage[u] = "running" THEN "cancelling" ELSE stage[u]
    BY <2>2 DEF TypeOK
  <2>8. \A i \in Item : \A k \in 1..Len(itemTasks[i]) : itemTasks[i][k] \in Task
    BY DEF TypeOK
  <2>9. ListInv'
    BY <2>1, <2>2, <2>6, <2>7, <2>8 DEF ListInv, TypeOK
  <2> QED
    BY <2>5, <2>9
<1>7a. ASSUME NEW s \in Stopper, StopFound(s)
       PROVE  TypeOK' /\ ListInv'
  <2> DEFINE t == Current(s)
             new == [stop[s] EXCEPT !.pc = AwaitPc(t), !.cur = t, !.next = @ + 1]
  <2>1. t \in tasks /\ t \in Task /\ PopAndCancel(s, t)
    BY <1>7a DEF StopFound, TypeOK
  <2>2. stop' = [stop EXCEPT ![s] = new]
    BY <1>7a DEF StopFound, TypeOK
  <2>3. AwaitPc(t) \in StopPc
    BY DEF AwaitPc, StopPc
  <2> HIDE DEF t
  <2>4. new \in Stops
    <3>1. stop[s] \in Stops
      BY DEF TypeOK
    <3>2. PICK c \in StopPc : c = AwaitPc(t)
      BY <2>3
    <3>3. stop[s].next + 1 \in Nat \ {0}
      BY <3>1 DEF Stops
    <3> QED
      BY <2>1, <3>1, <3>2, <3>3 DEF Stops
  <2> HIDE DEF new
  <2> QED
    BY <1>7, <2>1, <2>2, <2>4
<1>7b. ASSUME NEW s \in Stopper, NEW t \in Task, StopTask(s, t)
       PROVE  TypeOK' /\ ListInv'
  <2>1. PICK c \in StopPc : c = AwaitPc(t)
    BY DEF AwaitPc, StopPc
  <2> DEFINE new == [NoStop EXCEPT !.pc = c, !.cur = t, !.next = 2, !.detached = TRUE,
                                   !.asked = {t}]
  <2>2. new \in Stops
    <3>1. NoStop \in Stops
      BY DEF NoStop, Stops, StopPc
    <3>2. PICK z \in Stops : z = NoStop
      BY <3>1
    <3>3. PICK y \in Stops : y = [z EXCEPT !.pc = c, !.cur = t]
      BY DEF Stops
    <3>4. PICK x \in Stops : x = [y EXCEPT !.next = 2]
      <4>1. [y EXCEPT !.next = 2] \in Stops
        BY DEF Stops
      <4> QED
        BY <4>1
    <3>5. [x EXCEPT !.detached = TRUE, !.asked = {t}] \in Stops
      BY DEF Stops
    <3> QED
      BY <3>2, <3>3, <3>4, <3>5, Zenon
  <2>4. t \in tasks /\ PopAndCancel(s, t) /\ stop' = [stop EXCEPT ![s] = new]
    BY <1>7b, <2>1 DEF StopTask
  <2> HIDE DEF new
  <2> QED
    BY <1>7, <2>2, <2>4
<1>7c. ASSUME NEW s \in Stopper, NEW t \in Task, StopTaskMissing(s, t)
       PROVE  TypeOK' /\ ListInv'
  <2> DEFINE new == [NoStop EXCEPT !.pc = "failed", !.cur = t]
  <2>1. new \in Stops
    <3>1. NoStop \in Stops
      BY DEF NoStop, Stops, StopPc
    <3>2. PICK z \in Stops : z = NoStop
      BY <3>1
    <3>3. [z EXCEPT !.pc = "failed", !.cur = t] \in Stops
      BY DEF Stops, StopPc
    <3> QED
      BY <3>2, <3>3
  <2>3. /\ stop' = [stop EXCEPT ![s] = new]
        /\ UNCHANGED <<stage, raised, tasks, itemTasks, popper>>
    BY <1>7c DEF StopTaskMissing
  <2> HIDE DEF new
  <2> QED
    BY <2>1, <2>3 DEF TypeOK, ListInv
<1>8. ASSUME NEW s \in Stopper, StopReturns(s) \/ Awaited(s)
      PROVE  TypeOK' /\ ListInv'
  <2>1. PICK c \in StopPc : /\ stop' = [stop EXCEPT ![s].pc = c]
                            /\ UNCHANGED <<stage, raised, tasks, itemTasks, popper>>
    BY <1>8 DEF StopReturns, Awaited, AwaitPc, StopPc
  <2>2. [stop[s] EXCEPT !.pc = c] \in Stops
    BY DEF TypeOK, Stops
  <2> QED
    BY <2>1, <2>2 DEF TypeOK, ListInv
<1>8a. ASSUME NEW s \in Stopper, StopMissing(s)
       PROVE  TypeOK' /\ ListInv'
  <2> DEFINE t == Current(s)
             new == [stop[s] EXCEPT !.pc = "failed", !.cur = t]
  <2>1. t \in Task
    <3>1. /\ stop[s].pc = "loop" /\ stop[s].next <= Len(LoopList(s))
          /\ stop[s].next \in Nat \ {0}
      BY <1>8a DEF StopMissing, InLoop, TypeOK, Stops
    <3>2. ~stop[s].detached
      BY <3>1 DEF LoopList
    <3>3. stop[s].item \in Item
      BY <3>1, <3>2 DEF StopInv, Going
    <3>4. itemTasks[stop[s].item] \in Seq(Task)
      BY <3>3 DEF TypeOK
    <3> QED
      BY <3>1, <3>2, <3>4 DEF LoopList, Current
  <2>2. /\ stop' = [stop EXCEPT ![s] = new]
        /\ UNCHANGED <<stage, raised, tasks, itemTasks, popper>>
    BY <1>8a DEF StopMissing, TypeOK
  <2> HIDE DEF t
  <2>3. new \in Stops
    <3>1. PICK z \in Stops : z = stop[s]
      BY DEF TypeOK
    <3>2. [z EXCEPT !.pc = "failed", !.cur = t] \in Stops
      BY <2>1 DEF Stops, StopPc
    <3> QED
      BY <3>1, <3>2
  <2> HIDE DEF new
  <2> QED
    BY <2>2, <2>3 DEF TypeOK, ListInv
<1>9. CASE UNCHANGED vars
  BY <1>9 DEF vars, TypeOK, ListInv
<1> QED
  BY <1>1, <1>3, <1>4, <1>5, <1>6, <1>7a, <1>7b, <1>7c, <1>8, <1>8a, <1>9 DEF Next

LEMMA ListStart == Init => TypeOK /\ ListInv /\ StopInv
<1> SUFFICES ASSUME Init
             PROVE  TypeOK /\ ListInv /\ StopInv
  OBVIOUS
<1>0. StopInv
  BY DEF Init, NoStop, StopInv, Going
<1>1. NoStop \in Stops
  BY DEF NoStop, Stops, StopPc
<1>2. <<>> \in Seq(Task) /\ Len(<<>>) = 0 /\ IsInjective(<<>>)
  BY DEF IsInjective
<1> QED
  BY <1>0, <1>1, <1>2 DEF Init, TypeOK, ListInv, Stage

LEMMA ListInvariant == Spec => [](TypeOK /\ ListInv /\ StopInv)
<1> QED
  BY ListStart, ListStep, StopStep, PTL DEF Spec

\* Every variable of the registry without Redis keeps its type, for every
\* number of tasks, items and requests; no task is listed twice.
THEOREM TypeCorrect == Spec => []TypeOK
<1> QED
  BY ListInvariant, PTL

\* The list of an item and the dictionary agree, but for tasks that a request
\* has popped and whose cleanup is still to come.
THEOREM ListsAgree == Spec => []ListMatchesTasks
<1>1. Spec => [](TypeOK /\ ListInv /\ StopInv)
  BY ListInvariant
<1>2. TypeOK /\ ListInv => ListMatchesTasks
  <2> SUFFICES ASSUME TypeOK, ListInv
               PROVE  ListMatchesTasks
    OBVIOUS
  <2>1. \A i \in Item : ToSet(itemTasks[i]) = {itemTasks[i][k] : k \in 1..Len(itemTasks[i])}
    BY DEF TypeOK, ToSet
  <2>2. \A t \in tasks : ItemOf[t] \in Item
    BY ConstantsAssumption DEF TypeOK
  <2>3. \A t \in tasks : t \in ToSet(itemTasks[ItemOf[t]])
    <3>1. ASSUME NEW t \in tasks
          PROVE  t \in ToSet(itemTasks[ItemOf[t]])
      <4>1. PICK k \in 1..Len(itemTasks[ItemOf[t]]) : itemTasks[ItemOf[t]][k] = t
        BY DEF ListInv
      <4> QED
        BY <4>1, <2>1, <2>2
    <3> QED
      BY <3>1
  <2>4. \A i \in Item : \A t \in ToSet(itemTasks[i]) \ tasks :
          stage[t] \in {"cancelling", "ended"}
    BY <2>1 DEF ListInv
  <2> QED
    BY <2>3, <2>4 DEF ListMatchesTasks
<1> QED
  BY <1>1, <1>2, PTL

-----------------------------------------------------------------------------
(* Failures *)

LEMMA PoppedStep ==
  ASSUME TypeOK, ListInv, StopInv, PoppedInv, [Next]_vars
  PROVE  PoppedInv'
<1>0. /\ ListedPopped
      /\ stop \in [Stopper -> Stops] /\ popper \in [Task -> SUBSET Stopper]
      /\ \A s \in Stopper : /\ stop[s].next \in Nat \ {0}
                            /\ PoppedAt(s)
                            /\ Going(s) /\ ~stop[s].detached => stop[s].item \in Item
  BY DEF TypeOK, Stops, StopInv, PoppedInv
\* The lists change, the requests do not, and whatever is listed and popped
\* was so before, no further on in the list.
<1>1. ASSUME popper' = popper,
             \A s \in Stopper :
               /\ stop'[s].pc = stop[s].pc /\ stop'[s].item = stop[s].item
               /\ stop'[s].next = stop[s].next /\ stop'[s].cur = stop[s].cur
               /\ stop[s].detached => stop'[s].detached,
             \A i \in Item : \A k \in 1..Len(itemTasks'[i]) : itemTasks'[i][k] \notin tasks' =>
               \E m \in 1..Len(itemTasks[i]) :
                  m >= k /\ itemTasks[i][m] = itemTasks'[i][k] /\ itemTasks[i][m] \notin tasks
      PROVE  PoppedInv'
  <2>1. ListedPopped'
    BY <1>0, <1>1 DEF ListedPopped
  <2>2. ASSUME NEW s \in Stopper
        PROVE  PoppedAt(s)'
    <3>1. \A t : Other(popper', s, t) = Other(popper, s, t)
      BY <1>1 DEF Other
    <3>2. Going(s)' = Going(s)
      BY <1>1 DEF Going
    <3>3. ASSUME Going(s)', ~stop'[s].detached,
                 NEW k \in stop'[s].next..Len(itemTasks'[stop'[s].item]),
                 itemTasks'[stop'[s].item][k] \notin tasks'
          PROVE  Other(popper', s, itemTasks'[stop'[s].item][k])
      <4>1. Going(s) /\ ~stop[s].detached /\ stop[s].item \in Item /\ stop[s].next \in Nat \ {0}
        BY <1>0, <1>1, <3>2, <3>3
      <4>2. /\ k \in stop[s].next..Len(itemTasks'[stop[s].item])
            /\ k \in 1..Len(itemTasks'[stop[s].item])
            /\ itemTasks'[stop[s].item][k] \notin tasks'
        BY <1>1, <3>3, <4>1
      <4>3. PICK m \in 1..Len(itemTasks[stop[s].item]) :
              /\ m >= k /\ itemTasks[stop[s].item][m] = itemTasks'[stop[s].item][k]
              /\ itemTasks[stop[s].item][m] \notin tasks
        BY <1>1, <4>1, <4>2
      <4>4. m \in stop[s].next..Len(itemTasks[stop[s].item])
        BY <4>1, <4>2, <4>3
      <4>5. Other(popper, s, itemTasks[stop[s].item][m])
        BY <1>0, <4>1, <4>3, <4>4 DEF PoppedAt
      <4> QED
        BY <1>1, <3>1, <4>3, <4>5
    <3>4. stop'[s].pc = "idle" => \A t \in Task : s \notin popper'[t]
      BY <1>0, <1>1 DEF PoppedAt
    <3>5. stop'[s].pc = "failed" /\ stop'[s].item \in Item =>
            stop'[s].cur \in Task /\ Other(popper', s, stop'[s].cur)
      BY <1>0, <1>1, <3>1 DEF PoppedAt
    <3> QED
      BY <3>3, <3>4, <3>5 DEF PoppedAt
  <2> QED
    BY <2>1, <2>2 DEF PoppedInv
<1>2. ASSUME NEW t \in Task, Create(t)
      PROVE  PoppedInv'
  <2>1. /\ ItemOf[t] \in Item
        /\ itemTasks' = [itemTasks EXCEPT ![ItemOf[t]] = Append(@, t)]
        /\ tasks' = tasks \cup {t} /\ stop' = stop /\ popper' = popper
    BY <1>2, ConstantsAssumption DEF Create
  <2>2. ASSUME NEW i \in Item, NEW k \in 1..Len(itemTasks'[i]), itemTasks'[i][k] \notin tasks'
        PROVE  /\ k \in 1..Len(itemTasks[i]) /\ k >= k
               /\ itemTasks[i][k] = itemTasks'[i][k] /\ itemTasks[i][k] \notin tasks
    <3> DEFINE q == itemTasks[i]
    <3>1. q \in Seq(Task) /\ Len(q) \in Nat
      BY DEF TypeOK
    <3>2. CASE i = ItemOf[t]
      <4>1. itemTasks'[i] = Append(q, t)
        BY <2>1, <3>2 DEF TypeOK
      <4> HIDE DEF q
      <4>2. k \in 1..Len(q) + 1 /\ Append(q, t)[k] # t /\ Append(q, t)[k] \notin tasks
        BY <4>1, <3>1, <2>1, <2>2
      <4>3. k # Len(q) + 1
        BY <4>2, <3>1
      <4>4. k \in 1..Len(q) /\ q[k] \notin tasks /\ q[k] = Append(q, t)[k]
        BY <4>2, <4>3, <3>1
      <4> QED
        BY <4>1, <4>4 DEF q
    <3>3. CASE i # ItemOf[t]
      BY <2>1, <2>2, <3>3 DEF TypeOK
    <3> QED
      BY <3>2, <3>3
  <2> QED
    BY <1>1, <2>1, <2>2
<1>3. ASSUME NEW t \in Task, SelfCleanup(t) \/ Callback(t)
      PROVE  PoppedInv'
  <2>0. Cleanup(t) /\ popper' = popper
    BY <1>3 DEF SelfCleanup, Callback
  <2>1. \A s \in Stopper :
          /\ stop'[s].pc = stop[s].pc /\ stop'[s].item = stop[s].item
          /\ stop'[s].next = stop[s].next /\ stop'[s].cur = stop[s].cur
          /\ stop[s].detached => stop'[s].detached
    BY <2>0, CleanupStop
  <2>2. ASSUME NEW i \in Item, NEW k \in 1..Len(itemTasks'[i]), itemTasks'[i][k] \notin tasks'
        PROVE  \E m \in 1..Len(itemTasks[i]) :
                 m >= k /\ itemTasks[i][m] = itemTasks'[i][k] /\ itemTasks[i][m] \notin tasks
    BY <2>0, <2>2, CleanupLists, CleanupShift
  <2> QED
    BY <1>1, <2>0, <2>1, <2>2
<1>4. ASSUME NEW t \in Task, Finish(t) \/ Raise(t)
      PROVE  PoppedInv'
  BY <1>4 DEF Finish, Raise, PoppedInv, PoppedAt, ListedPopped, Going, Other
\* A step of one request that pops nothing.
<1>5. ASSUME NEW s \in Stopper, tasks' = tasks, itemTasks' = itemTasks, popper' = popper,
             \A u \in Stopper \ {s} : stop'[u] = stop[u],
             PoppedAt(s)'
      PROVE  PoppedInv'
  <2>1. ListedPopped'
    BY <1>0, <1>5 DEF ListedPopped
  <2>2. \A u \in Stopper \ {s} : PoppedAt(u)'
    BY <1>0, <1>5 DEF PoppedAt, Going, Other
  <2> QED
    BY <1>5, <2>1, <2>2 DEF PoppedInv
<1>6. ASSUME NEW s \in Stopper, NEW i \in Item, StopItemTasks(s, i)
      PROVE  PoppedInv'
  <2> DEFINE new == [NoStop EXCEPT !.pc = "loop", !.item = i, !.asked = ToSet(itemTasks[i])]
  <2>1. new.pc = "loop" /\ new.item = i /\ new.next = 1
    BY DEF NoStop
  <2>2. /\ stop' = [stop EXCEPT ![s] = new] /\ stop[s].pc = "idle"
        /\ tasks' = tasks /\ itemTasks' = itemTasks /\ popper' = popper
    BY <1>6 DEF StopItemTasks
  <2> HIDE DEF new
  <2>3. /\ stop'[s].pc = "loop" /\ stop'[s].item = i /\ stop'[s].next = 1
        /\ \A u \in Stopper \ {s} : stop'[u] = stop[u]
    BY <1>0, <2>1, <2>2
  <2>4. ASSUME NEW k \in 1..Len(itemTasks[i]), itemTasks[i][k] \notin tasks
        PROVE  Other(popper, s, itemTasks[i][k])
    <3>1. itemTasks[i][k] \in Task
      BY DEF TypeOK
    <3>2. s \notin popper[itemTasks[i][k]]
      BY <1>0, <2>2, <3>1 DEF PoppedAt
    <3> QED
      BY <1>0, <2>4, <3>2 DEF ListedPopped, Other
  <2>5. PoppedAt(s)'
    BY <2>2, <2>3, <2>4 DEF PoppedAt, Other
  <2> QED
    BY <1>5, <2>2, <2>3, <2>5
\* The request that pops a task becomes another one to all others.
<1>7. ASSUME NEW s \in Stopper, NEW t \in Task, PopAndCancel(s, t),
             \A u \in Stopper \ {s} : stop'[u] = stop[u],
             PoppedAt(s)'
      PROVE  PoppedInv'
  <2>1. /\ tasks' = tasks \ {t} /\ itemTasks' = itemTasks
        /\ \A v \in Task : popper'[v] = popper[v] \cup (IF v = t THEN {s} ELSE {})
    BY <1>0, <1>7 DEF PopAndCancel
  <2>2. \A i \in Item : \A k \in 1..Len(itemTasks[i]) : itemTasks[i][k] \in Task
    BY DEF TypeOK
  <2>3. ListedPopped'
    BY <1>0, <2>1, <2>2 DEF ListedPopped
  <2>4. ASSUME NEW u \in Stopper \ {s}
        PROVE  PoppedAt(u)'
    <3>1. \A v \in Task : Other(popper, u, v) \/ v = t => Other(popper', u, v)
      BY <1>0, <2>1 DEF Other
    <3>2. /\ stop'[u] = stop[u] /\ Going(u)' = Going(u)
          /\ PoppedAt(u) /\ stop[u].next \in Nat \ {0}
          /\ Going(u) /\ ~stop[u].detached => stop[u].item \in Item
      BY <1>0, <1>7 DEF Going
    <3>3. stop'[u].pc = "idle" => \A v \in Task : u \notin popper'[v]
      BY <2>1, <3>2 DEF PoppedAt
    <3>4. ASSUME Going(u), ~stop[u].detached,
                 NEW k \in stop[u].next..Len(itemTasks[stop[u].item]),
                 itemTasks[stop[u].item][k] \notin tasks'
          PROVE  Other(popper', u, itemTasks[stop[u].item][k])
      <4>1. k \in 1..Len(itemTasks[stop[u].item]) /\ itemTasks[stop[u].item][k] \in Task
        BY <2>2, <3>2, <3>4
      <4> QED
        BY <2>1, <3>1, <3>2, <3>4, <4>1 DEF PoppedAt
    <3>5. stop'[u].pc = "failed" /\ stop'[u].item \in Item =>
            stop'[u].cur \in Task /\ Other(popper', u, stop'[u].cur)
      BY <3>1, <3>2 DEF PoppedAt
    <3> QED
      BY <2>1, <3>2, <3>3, <3>4, <3>5 DEF PoppedAt
  <2> QED
    BY <1>7, <2>3, <2>4 DEF PoppedInv
<1>8. ASSUME NEW s \in Stopper, StopFound(s)
      PROVE  PoppedInv'
  <2> DEFINE t == Current(s)
             q == itemTasks[stop[s].item]
             n == stop[s].next
  <2>1. /\ stop[s].pc = "loop" /\ ~stop[s].detached /\ n \in 1..Len(q)
        /\ t = q[n] /\ stop[s].item \in Item /\ t \in Task
    <3>1. stop[s].pc = "loop" /\ n <= Len(LoopList(s)) /\ n \in Nat \ {0} /\ t \in Task
      BY <1>8 DEF StopFound, InLoop, TypeOK, Stops
    <3>2. ~stop[s].detached
      BY <3>1 DEF LoopList
    <3>3. stop[s].item \in Item
      BY <1>0, <3>1, <3>2 DEF Going
    <3> QED
      BY <3>1, <3>2, <3>3 DEF LoopList, Current, TypeOK
  <2>2. PopAndCancel(s, t)
    BY <1>8 DEF StopFound
  <2>3. /\ tasks' = tasks \ {t} /\ itemTasks' = itemTasks
        /\ \A v \in Task : popper[v] \subseteq popper'[v]
    BY <1>0, <2>2 DEF PopAndCancel
  <2>4. /\ stop'[s].pc \in {"await", "raised", "loop"}
        /\ stop'[s].item = stop[s].item /\ stop'[s].next = n + 1
        /\ \A u \in Stopper \ {s} : stop'[u] = stop[u]
    <3>1. PICK c \in {"await", "raised", "loop"} : c = AwaitPc(t)
      BY DEF AwaitPc
    <3>2. stop' = [stop EXCEPT ![s].pc = c, ![s].cur = t, ![s].next = @ + 1]
      BY <1>8, <3>1 DEF StopFound
    <3> HIDE DEF t
    <3> QED
      BY <1>0, <3>1, <3>2 DEF Stops
  <2>5. \A j, k \in 1..Len(q) : q[j] = q[k] => j = k
    BY <2>1 DEF TypeOK, IsInjective
  <2>6. \A k \in 1..Len(q) : q[k] \in Task
    BY <2>1 DEF TypeOK
  <2> HIDE DEF t
  <2>7. ASSUME NEW k \in n + 1..Len(q), q[k] \notin tasks'
        PROVE  Other(popper', s, q[k])
    <3>1. k \in 1..Len(q) /\ k # n /\ k \in n..Len(q)
      BY <2>1
    <3>2. q[k] \notin tasks
      BY <3>1, <2>1, <2>3, <2>5, <2>7
    <3>3. Going(s)
      BY <2>1 DEF Going
    <3>4. Other(popper, s, q[k])
      BY <1>0, <3>1, <3>2, <3>3, <2>1 DEF PoppedAt
    <3> QED
      BY <2>3, <2>6, <3>1, <3>4 DEF Other
  <2>8. PoppedAt(s)'
    BY <2>3, <2>4, <2>7 DEF PoppedAt
  <2> QED
    BY <1>7, <2>1, <2>2, <2>4, <2>8
<1>9. ASSUME NEW s \in Stopper, NEW t \in Task, StopTask(s, t)
      PROVE  PoppedInv'
  <2>1. PICK c \in {"await", "raised", "loop"} : c = AwaitPc(t)
    BY DEF AwaitPc
  <2> DEFINE new == [NoStop EXCEPT !.pc = c, !.cur = t, !.next = 2, !.detached = TRUE,
                                   !.asked = {t}]
  <2>2. new.pc = c /\ new.detached
    BY DEF NoStop
  <2>3. PopAndCancel(s, t) /\ stop' = [stop EXCEPT ![s] = new]
    BY <1>9, <2>1 DEF StopTask
  <2> HIDE DEF new
  <2>4. /\ stop'[s].pc \in {"await", "raised", "loop"} /\ stop'[s].detached
        /\ \A u \in Stopper \ {s} : stop'[u] = stop[u]
    BY <1>0, <2>1, <2>2, <2>3
  <2>5. PoppedAt(s)'
    BY <2>4 DEF PoppedAt
  <2> QED
    BY <1>7, <2>3, <2>4, <2>5
<1>10. ASSUME NEW s \in Stopper, NEW t \in Task, StopTaskMissing(s, t)
       PROVE  PoppedInv'
  <2> DEFINE new == [NoStop EXCEPT !.pc = "failed", !.cur = t]
  <2>1. new.pc = "failed" /\ new.item = "none"
    BY DEF NoStop
  <2>2. /\ stop' = [stop EXCEPT ![s] = new]
        /\ tasks' = tasks /\ itemTasks' = itemTasks /\ popper' = popper
    BY <1>10 DEF StopTaskMissing
  <2> HIDE DEF new
  <2>3. /\ stop'[s].pc = "failed" /\ stop'[s].item \notin Item
        /\ \A u \in Stopper \ {s} : stop'[u] = stop[u]
    BY <1>0, <2>1, <2>2, ConstantsAssumption
  <2>4. PoppedAt(s)'
    BY <2>3 DEF PoppedAt, Going
  <2> QED
    BY <1>5, <2>2, <2>3, <2>4
<1>11. ASSUME NEW s \in Stopper, StopMissing(s)
       PROVE  PoppedInv'
  <2> DEFINE q == itemTasks[stop[s].item]
             n == stop[s].next
  <2>1. /\ stop[s].pc = "loop" /\ ~stop[s].detached /\ n \in n..Len(q)
        /\ Current(s) = q[n] /\ Current(s) \notin tasks /\ q[n] \in Task
    <3>1. stop[s].pc = "loop" /\ n <= Len(LoopList(s)) /\ n \in Nat \ {0}
      BY <1>0, <1>11 DEF StopMissing, InLoop
    <3>2. ~stop[s].detached
      BY <3>1 DEF LoopList
    <3>3. stop[s].item \in Item
      BY <1>0, <3>1, <3>2 DEF Going
    <3> QED
      BY <1>11, <3>1, <3>2, <3>3 DEF StopMissing, LoopList, Current, TypeOK
  <2>2. Other(popper, s, q[n])
    BY <1>0, <2>1 DEF PoppedAt, Going
  <2>3. /\ tasks' = tasks /\ itemTasks' = itemTasks /\ popper' = popper
        /\ stop' = [stop EXCEPT ![s].pc = "failed", ![s].cur = q[n]]
    BY <1>11, <2>1 DEF StopMissing
  <2> HIDE DEF q, n
  <2>4. /\ stop'[s].pc = "failed" /\ stop'[s].cur = q[n]
        /\ \A u \in Stopper \ {s} : stop'[u] = stop[u]
    BY <1>0, <2>3 DEF Stops
  <2>5. PoppedAt(s)'
    BY <2>1, <2>2, <2>3, <2>4 DEF PoppedAt, Going, Other
  <2> QED
    BY <1>5, <2>3, <2>4, <2>5
<1>12. ASSUME NEW s \in Stopper, StopReturns(s) \/ Awaited(s)
       PROVE  PoppedInv'
  <2>1. PICK c \in {"all", "await", "loop", "raised"} :
          /\ stop' = [stop EXCEPT ![s].pc = c]
          /\ Going(s)
          /\ tasks' = tasks /\ itemTasks' = itemTasks /\ popper' = popper
    BY <1>12 DEF StopReturns, Awaited, AwaitPc, Going
  <2>2. /\ stop'[s].pc = c /\ stop'[s].item = stop[s].item
        /\ stop'[s].next = stop[s].next /\ stop'[s].detached = stop[s].detached
        /\ \A u \in Stopper \ {s} : stop'[u] = stop[u]
    BY <1>0, <2>1 DEF Stops
  <2>3. PoppedAt(s)'
    BY <1>0, <2>1, <2>2 DEF PoppedAt, Other
  <2> QED
    BY <1>5, <2>1, <2>2, <2>3
<1>13. CASE UNCHANGED vars
  BY <1>13 DEF vars, PoppedInv, PoppedAt, ListedPopped, Going, Other
<1> QED
  BY <1>2, <1>3, <1>4, <1>6, <1>8, <1>9, <1>10, <1>11, <1>12, <1>13 DEF Next

LEMMA PoppedStart == Init => PoppedInv
<1> SUFFICES ASSUME Init
             PROVE  PoppedInv
  OBVIOUS
<1>1. \A s \in Stopper : stop[s].pc = "idle"
  BY DEF Init, NoStop
<1>2. \A i \in Item : Len(itemTasks[i]) = 0
  BY DEF Init
<1>3. \A t \in Task : popper[t] = {}
  BY DEF Init
<1> QED
  BY <1>1, <1>2, <1>3 DEF PoppedInv, PoppedAt, ListedPopped, Going

\* stop_item_tasks fails only when another request has popped the very task it
\* has come to: a lone request never does, whatever tasks end or start
\* meanwhile.
THEOREM FailureNeedsAnother == Spec => []FailureMeansContention
<1>1. Spec => [](TypeOK /\ ListInv /\ StopInv)
  BY ListInvariant
<1>2. Spec => []PoppedInv
  BY <1>1, PoppedStart, PoppedStep, PTL DEF Spec
<1>3. PoppedInv => FailureMeansContention
  BY DEF PoppedInv, PoppedAt, Other, FailureMeansContention
<1> QED
  BY <1>2, <1>3, PTL

-----------------------------------------------------------------------------
(* The loop over two tasks *)

\* A list without repetitions whose first elements are taken from two tasks
\* has the second of them at its second place.
LEMMA SecondOfTwo ==
  ASSUME NEW q \in Seq(Task), IsInjective(q), NEW a \in Task, NEW b \in Task,
         \A k \in 1..Len(q) : q[k] \in {a, b},
         NEW k \in 1..Len(q), k # 1
  PROVE  k = 2
<1>1. \A i, j \in 1..Len(q) : q[i] = q[j] => i = j
  BY DEF IsInjective
<1>2. CASE k > 2
  <2>1. 1 \in 1..Len(q) /\ 2 \in 1..Len(q)
    BY <1>2
  <2>2. q[1] # q[2] /\ q[1] # q[k] /\ q[2] # q[k]
    BY <1>1, <1>2, <2>1
  <2> QED
    BY <2>1, <2>2
<1> QED
  BY <1>2

\* While nobody creates a task that s was asked to stop, an action that leaves
\* the lists and s alone keeps what is said of s.
LEMMA PairKept ==
  ASSUME TypeOK, NEW s \in Stopper, PairAt(s),
         stop'[s] = stop[s], itemTasks' = itemTasks,
         \A t \in Task : stage'[t] = "running" => stage[t] = "running",
         \A t \in Task : stage'[t] = "idle" => stage[t] = "idle"
  PROVE  PairAt(s)'
<1>1. stop[s].asked \subseteq Task
  BY DEF TypeOK, Stops
<1>2. Pair(s)' = Pair(s) /\ Going(s)' = Going(s)
  BY DEF Pair, Going
<1> QED
  BY <1>1, <1>2 DEF PairAt

LEMMA PairStep ==
  ASSUME TypeOK, ListInv, StopInv, PairInv, [Next]_vars
  PROVE  PairInv'
<1>0. \A s \in Stopper : /\ stop[s].asked \subseteq Task
                         /\ stop[s].next \in Nat \ {0}
                         /\ PairAt(s)
                         /\ Going(s) /\ ~stop[s].detached => stop[s].item \in Item
  BY DEF TypeOK, Stops, PairInv, StopInv, Going
<1>1. ASSUME NEW t \in Task, Create(t)
      PROVE  PairInv'
  <2>1. /\ ItemOf[t] \in Item /\ stage[t] = "idle"
        /\ itemTasks' = [itemTasks EXCEPT ![ItemOf[t]] = Append(@, t)]
        /\ stage' = [stage EXCEPT ![t] = "running"] /\ stop' = stop
        /\ \A s \in Stopper : stop[s].pc # "loop"
    BY <1>1, ConstantsAssumption DEF Create, LoopFree
  <2>2. ASSUME NEW i \in Item, Len(itemTasks[i]) >= 2
        PROVE  /\ Len(itemTasks'[i]) >= 2
               /\ itemTasks'[i][1] = itemTasks[i][1] /\ itemTasks'[i][2] = itemTasks[i][2]
    <3>1. itemTasks[i] \in Seq(Task)
      BY DEF TypeOK
    <3>2. itemTasks'[i] = itemTasks[i] \/ itemTasks'[i] = Append(itemTasks[i], t)
      BY <2>1 DEF TypeOK
    <3> QED
      BY <2>2, <3>1, <3>2
  <2>3. ASSUME NEW s \in Stopper
        PROVE  PairAt(s)'
    <3>1. \A u \in stop[s].asked : u \in Task /\ u # t /\ stage'[u] = stage[u]
      BY <1>0, <2>1 DEF PairAt, TypeOK
    <3>2. Pair(s)' = Pair(s) /\ Going(s)' = Going(s) /\ stop'[s] = stop[s]
      BY <2>1 DEF Pair, Going
    <3>3. Going(s) => stop[s].next > 1
      BY <1>0, <2>1 DEF PairAt, Going
    <3>4. Going(s) /\ ~stop[s].detached /\ Len(itemTasks[stop[s].item]) >= 2 =>
            /\ Len(itemTasks'[stop[s].item]) >= 2
            /\ itemTasks'[stop[s].item][1] = itemTasks[stop[s].item][1]
            /\ itemTasks'[stop[s].item][2] = itemTasks[stop[s].item][2]
      BY <1>0, <2>2
    <3> QED
      BY <1>0, <3>1, <3>2, <3>3, <3>4 DEF PairAt
  <2> QED
    BY <2>3 DEF PairInv
\* A cleanup takes neither of the first two elements of a list that a request
\* still needs: one of them runs, the other is awaited.
<1>2. ASSUME NEW t \in Task, SelfCleanup(t) \/ Callback(t)
      PROVE  PairInv'
  <2>1. /\ Cleanup(t)
        /\ \A s \in Stopper : stop[s].pc # "loop"
        /\ \/ t \in SelfCleaning
           \/ \A s \in Stopper : ~(stop[s].pc = "await" /\ stop[s].cur = t)
        /\ \E w \in {"tail", "cleaned"} : stage' = [stage EXCEPT ![t] = w]
    BY <1>2 DEF SelfCleanup, Callback, LoopFree
  <2>2. ASSUME NEW s \in Stopper
        PROVE  PairAt(s)'
    <3>1. /\ stop'[s].pc = stop[s].pc /\ stop'[s].item = stop[s].item
          /\ stop'[s].next = stop[s].next /\ stop'[s].cur = stop[s].cur
          /\ stop'[s].asked = stop[s].asked
          /\ stop'[s].detached = (stop[s].detached
               \/ (stop[s].item = ItemOf[t] /\ itemTasks'[ItemOf[t]] = <<>>))
      BY <2>1, CleanupStop
    <3>2. Pair(s)' = Pair(s) /\ Going(s)' = Going(s)
      BY <3>1 DEF Pair, Going
    <3>3. \A u \in stop[s].asked :
            /\ stage'[u] = "running" => stage[u] = "running" /\ u # t
            /\ stage'[u] = "idle" => stage[u] = "idle"
      BY <1>0, <2>1 DEF TypeOK
    <3>4. Going(s) => stop[s].pc = "await" /\ stop[s].next > 1
      BY <1>0, <2>1 DEF PairAt, Going
    <3>5. ASSUME Pair(s), Going(s), NEW u \in stop[s].asked, stage'[u] = "running"
          PROVE  /\ ~stop'[s].detached
                 /\ stop[s].next = 2
                 /\ Len(itemTasks'[stop[s].item]) >= 2
                 /\ itemTasks'[stop[s].item][2] = u
                 /\ itemTasks'[stop[s].item][1] = stop[s].cur
                 /\ itemTasks'[stop[s].item][1] \in stop[s].asked
      <4> DEFINE q == itemTasks[stop[s].item]
                 r == itemTasks'[stop[s].item]
      <4>1. /\ ~stop[s].detached /\ stop[s].next = 2 /\ Len(q) >= 2
            /\ q[2] = u /\ q[1] = stop[s].cur /\ q[1] \in stop[s].asked
        BY <1>0, <3>3, <3>4, <3>5 DEF PairAt
      <4>2. u # t
        BY <3>3, <3>5
      <4>3. stop[s].cur # t
        BY <2>1, <3>4, <3>5, <4>1 DEF Pair
      <4>4. Len(r) >= 2 /\ r[1] = q[1] /\ r[2] = q[2]
        <5>1. CASE stop[s].item = ItemOf[t]
          <6>1. r = RemoveFirst(q, t) /\ q \in Seq(Task) /\ IsInjective(q)
            BY <1>0, <3>5, <4>1, <5>1, <2>1, CleanupLists DEF TypeOK
          <6> HIDE DEF q, r
          <6>2. \/ r = q
                \/ \E p \in 1..Len(q) :
                     /\ q[p] = t /\ Len(r) = Len(q) - 1
                     /\ \A k \in 1..Len(q) - 1 :
                          r[k] = IF k < p THEN q[k] ELSE q[k + 1]
            BY <6>1, Removed
          <6>3. ASSUME NEW p \in 1..Len(q), q[p] = t, Len(r) = Len(q) - 1,
                       \A k \in 1..Len(q) - 1 : r[k] = IF k < p THEN q[k] ELSE q[k + 1]
                PROVE  Len(r) >= 2 /\ r[1] = q[1] /\ r[2] = q[2]
            <7>1. p # 1 /\ p # 2
              BY <4>1, <4>2, <4>3, <6>3
            <7>2. p > 2 /\ Len(q) > 2
              BY <6>3, <7>1, <6>1
            <7> QED
              BY <6>1, <6>3, <7>2
          <6> QED
            BY <6>2, <6>3, <4>1
        <5>2. CASE stop[s].item # ItemOf[t]
          BY <1>0, <3>5, <5>2, <2>1, <4>1, CleanupLists
        <5> QED
          BY <5>1, <5>2
      <4>5. r # <<>>
        BY <4>4
      <4> QED
        BY <3>1, <4>1, <4>4, <4>5
    <3> QED
      BY <1>0, <3>1, <3>2, <3>3, <3>4, <3>5 DEF PairAt
  <2> QED
    BY <2>2 DEF PairInv
<1>3. ASSUME NEW t \in Task, Finish(t) \/ Raise(t)
      PROVE  PairInv'
  <2>1. /\ stage' = [stage EXCEPT ![t] = "ended"]
        /\ itemTasks' = itemTasks /\ stop' = stop
    BY <1>3 DEF Finish, Raise
  <2>2. \A u \in Task : /\ stage'[u] = "running" => stage[u] = "running"
                        /\ stage'[u] = "idle" => stage[u] = "idle"
    BY <2>1 DEF TypeOK
  <2>3. \A s \in Stopper : PairAt(s)'
    BY <1>0, <2>1, <2>2, PairKept
  <2> QED
    BY <2>3 DEF PairInv
<1>4. ASSUME NEW s \in Stopper, NEW i \in Item, StopItemTasks(s, i)
      PROVE  PairInv'
  <2>1. /\ stage' = stage /\ itemTasks' = itemTasks
        /\ stop'[s].pc = "loop" /\ stop'[s].item = i /\ stop'[s].next = 1
        /\ stop'[s].asked = ToSet(itemTasks[i]) /\ ~stop'[s].detached
        /\ \A u \in Stopper \ {s} : stop'[u] = stop[u]
    <3> DEFINE new == [NoStop EXCEPT !.pc = "loop", !.item = i, !.asked = ToSet(itemTasks[i])]
    <3>1. /\ new.pc = "loop" /\ new.item = i /\ new.next = 1
          /\ new.asked = ToSet(itemTasks[i]) /\ ~new.detached
      BY DEF NoStop
    <3>2. stop' = [stop EXCEPT ![s] = new]
      BY <1>4 DEF StopItemTasks
    <3> HIDE DEF new
    <3> QED
      BY <1>4, <3>1, <3>2 DEF StopItemTasks, TypeOK
  <2>2. \A t \in ToSet(itemTasks[i]) : stage[t] # "idle"
    <3>1. ToSet(itemTasks[i]) = {itemTasks[i][k] : k \in 1..Len(itemTasks[i])}
      BY DEF TypeOK, ToSet
    <3> QED
      BY <3>1 DEF ListInv
  <2>3. PairAt(s)'
    BY <2>1, <2>2 DEF PairAt
  <2>4. \A u \in Stopper \ {s} : PairAt(u)'
    BY <1>0, <2>1, PairKept
  <2> QED
    BY <2>3, <2>4 DEF PairInv
<1>5. ASSUME NEW s \in Stopper, StopFound(s)
      PROVE  PairInv'
  <2> DEFINE t == Current(s)
             q == itemTasks[stop[s].item]
             n == stop[s].next
  <2>1. /\ stop[s].pc = "loop" /\ ~stop[s].detached /\ n \in 1..Len(q)
        /\ t = q[n] /\ stop[s].item \in Item /\ t \in tasks
    <3>1. /\ stop[s].pc = "loop" /\ n <= Len(LoopList(s)) /\ n \in Nat \ {0}
          /\ t \in tasks
      BY <1>5 DEF StopFound, InLoop, TypeOK, Stops
    <3>3. ~stop[s].detached
      BY <3>1 DEF LoopList
    <3>2. stop[s].item \in Item
      BY <1>0, <3>1, <3>3 DEF Going
    <3> QED
      BY <3>1, <3>2, <3>3 DEF LoopList, Current, TypeOK
  <2>2. /\ itemTasks' = itemTasks
        /\ stop'[s].pc \in {"await", "raised", "loop"}
        /\ stop'[s].item = stop[s].item /\ stop'[s].next = n + 1
        /\ stop'[s].asked = stop[s].asked /\ stop'[s].cur = t
        /\ stop'[s].detached = stop[s].detached
        /\ \A u \in Stopper \ {s} : stop'[u] = stop[u]
    <3>1. PICK c \in {"await", "raised", "loop"} : c = AwaitPc(t)
      BY DEF AwaitPc
    <3>2. stop' = [stop EXCEPT ![s].pc = c, ![s].cur = t, ![s].next = @ + 1]
      BY <1>5, <3>1 DEF StopFound
    <3>3. stop[s] \in Stops
      BY DEF TypeOK
    <3> QED
      BY <1>5, <3>2, <3>3 DEF StopFound, PopAndCancel, TypeOK, Stops
  <2>3. \A u \in Task : /\ stage'[u] = "running" => stage[u] = "running" /\ u # t
                        /\ stage'[u] = "idle" => stage[u] = "idle"
    <3>1. t \in Task /\ stage[t] \in {"running", "ended"}
      BY <2>1 DEF ListInv, TypeOK
    <3>2. stage' = [stage EXCEPT ![t] = IF @ = "running" THEN "cancelling" ELSE @]
      BY <1>5 DEF StopFound, PopAndCancel
    <3> HIDE DEF t
    <3> QED
      BY <3>1, <3>2 DEF TypeOK
  <2>4. \A u \in Stopper \ {s} : PairAt(u)'
    BY <1>0, <2>2, <2>3, PairKept
  <2>5. Pair(s)' = Pair(s)
    BY <2>2 DEF Pair
  <2>6. ASSUME Pair(s), NEW u \in stop[s].asked, stage'[u] = "running"
        PROVE  n = 1 /\ Len(q) >= 2 /\ q[2] = u /\ q[1] \in stop[s].asked
    <3>1. u \in Task /\ stage[u] = "running" /\ u # t
      BY <1>0, <2>3, <2>6
    <3>2. Going(s)
      BY <2>1 DEF Going
    <3>3. n = 1
      <4>1. CASE n > 1
        <5>1. n = 2 /\ q[2] = u
          BY <1>0, <2>6, <3>1, <3>2, <4>1 DEF PairAt
        <5> QED
          BY <5>1, <2>1, <3>1
      <4> QED
        BY <4>1, <1>0
    <3>4. stop[s].asked = ToSet(q)
      BY <1>0, <2>6, <3>2, <3>3 DEF PairAt
    <3>5. q \in Seq(Task) /\ IsInjective(q)
      BY <2>1 DEF TypeOK
    <3> HIDE DEF q, n, t
    <3>6. ToSet(q) = {q[k] : k \in 1..Len(q)}
      BY <3>5 DEF ToSet
    <3>7. PICK k \in 1..Len(q) : q[k] = u
      BY <2>6, <3>4, <3>6
    <3>8. k # 1
      BY <3>1, <3>3, <3>7, <2>1
    <3>9. PICK a \in Task, b \in Task : stop[s].asked \subseteq {a, b}
      BY <2>6 DEF Pair
    <3>10. \A j \in 1..Len(q) : q[j] \in {a, b}
      BY <3>4, <3>6, <3>9
    <3>11. k = 2
      BY <3>5, <3>8, <3>10, SecondOfTwo
    <3>12. Len(q) >= 2 /\ 1 \in 1..Len(q)
      BY <3>5, <3>7, <3>11
    <3> QED
      BY <3>3, <3>4, <3>6, <3>7, <3>11, <3>12
  <2>7. \A u \in stop'[s].asked : stage'[u] # "idle"
    BY <1>0, <2>2, <2>3 DEF PairAt
  <2>8. stop'[s].next > 1 /\ stop'[s].next # 1 /\ stop'[s].pc # "all"
    BY <1>0, <2>2
  <2>9. ASSUME Pair(s)', NEW u \in stop'[s].asked, stage'[u] = "running"
        PROVE  /\ ~stop'[s].detached
               /\ stop'[s].next = 2
               /\ Len(itemTasks'[stop'[s].item]) >= 2
               /\ itemTasks'[stop'[s].item][2] = u
               /\ itemTasks'[stop'[s].item][1] = stop'[s].cur
               /\ itemTasks'[stop'[s].item][1] \in stop'[s].asked
    <3>1. n = 1 /\ Len(q) >= 2 /\ q[2] = u /\ q[1] \in stop[s].asked
      BY <2>2, <2>5, <2>6, <2>9
    <3>2. t = q[1]
      BY <2>1, <3>1
    <3> HIDE DEF t
    <3> QED
      BY <2>1, <2>2, <3>1, <3>2
  <2>10. PairAt(s)'
    BY <2>7, <2>8, <2>9 DEF PairAt
  <2> QED
    BY <2>4, <2>10 DEF PairInv
<1>5a. ASSUME NEW s \in Stopper, NEW t \in Task, StopTask(s, t)
       PROVE  PairInv'
  <2>1. PICK c \in {"await", "raised", "loop"} : c = AwaitPc(t)
    BY DEF AwaitPc
  <2> DEFINE new == [NoStop EXCEPT !.pc = c, !.cur = t, !.next = 2, !.detached = TRUE,
                                   !.asked = {t}]
  <2>2. new.pc = c /\ new.next = 2 /\ new.asked = {t}
    BY DEF NoStop
  <2>3. /\ t \in tasks /\ stop' = [stop EXCEPT ![s] = new] /\ itemTasks' = itemTasks
        /\ stage' = [stage EXCEPT ![t] = IF @ = "running" THEN "cancelling" ELSE @]
    BY <1>5a, <2>1 DEF StopTask, PopAndCancel
  <2> HIDE DEF new
  <2>4. /\ stop'[s].pc = c /\ stop'[s].next = 2 /\ stop'[s].asked = {t}
        /\ \A u \in Stopper \ {s} : stop'[u] = stop[u]
    BY <2>2, <2>3 DEF TypeOK
  <2>5. /\ stage'[t] \notin {"running", "idle"}
        /\ \A u \in Task : /\ stage'[u] = "running" => stage[u] = "running"
                          /\ stage'[u] = "idle" => stage[u] = "idle"
    <3>1. stage[t] \in {"running", "ended"}
      BY <2>3 DEF ListInv
    <3> QED
      BY <2>3, <3>1 DEF TypeOK
  <2>6. PairAt(s)'
    BY <2>4, <2>5 DEF PairAt
  <2>7. \A u \in Stopper \ {s} : PairAt(u)'
    BY <1>0, <2>3, <2>4, <2>5, PairKept
  <2> QED
    BY <2>6, <2>7 DEF PairInv
<1>5b. ASSUME NEW s \in Stopper, NEW t \in Task, StopTaskMissing(s, t)
       PROVE  PairInv'
  <2> DEFINE new == [NoStop EXCEPT !.pc = "failed", !.cur = t]
  <2>1. new.pc = "failed" /\ new.asked = {}
    BY DEF NoStop
  <2>2. stop' = [stop EXCEPT ![s] = new] /\ itemTasks' = itemTasks /\ stage' = stage
    BY <1>5b DEF StopTaskMissing
  <2> HIDE DEF new
  <2>3. /\ stop'[s].pc = "failed" /\ stop'[s].asked = {}
        /\ \A u \in Stopper \ {s} : stop'[u] = stop[u]
    BY <2>1, <2>2 DEF TypeOK
  <2>4. PairAt(s)'
    BY <2>3 DEF PairAt, Going
  <2>5. \A u \in Stopper \ {s} : PairAt(u)'
    BY <1>0, <2>2, <2>3, PairKept
  <2> QED
    BY <2>4, <2>5 DEF PairInv
<1>6a. ASSUME NEW s \in Stopper, StopMissing(s)
       PROVE  PairInv'
  <2>1. /\ stop' = [stop EXCEPT ![s].pc = "failed", ![s].cur = Current(s)]
        /\ stage' = stage /\ itemTasks' = itemTasks
    BY <1>6a DEF StopMissing
  <2>2. /\ stop'[s].pc = "failed" /\ stop'[s].asked = stop[s].asked
        /\ \A u \in Stopper \ {s} : stop'[u] = stop[u]
    BY <2>1 DEF TypeOK, Stops
  <2>3. PairAt(s)'
    BY <1>0, <2>1, <2>2 DEF PairAt, Going
  <2>4. \A u \in Stopper \ {s} : PairAt(u)'
    BY <1>0, <2>1, <2>2, PairKept
  <2> QED
    BY <2>3, <2>4 DEF PairInv
<1>6. ASSUME NEW s \in Stopper, StopReturns(s) \/ Awaited(s)
      PROVE  PairInv'
  <2>1. PICK c \in {"all", "loop", "raised"} :
          /\ stop' = [stop EXCEPT ![s].pc = c]
          /\ stage' = stage /\ itemTasks' = itemTasks
          /\ Going(s)
          /\ c = "loop" => stop[s].pc = "await"
          /\ c = "all" => StopReturns(s)
    <3>2. CASE StopReturns(s)
      BY <3>2 DEF StopReturns, Going
    <3>3. CASE Awaited(s)
      <4>1. AwaitPc(stop[s].cur) \in {"loop", "raised"}
        BY <3>3 DEF Awaited, AwaitPc
      <4> QED
        BY <3>3, <4>1 DEF Awaited, Going
    <3> QED
      BY <1>6, <3>2, <3>3
  <2>2. /\ stop'[s].pc = c /\ stop'[s].item = stop[s].item
        /\ stop'[s].next = stop[s].next /\ stop'[s].asked = stop[s].asked
        /\ stop'[s].detached = stop[s].detached
        /\ \A u \in Stopper \ {s} : stop'[u] = stop[u]
    BY <2>1 DEF TypeOK, Stops
  <2>3. \A u \in Stopper \ {s} : PairAt(u)'
    BY <1>0, <2>1, <2>2, PairKept
  <2>4. Pair(s)' = Pair(s)
    BY <2>2 DEF Pair
  <2>5. ASSUME c = "all", Pair(s), NEW u \in stop[s].asked
        PROVE  stage[u] # "running"
    <3> DEFINE q == itemTasks[stop[s].item]
    <3>1. /\ stop[s].pc = "loop"
          /\ ~(stop[s].next <= Len(LoopList(s)))
      BY <1>0, <2>1, <2>5 DEF StopReturns, InLoop
    <3>2. SUFFICES ASSUME stage[u] = "running"
                   PROVE  FALSE
      OBVIOUS
    <3>2a. ~stop[s].detached
      BY <1>0, <2>1, <2>5, <3>2 DEF PairAt
    <3>3. q \in Seq(Task)
      BY <1>0, <2>1, <3>2a DEF TypeOK
    <3>4. CASE stop[s].next = 1
      <4>1. ~stop[s].detached /\ stop[s].asked = ToSet(q)
        BY <1>0, <2>1, <2>5, <3>4 DEF PairAt
      <4>2. ToSet(q) = {q[k] : k \in 1..Len(q)}
        BY <3>3 DEF ToSet
      <4>3. Len(q) >= 1
        BY <2>5, <3>3, <4>1, <4>2
      <4> QED
        BY <3>1, <3>4, <4>1, <4>3 DEF LoopList
    <3>5. CASE stop[s].next > 1
      <4>1. ~stop[s].detached /\ stop[s].next = 2 /\ Len(q) >= 2
        BY <1>0, <2>1, <2>5, <3>2, <3>5 DEF PairAt
      <4> QED
        BY <3>1, <4>1 DEF LoopList
    <3> QED
      BY <1>0, <3>4, <3>5
  <2>6. PairAt(s)'
    BY <1>0, <2>1, <2>2, <2>4, <2>5 DEF PairAt, Going
  <2> QED
    BY <2>3, <2>6 DEF PairInv
<1>7. CASE UNCHANGED vars
  <2>1. \A s \in Stopper : PairAt(s)'
    BY <1>0, <1>7, PairKept DEF vars
  <2> QED
    BY <2>1 DEF PairInv
<1> QED
  BY <1>1, <1>2, <1>3, <1>4, <1>5, <1>5a, <1>5b, <1>6a, <1>6, <1>7 DEF Next

\* The loop over a list that shrinks under it still stops two tasks that stay
\* listed until their end, however many other tasks and requests there are.
THEOREM PairIsStopped == Spec => []PairStopped
<1>1. Spec => [](TypeOK /\ ListInv /\ StopInv)
  BY ListInvariant
<1>2. Spec => []PoppedInv
  BY <1>1, PoppedStart, PoppedStep, PTL DEF Spec
<1>3. Init => PairInv
  BY DEF Init, NoStop, PairInv, PairAt, Going
<1>4. Spec => []PairInv
  BY <1>1, <1>2, <1>3, PairStep, PTL DEF Spec
<1>5. PairInv => PairStopped
  BY DEF PairInv, PairAt, Pair, PairStopped
<1> QED
  BY <1>4, <1>5, PTL

-----------------------------------------------------------------------------
(* Waiting *)

\* What a request awaits.
WaitInv ==
    \A s \in Stopper : stop[s].pc = "await" =>
        stop[s].cur \in Task /\ stage[stop[s].cur] \in {"cancelling", "tail", "ended"}

LEMMA CleanupKeepsWaits ==
    ASSUME TypeOK, NEW t \in Task, Cleanup(t), NEW s \in Stopper
    PROVE  stop'[s].pc = stop[s].pc /\ stop'[s].cur = stop[s].cur
  BY DEF TypeOK, Stops, Cleanup

\* A request that is waiting waits for a task that has been cancelled or has
\* ended, and whose done callback has not run: never for one that may run on,
\* and never for one that nothing will wake it up from.  This is the safety
\* half of StopAnswers; its exception, the tail of process_chat, is the one
\* stage here that no cancellation ends.
THEOREM WaitsForCancelled == Spec => []WaitInv
<1>1. Init => WaitInv
  BY DEF Init, NoStop, WaitInv
<1>2. TypeOK /\ ListInv /\ WaitInv /\ [Next]_vars => WaitInv'
  <2> SUFFICES ASSUME TypeOK, ListInv, WaitInv, [Next]_vars,
                      NEW s \in Stopper, stop'[s].pc = "await"
               PROVE  /\ stop'[s].cur \in Task
                      /\ stage'[stop'[s].cur] \in {"cancelling", "tail", "ended"}
    BY DEF WaitInv
  <2> DEFINE Waits == /\ stop'[s].cur \in Task
                      /\ stage'[stop'[s].cur] \in {"cancelling", "tail", "ended"}
  <2>a. stage \in [Task -> Stage] /\ tasks \subseteq Task /\ stop \in [Stopper -> Stops]
    BY DEF TypeOK
  <2>b. stop[s].pc = "await" =>
          stop[s].cur \in Task /\ stage[stop[s].cur] \in {"cancelling", "tail", "ended"}
    BY DEF WaitInv
  <2>1. ASSUME NEW t \in Task, Create(t) \/ Finish(t) \/ Raise(t) PROVE Waits
    BY <2>a, <2>b, <2>1 DEF Create, Finish, Raise
  <2>2. ASSUME NEW t \in Task, SelfCleanup(t) PROVE Waits
    <3>1. stop'[s].pc = stop[s].pc /\ stop'[s].cur = stop[s].cur
      BY <2>2, CleanupKeepsWaits DEF SelfCleanup
    <3>2. QED
      BY <2>a, <2>b, <2>2, <3>1 DEF SelfCleanup
  <2>3. ASSUME NEW t \in Task, Callback(t) PROVE Waits
    <3>1. stop'[s].pc = stop[s].pc /\ stop'[s].cur = stop[s].cur
      BY <2>3, CleanupKeepsWaits DEF Callback
    <3>2. QED
      BY <2>a, <2>b, <2>3, <3>1 DEF Callback
  <2>4. ASSUME NEW r \in Stopper, StopFound(r) PROVE Waits
    <3>1. CASE r # s
      BY <2>a, <2>b, <2>4, <3>1 DEF StopFound, PopAndCancel
    <3>2. CASE r = s
      <4> DEFINE t == Current(s)
      <4>1. t \in tasks /\ stage[t] \in {"running", "ended"}
        BY <2>4, <3>2 DEF StopFound, ListInv
      <4>2. stop'[s].pc = AwaitPc(t) /\ stop'[s].cur = t
        BY <2>a, <2>4, <3>2 DEF StopFound, Stops
      <4>3. stage[t] = "running"
        BY <4>1, <4>2 DEF AwaitPc
      <4>4. stage'[t] = "cancelling"
        BY <2>a, <2>4, <3>2, <4>1, <4>3 DEF StopFound, PopAndCancel
      <4>5. QED
        BY <2>a, <4>1, <4>2, <4>4
    <3>3. QED
      BY <3>1, <3>2
  <2>5. ASSUME NEW r \in Stopper, StopMissing(r) \/ StopReturns(r) PROVE Waits
    BY <2>a, <2>b, <2>5 DEF StopMissing, StopReturns, Stops
  <2>6. ASSUME NEW r \in Stopper, Awaited(r) PROVE Waits
    BY <2>a, <2>b, <2>6 DEF Awaited, AwaitPc, Stops
  <2>7. ASSUME NEW r \in Stopper, NEW i \in Item, StopItemTasks(r, i) PROVE Waits
    BY <2>a, <2>b, <2>7 DEF StopItemTasks, NoStop
  <2>7a. ASSUME NEW r \in Stopper, NEW t \in Task, StopTask(r, t) PROVE Waits
    <3> DEFINE new == [NoStop EXCEPT !.pc = AwaitPc(t), !.cur = t, !.next = 2,
                                     !.detached = TRUE, !.asked = {t}]
    <3>1. new.pc = AwaitPc(t) /\ new.cur = t
      BY DEF NoStop
    <3>2. /\ t \in tasks /\ stop' = [stop EXCEPT ![r] = new]
          /\ stage' = [stage EXCEPT ![t] = IF @ = "running" THEN "cancelling" ELSE @]
      BY <2>7a DEF StopTask, PopAndCancel
    <3> HIDE DEF new
    <3>3. CASE r # s
      BY <2>a, <2>b, <3>2, <3>3
    <3>4. CASE r = s
      <4>1. stage[t] \in {"running", "ended"}
        BY <3>2 DEF ListInv
      <4>2. stop'[s].pc = AwaitPc(t) /\ stop'[s].cur = t
        BY <2>a, <3>1, <3>2, <3>4
      <4>3. stage[t] = "running"
        BY <4>1, <4>2 DEF AwaitPc
      <4>4. QED
        BY <2>a, <3>2, <4>2, <4>3
    <3>5. QED
      BY <3>3, <3>4
  <2>7b. ASSUME NEW r \in Stopper, NEW t \in Task, StopTaskMissing(r, t) PROVE Waits
    BY <2>a, <2>b, <2>7b DEF StopTaskMissing, NoStop
  <2>8. CASE UNCHANGED vars
    BY <2>b, <2>8 DEF vars
  <2>9. QED
    BY <2>1, <2>2, <2>3, <2>4, <2>5, <2>6, <2>7, <2>7a, <2>7b, <2>8 DEF Next
<1>3. Spec => [](TypeOK /\ ListInv)
  BY ListInvariant, PTL
<1>4. QED
  BY <1>1, <1>2, <1>3, PTL DEF Spec
=============================================================================
