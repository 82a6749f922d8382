------------------------------ MODULE Ydoc_proofs ------------------------------
(***************************************************************************)
(* The document of Ydoc, for every number of sessions, processes, updates  *)
(* and faults and every compaction threshold: its types, the absence of a  *)
(* gap between the state a client is sent and the updates after it, what a *)
(* compaction preserves, and that no update on its way is dropped.         *)
(***************************************************************************)
EXTENDS Ydoc, SequenceTheorems, TLAPS

LEMMA Constants == /\ Home \in [Session -> Proc]
                   /\ Leaver \subseteq Session
                   /\ MaxOpens \in Nat
                   /\ MaxFaults \in Nat
BY YdocAssumption DEF YdocAssumption

USE Constants

-----------------------------------------------------------------------------
(* Sequences of sets of updates *)

Lists == Seq(SUBSET Update)

LEMMA ContentsOfAppend ==
    ASSUME NEW q \in Lists, NEW e \in SUBSET Update
    PROVE  Contents(Append(q, e)) = Contents(q) \cup e
<1> DEFINE r == Append(q, e)
<1>1. /\ Len(q) \in Nat
      /\ DOMAIN q = 1..Len(q)
      /\ DOMAIN r = 1..(Len(q) + 1)
      /\ r[Len(q) + 1] = e
      /\ \A i \in 1..Len(q) : r[i] = q[i]
  BY DEF Lists
<1>2. Contents(r) \subseteq Contents(q) \cup e
  <2> SUFFICES ASSUME NEW i \in 1..(Len(q) + 1), NEW u \in r[i]
               PROVE  u \in Contents(q) \cup e
    BY <1>1 DEF Contents
  <2>1. CASE i = Len(q) + 1
    BY <1>1, <2>1
  <2>2. CASE i # Len(q) + 1
    <3>1. i \in 1..Len(q)
      BY <1>1, <2>2
    <3>2. QED
      BY <1>1, <3>1 DEF Contents
  <2>3. QED
    BY <2>1, <2>2
<1>3. Contents(q) \subseteq Contents(r)
  <2> SUFFICES ASSUME NEW i \in 1..Len(q), NEW u \in q[i] PROVE u \in Contents(r)
    BY <1>1 DEF Contents
  <2>1. i \in DOMAIN r /\ u \in r[i]
    BY <1>1
  <2>2. QED
    BY <2>1 DEF Contents
<1>4. e \subseteq Contents(r)
  <2>1. Len(q) + 1 \in DOMAIN r
    BY <1>1
  <2>2. QED
    BY <1>1, <2>1 DEF Contents
<1>5. QED
  BY <1>2, <1>3, <1>4

\* A list and its squashed form have the same contents.
LEMMA ContentsOfSquash ==
    ASSUME NEW q \in Lists
    PROVE  Squash(q) \in Lists /\ Contents(Squash(q)) = Contents(q)
<1> DEFINE n == Len(q)
           mid == n \div 2
           old == SubSeq(q, 1, mid)
           new == SubSeq(q, mid + 1, n)
           first == Contents(old)
<1>1. /\ n \in Nat /\ mid \in Nat /\ mid <= n
      /\ q \in [1..n -> SUBSET Update]
      /\ DOMAIN q = 1..n
  BY LenProperties, Z3 DEF Lists
<1>2. /\ old \in Lists
      /\ Len(old) = mid
      /\ \A i \in 1..mid : old[i] = q[i]
  <2>1. \A i \in 1..mid : q[i] \in SUBSET Update
    BY <1>1
  <2>2. QED
    BY <1>1, <2>1, SubSeqProperties DEF Lists
<1>3. /\ new \in Lists
      /\ Len(new) = n - mid
      /\ \A i \in 1..(n - mid) : new[i] = q[mid + i]
  <2>1. /\ \A i \in (mid + 1)..n : q[i] \in SUBSET Update
        /\ mid + 1 \in Int /\ n \in Int
    BY <1>1
  <2>2. /\ new \in Lists
        /\ Len(new) = IF mid + 1 <= n THEN n - (mid + 1) + 1 ELSE 0
        /\ \A i \in 1..(n - (mid + 1) + 1) : new[i] = q[(mid + 1) + i - 1]
    <3> HIDE DEF n, mid
    <3>1. QED
      BY <2>1, SubSeqProperties DEF Lists
  <2>3. /\ n - (mid + 1) + 1 = n - mid
        /\ (IF mid + 1 <= n THEN n - (mid + 1) + 1 ELSE 0) = n - mid
        /\ \A i \in 1..(n - mid) : (mid + 1) + i - 1 = mid + i
    <3>1. n \in Nat /\ mid \in Nat /\ mid <= n
      BY <1>1
    <3> HIDE DEF n, mid
    <3>2. QED
      BY <3>1
  <2> HIDE DEF new, n, mid
  <2>4. QED
    BY <2>2, <2>3
<1>4. first \in SUBSET Update /\ DOMAIN old = 1..mid
  <2>1. DOMAIN old = 1..mid /\ old \in [1..mid -> SUBSET Update]
    <3> HIDE DEF old
    <3>1. QED
      BY <1>2, LenProperties DEF Lists
  <2> HIDE DEF old
  <2>2. QED
    BY <2>1 DEF Contents
<1> DEFINE r == <<first>> \o new
<1>5. Squash(q) = r
  BY DEF Squash
<1>6. /\ r \in Lists
      /\ DOMAIN r = 1..(n - mid + 1)
      /\ r[1] = first
      /\ \A i \in 1..(n - mid) : r[i + 1] = q[mid + i]
  <2> HIDE DEF first, new
  <2> DEFINE one == <<first>>
  <2>1. one \in Lists /\ Len(one) = 1 /\ one[1] = first
    BY <1>4 DEF Lists
  <2> HIDE DEF one
  <2>2. /\ one \o new \in Lists
        /\ Len(one \o new) = Len(one) + Len(new)
        /\ \A i \in 1..(Len(one) + Len(new)) :
             (one \o new)[i] = IF i <= Len(one) THEN one[i] ELSE new[i - Len(one)]
    <3>1. one \in Seq(SUBSET Update) /\ new \in Seq(SUBSET Update)
      BY <1>3, <2>1 DEF Lists
    <3> HIDE DEF n, mid
    <3>2. QED
      BY ONLY <3>1, ConcatProperties, Zenon DEF Lists
  <2>3. /\ Len(one) + Len(new) = n - mid + 1
        /\ 1 \in 1..(n - mid + 1)
        /\ \A i \in 1..(n - mid) :
             i + 1 \in 1..(n - mid + 1) /\ ~(i + 1 <= 1) /\ (i + 1) - 1 = i
    BY <1>1, <1>3, <2>1
  <2>4. DOMAIN (one \o new) = 1..(n - mid + 1)
    BY <2>2, <2>3, LenProperties DEF Lists
  <2>5. (one \o new)[1] = first
    BY <2>1, <2>2, <2>3
  <2>6. \A i \in 1..(n - mid) : (one \o new)[i + 1] = q[mid + i]
    BY <1>3, <2>1, <2>2, <2>3
  <2>7. QED
    BY <2>2, <2>4, <2>5, <2>6 DEF one
<1> HIDE DEF r, first, old, new, mid
<1>7. Contents(q) \subseteq Contents(r)
  <2> SUFFICES ASSUME NEW i \in 1..n, NEW u \in q[i] PROVE u \in Contents(r)
    BY <1>1 DEF Contents
  <2>1. CASE i <= mid
    <3>1. i \in DOMAIN old /\ u \in old[i]
      BY <1>1, <1>2, <1>4, <2>1
    <3>2. u \in r[1] /\ 1 \in DOMAIN r
      BY <1>1, <1>6, <3>1 DEF Contents, first
    <3>3. QED
      BY <3>2 DEF Contents
  <2>2. CASE i > mid
    <3>1. i - mid \in 1..(n - mid) /\ mid + (i - mid) = i /\ (i - mid) + 1 \in 1..(n - mid + 1)
      BY <1>1, <2>2
    <3>2. u \in r[(i - mid) + 1] /\ (i - mid) + 1 \in DOMAIN r
      BY <1>6, <3>1
    <3>3. QED
      BY <3>2 DEF Contents
  <2>3. QED
    BY <1>1, <2>1, <2>2
<1>8. Contents(r) \subseteq Contents(q)
  <2> SUFFICES ASSUME NEW j \in 1..(n - mid + 1), NEW u \in r[j] PROVE u \in Contents(q)
    BY <1>6 DEF Contents
  <2>1. CASE j = 1
    <3>1. u \in Contents(old)
      BY <1>6, <2>1 DEF first
    <3>2. PICK i \in DOMAIN old : u \in old[i]
      BY <3>1 DEF Contents
    <3>3. i \in DOMAIN q /\ u \in q[i]
      BY <1>1, <1>2, <1>4, <3>2
    <3>4. QED
      BY <3>3 DEF Contents
  <2>2. CASE j # 1
    <3>1. j - 1 \in 1..(n - mid) /\ (j - 1) + 1 = j /\ mid + (j - 1) \in 1..n
      BY <1>1, <2>2
    <3>2. u \in q[mid + (j - 1)] /\ mid + (j - 1) \in DOMAIN q
      BY <1>1, <1>6, <3>1
    <3>3. QED
      BY <3>2 DEF Contents
  <2>3. QED
    BY <2>1, <2>2
<1>9. QED
  BY <1>5, <1>6, <1>7, <1>8

LEMMA ContentsType ==
    ASSUME NEW q \in Lists PROVE Contents(q) \subseteq Update
<1>1. DOMAIN q = 1..Len(q) /\ q \in [1..Len(q) -> SUBSET Update]
  BY LenProperties DEF Lists
<1>2. QED
  BY <1>1 DEF Contents

\* The list the document starts with.
LEMMA StoredList == [i \in DOMAIN Earlier |-> {Earlier[i]}] \in Lists
<1>1. /\ Len(Earlier) \in Nat
      /\ DOMAIN Earlier = 1..Len(Earlier)
      /\ \A i \in 1..Len(Earlier) : Earlier[i] \in Update
  BY YdocAssumption, LenProperties DEF YdocAssumption
<1>2. [i \in DOMAIN Earlier |-> {Earlier[i]}] \in [1..Len(Earlier) -> SUBSET Update]
  BY <1>1
<1>3. QED
  BY <1>1, <1>2 DEF Lists

-----------------------------------------------------------------------------
(* Types *)

\* Every variable keeps its type: what Redis returns is always a list of sets
\* of updates, whatever the compactions and the handlers do.
THEOREM TypeCorrect == Spec => []TypeOK
<1> USE DEF client, store, rooms, joining, leaving, updating, bounds
<1>1. Init => TypeOK
  <2> SUFFICES ASSUME Init PROVE TypeOK
    OBVIOUS
  <2>1. updates \in Seq(SUBSET Update)
    BY StoredList DEF Init, Lists
  <2>2. upd \in [Update -> InUpdate \cup {"new", "rejected", "done", "lost"}]
    BY DEF Init
  <2>3. QED
    BY <2>1, <2>2 DEF Init, TypeOK
<1>2. TypeOK /\ [Next]_vars => TypeOK'
  <2> SUFFICES ASSUME TypeOK, [Next]_vars PROVE TypeOK'
    OBVIOUS
  <2> USE DEF TypeOK, InUpdate, JoinAt, UpdAt, At
  <2>1. CASE UNCHANGED vars
    BY <2>1 DEF vars
  <2>2. ASSUME NEW s \in Session, Open(s) PROVE TypeOK'
    BY <2>2 DEF Open
  <2>3. ASSUME NEW s \in Session, State(s) PROVE TypeOK'
    <3>1. Contents(updates) \subseteq Update
      BY ContentsType DEF Lists
    <3>2. QED
      BY <2>3, <3>1 DEF State
  <2>4. ASSUME NEW s \in Session, JoinUsers(s) PROVE TypeOK'
    BY <2>4 DEF JoinUsers
  <2>5. ASSUME NEW s \in Session, JoinIndex(s) PROVE TypeOK'
    BY <2>5 DEF JoinIndex
  <2>6. ASSUME NEW s \in Session, JoinRead(s) PROVE TypeOK'
    <3>1. Contents(updates) \subseteq Update
      BY ContentsType DEF Lists
    <3>2. QED
      BY <2>6, <3>1 DEF JoinRead
  <2>7. ASSUME NEW s \in Session, JoinSend(s) PROVE TypeOK'
    <3>1. CASE link[s] /\ view[s] # "closed"
      <4>1. doc' \in [Session -> SUBSET Update]
        <5>1. doc' = [doc EXCEPT ![s] = doc[s] \cup got[s]] /\ doc \in [Session -> SUBSET Update]
          BY <2>7, <3>1 DEF JoinSend
        <5>2. got[s] \in SUBSET Update
          OBVIOUS
        <5> HIDE DEF TypeOK
        <5>3. QED
          BY ONLY <5>1, <5>2
      <4>2. view' \in [Session -> {"closed", "waiting", "synced"}]
        BY <2>7, <3>1 DEF JoinSend
      <4>3. join' \in [Session -> {"idle", "users", "index", "read", "send"}]
        BY <2>7 DEF JoinSend
      <4>4. got' \in [Session -> SUBSET Update]
        BY <2>7 DEF JoinSend
      <4>5. UNCHANGED <<link, pool, store, rooms, leaving, updating, bounds>>
        BY <2>7 DEF JoinSend
      <4>6. QED
        BY <4>1, <4>2, <4>3, <4>4, <4>5
    <3>2. CASE ~(link[s] /\ view[s] # "closed")
      BY <2>7, <3>2 DEF JoinSend
    <3>3. QED
      BY <3>1, <3>2
  <2>8. ASSUME NEW s \in Session, LeaveUsers(s) PROVE TypeOK'
    BY <2>8 DEF LeaveUsers
  <2>9. ASSUME NEW s \in Session, LeaveIndex(s) PROVE TypeOK'
    BY <2>9 DEF LeaveIndex
  <2>10. ASSUME NEW s \in Session, LeaveExists(s) PROVE TypeOK'
    BY <2>10 DEF LeaveExists
  <2>11. ASSUME NEW s \in Session, LeaveCount(s) PROVE TypeOK'
    BY <2>11 DEF LeaveCount
  <2>12. ASSUME NEW s \in Session, GoneUsers(s) PROVE TypeOK'
    BY <2>12 DEF GoneUsers
  <2>13. ASSUME NEW s \in Session, GoneCount(s) PROVE TypeOK'
    BY <2>13 DEF GoneCount
  <2>14. ASSUME NEW s \in Session, GoneIndex(s) PROVE TypeOK'
    BY <2>14 DEF GoneIndex
  <2>15. ASSUME NEW s \in Session, Close(s) PROVE TypeOK'
    BY <2>15 DEF Close
  <2>16. ASSUME NEW s \in Session, Disconnect(s) PROVE TypeOK'
    <3>1. link' \in [Session -> BOOLEAN] /\ pool' \subseteq Session
      BY <2>16 DEF Disconnect
    <3>2. view' \in [Session -> {"closed", "waiting", "synced"}] /\ doc' \in [Session -> SUBSET Update]
      BY <2>16 DEF Disconnect
    <3>3. room' \subseteq Session /\ opens' \in 0..MaxOpens /\ faults' \in 0..MaxFaults
      BY <2>16 DEF Disconnect, Fault
    <3>4. gone' \in [Session -> {"idle", "users", "count", "updates", "key", "index"}]
      <4>1. gone' = gone \/ gone' = [gone EXCEPT ![s] = "users"]
        BY <2>16 DEF Disconnect
      <4>2. QED
        BY <4>1
    <3>5. UNCHANGED <<store, wire, missed, joining, leave, updating>>
      BY <2>16 DEF Disconnect
    <3>6. QED
      BY <3>1, <3>2, <3>3, <3>4, <3>5
  <2>17. ASSUME NEW s \in Session, Reaped(s) PROVE TypeOK'
    BY <2>17 DEF Reaped, Fault
  <2>18. ASSUME NEW s \in Session, LeaveClear(s) PROVE TypeOK'
    <3>1. CASE At(leave, s, "updates", "key") /\ ClearUpdates
      BY <2>18, <3>1 DEF LeaveClear, ClearUpdates
    <3>2. CASE At(leave, s, "key", "idle") /\ ClearUsers
      BY <2>18, <3>2 DEF LeaveClear, ClearUsers
    <3>3. QED
      BY <2>18, <3>1, <3>2 DEF LeaveClear
  <2>19. ASSUME NEW s \in Session, GoneClear(s) PROVE TypeOK'
    <3>1. CASE At(gone, s, "updates", "key") /\ ClearUpdates
      BY <2>19, <3>1 DEF GoneClear, ClearUpdates
    <3>2. CASE At(gone, s, "key", "index") /\ ClearUsers
      BY <2>19, <3>2 DEF GoneClear, ClearUsers
    <3>3. QED
      BY <2>19, <3>1, <3>2 DEF GoneClear
  <2>20. ASSUME NEW u \in Update, Edit(u) PROVE TypeOK'
    <3>1. doc' \in [Session -> SUBSET Update]
      <4>1. /\ doc' = [doc EXCEPT ![Author[u]] = @ \cup {u}]
            /\ doc \in [Session -> SUBSET Update]
        BY <2>20 DEF Edit
      <4> HIDE DEF TypeOK
      <4>2. QED
        BY ONLY <4>1
    <3>2. upd' \in [Update -> InUpdate \cup {"new", "rejected", "done", "lost"}]
      BY <2>20 DEF Edit
    <3>3. UNCHANGED <<link, view, pool, store, rooms, joining, leaving, snap, bounds>>
      BY <2>20 DEF Edit
    <3>4. QED
      BY <3>1, <3>2, <3>3
  <2>21. ASSUME NEW u \in Update, UpdAppend(u) PROVE TypeOK'
    <3>1. updates' \in Seq(SUBSET Update)
      BY <2>21 DEF UpdAppend
    <3>2. QED
      BY <2>21, <3>1 DEF UpdAppend
  <2>22. ASSUME NEW u \in Update, Measure(u) PROVE TypeOK'
    BY <2>22 DEF Measure
  <2>23. ASSUME NEW u \in Update, CompactRead(u) PROVE TypeOK'
    BY <2>23 DEF CompactRead
  <2>24. ASSUME NEW u \in Update, CompactWrite(u) PROVE TypeOK'
    <3>1. updates' \in Seq(SUBSET Update)
      BY <2>24, ContentsOfSquash DEF CompactWrite, Lists
    <3>2. Contents(updates') \subseteq Update
      BY <3>1, ContentsType DEF Lists
    <3>3. QED
      BY <2>24, <3>1, <3>2 DEF CompactWrite
  <2>25. ASSUME NEW u \in Update, UpdEmit(u) PROVE TypeOK'
    BY <2>25 DEF UpdEmit, Emitted
  <2>26. ASSUME NEW u \in Update, UpdFails(u) PROVE TypeOK'
    BY <2>26 DEF UpdFails, Fault
  <2>27. ASSUME NEW p \in Proc, Crash(p) PROVE TypeOK'
    BY <2>27 DEF Crash, Fault
  <2>28. ASSUME NEW p \in Proc, NEW u \in Update, Deliver(p, u) PROVE TypeOK'
    BY <2>28 DEF Deliver, Emitted
  <2>29. ASSUME NEW s \in Session, JoinFails(s) PROVE TypeOK'
    BY <2>29 DEF JoinFails, Fault
  <2>30. ASSUME NEW s \in Session, LeaveFails(s) PROVE TypeOK'
    BY <2>30 DEF LeaveFails, Fault
  <2>31. ASSUME NEW p \in Proc, Reconnect(p) PROVE TypeOK'
    <3>1. PICK lost \in SUBSET wire[p] :
            /\ wire' = [wire EXCEPT ![p] = @ \ lost]
            /\ missed' = [s \in Session |-> IF s \in room /\ Home[s] = p
                                            THEN missed[s] \cup lost ELSE missed[s]]
      BY <2>31 DEF Reconnect
    <3>2. wire' \in [Proc -> SUBSET Update] /\ missed' \in [Session -> SUBSET Update]
      BY <3>1
    <3>3. QED
      BY <2>31, <3>2 DEF Reconnect, Fault
  <2> HIDE DEF client, store, rooms, joining, leaving, updating, bounds
  <2> HIDE DEF TypeOK, InUpdate, JoinAt, UpdAt, At
  <2>32. QED
    BY <2>1, <2>2, <2>3, <2>4, <2>5, <2>6, <2>7, <2>8, <2>9, <2>10, <2>11, <2>12, <2>13, <2>14, <2>15, <2>16, <2>17, <2>18, <2>19, <2>20, <2>21, <2>22, <2>23, <2>24, <2>25, <2>26, <2>27, <2>28, <2>29, <2>30, <2>31
       DEF Next, JoinStep, LeaveStep, GoneStep, UpdStep
<1>3. QED
  BY <1>1, <1>2, PTL DEF Spec

-----------------------------------------------------------------------------
(* No gap *)

\* What s is sure of when it knows `known`.
Accounted(s, known) ==
    \A u \in Contents(updates) :
        u \in known \/ Author[u] = s \/ u \in back \/ Pending(u, s)

\* The join handler of s has read the list and not sent the state yet.
Reader(s) == join[s] = "send" /\ s \in room /\ link[s] /\ view[s] # "closed"

\* What NoGap needs to be inductive: a client that is about to be sent the state
\* is already reached by the updates the state misses, and one that has been
\* sent it is not joining again.
GapInv ==
    /\ \A s \in Session : Member(s) => Accounted(s, doc[s])
    /\ \A s \in Session : Reader(s) => Accounted(s, doc[s] \cup got[s])
    /\ \A s \in Session : view[s] = "synced" => join[s] = "idle"

\* A step that touches neither the list nor what is on its way.
LEMMA QuietStep ==
    ASSUME GapInv, UNCHANGED <<updates, back, wire, upd>>,
           \A s \in Session :
             /\ view[s] = "synced" => join[s] = "idle"
             /\ view'[s] = "synced" => join'[s] = "idle"
             /\ Member(s)' \/ Reader(s)' => missed'[s] = missed[s]
             /\ Member(s)' => doc[s] \subseteq doc'[s] /\ Member(s)
             /\ Reader(s)' => /\ doc[s] \cup got[s] \subseteq doc'[s] \cup got'[s]
                              /\ Reader(s)
    PROVE  GapInv'
<1>1. Contents(updates)' = Contents(updates)
  BY DEF Contents
<1>2. ASSUME NEW s \in Session, Member(s)' PROVE Accounted(s, doc[s])'
  BY <1>1, <1>2 DEF GapInv, Accounted, Pending
<1>3. ASSUME NEW s \in Session, Reader(s)' PROVE Accounted(s, doc[s] \cup got[s])'
  BY <1>1, <1>3 DEF GapInv, Accounted, Pending
<1>4. QED
  BY <1>2, <1>3 DEF GapInv

LEMMA GapStep == TypeOK /\ GapInv /\ [Next]_vars => GapInv'
<1> SUFFICES ASSUME TypeOK, GapInv, [Next]_vars PROVE GapInv'
  OBVIOUS
<1> USE DEF client, store, rooms, joining, leaving, updating, bounds
<1> USE DEF JoinAt, UpdAt, At, Member, Reader
<1>0. \A s \in Session : view[s] = "synced" => join[s] = "idle"
  BY DEF GapInv
<1>1. CASE UNCHANGED vars
  BY <1>0, <1>1, QuietStep DEF vars
<1>2. ASSUME NEW s \in Session, Open(s) PROVE GapInv'
  BY <1>0, <1>2, QuietStep DEF Open, TypeOK
<1>3. ASSUME NEW s \in Session, State(s) PROVE GapInv'
  BY <1>0, <1>3, QuietStep DEF State, TypeOK
<1>4. ASSUME NEW s \in Session, JoinUsers(s) PROVE GapInv'
  BY <1>0, <1>4, QuietStep DEF JoinUsers, TypeOK
<1>5. ASSUME NEW s \in Session, JoinIndex(s) PROVE GapInv'
  BY <1>0, <1>5, QuietStep DEF JoinIndex, TypeOK
<1>6. ASSUME NEW s \in Session, LeaveUsers(s) PROVE GapInv'
  BY <1>0, <1>6, QuietStep DEF LeaveUsers, TypeOK
<1>7. ASSUME NEW s \in Session, LeaveIndex(s) PROVE GapInv'
  BY <1>0, <1>7, QuietStep DEF LeaveIndex, TypeOK
<1>8. ASSUME NEW s \in Session, LeaveExists(s) PROVE GapInv'
  BY <1>0, <1>8, QuietStep DEF LeaveExists, TypeOK
<1>9. ASSUME NEW s \in Session, LeaveCount(s) PROVE GapInv'
  BY <1>0, <1>9, QuietStep DEF LeaveCount, TypeOK
<1>10. ASSUME NEW s \in Session, GoneUsers(s) PROVE GapInv'
  BY <1>0, <1>10, QuietStep DEF GoneUsers, TypeOK
<1>11. ASSUME NEW s \in Session, GoneCount(s) PROVE GapInv'
  BY <1>0, <1>11, QuietStep DEF GoneCount, TypeOK
<1>12. ASSUME NEW s \in Session, GoneIndex(s) PROVE GapInv'
  BY <1>0, <1>12, QuietStep DEF GoneIndex, TypeOK
<1>13. ASSUME NEW s \in Session, Close(s) PROVE GapInv'
  BY <1>0, <1>13, QuietStep DEF Close, TypeOK
<1>14. ASSUME NEW s \in Session, Disconnect(s) PROVE GapInv'
  BY <1>0, <1>14, QuietStep DEF Disconnect, TypeOK
<1>15. ASSUME NEW s \in Session, Reaped(s) PROVE GapInv'
  BY <1>0, <1>15, QuietStep DEF Reaped, TypeOK, Fault
<1>16. ASSUME NEW t \in Session, JoinRead(t) PROVE GapInv'
  <2>1. Contents(updates)' = Contents(updates)
    BY <1>16 DEF JoinRead, Contents
  <2>2. ASSUME NEW s \in Session, Member(s)' PROVE Accounted(s, doc[s])'
    BY <1>16, <2>1, <2>2 DEF JoinRead, GapInv, Accounted, Pending
  <2>3. ASSUME NEW s \in Session, Reader(s)' PROVE Accounted(s, doc[s] \cup got[s])'
    <3>1. CASE s = t
      BY <1>16, <2>1, <3>1 DEF JoinRead, Accounted, TypeOK
    <3>2. CASE s # t
      BY <1>16, <2>1, <2>3, <3>2 DEF JoinRead, GapInv, Accounted, Pending, TypeOK
    <3>3. QED
      BY <3>1, <3>2
  <2>4. \A s \in Session : view'[s] = "synced" => join'[s] = "idle"
    BY <1>0, <1>16 DEF JoinRead, TypeOK
  <2>5. QED
    BY <2>2, <2>3, <2>4 DEF GapInv
<1>17. ASSUME NEW t \in Session, JoinSend(t) PROVE GapInv'
  <2>1. Contents(updates)' = Contents(updates)
    BY <1>17 DEF JoinSend, Contents
  <2>2. ASSUME NEW s \in Session, Member(s)' PROVE Accounted(s, doc[s])'
    <3>1. CASE s = t
      <4>1. Reader(t)
        BY <1>17, <2>2, <3>1 DEF JoinSend
      <4>2. doc'[t] = doc[t] \cup got[t]
        BY <1>17, <4>1 DEF JoinSend, TypeOK
      <4>3. QED
        BY <1>17, <2>1, <3>1, <4>1, <4>2 DEF JoinSend, GapInv, Accounted, Pending
    <3>2. CASE s # t
      BY <1>17, <2>1, <2>2, <3>2 DEF JoinSend, GapInv, Accounted, Pending, TypeOK
    <3>3. QED
      BY <3>1, <3>2
  <2>3. ASSUME NEW s \in Session, Reader(s)' PROVE Accounted(s, doc[s] \cup got[s])'
    BY <1>17, <2>1, <2>3 DEF JoinSend, GapInv, Accounted, Pending, TypeOK
  <2>4. \A s \in Session : view'[s] = "synced" => join'[s] = "idle"
    BY <1>0, <1>17 DEF JoinSend, TypeOK
  <2>5. QED
    BY <2>2, <2>3, <2>4 DEF GapInv
<1>18. ASSUME NEW w \in Update, Edit(w) PROVE GapInv'
  <2>1. Contents(updates)' = Contents(updates)
    BY <1>18 DEF Edit, Contents
  <2>2. ASSUME NEW s \in Session, Member(s)' PROVE Accounted(s, doc[s])'
    BY <1>18, <2>1, <2>2 DEF Edit, GapInv, Accounted, Pending, InUpdate, TypeOK
  <2>3. ASSUME NEW s \in Session, Reader(s)' PROVE Accounted(s, doc[s] \cup got[s])'
    BY <1>18, <2>1, <2>3 DEF Edit, GapInv, Accounted, Pending, InUpdate, TypeOK
  <2>4. \A s \in Session : view'[s] = "synced" => join'[s] = "idle"
    BY <1>0, <1>18 DEF Edit, TypeOK
  <2>5. QED
    BY <2>2, <2>3, <2>4 DEF GapInv
<1>19. ASSUME NEW w \in Update, Measure(w) PROVE GapInv'
  <2>1. Contents(updates)' = Contents(updates)
    BY <1>19 DEF Measure, Contents
  <2>2. ASSUME NEW s \in Session, Member(s)' PROVE Accounted(s, doc[s])'
    BY <1>19, <2>1, <2>2 DEF Measure, GapInv, Accounted, Pending, InUpdate, TypeOK
  <2>3. ASSUME NEW s \in Session, Reader(s)' PROVE Accounted(s, doc[s] \cup got[s])'
    BY <1>19, <2>1, <2>3 DEF Measure, GapInv, Accounted, Pending, InUpdate, TypeOK
  <2>4. \A s \in Session : view'[s] = "synced" => join'[s] = "idle"
    BY <1>0, <1>19 DEF Measure, TypeOK
  <2>5. QED
    BY <2>2, <2>3, <2>4 DEF GapInv
<1>20. ASSUME NEW w \in Update, CompactRead(w) PROVE GapInv'
  <2>1. Contents(updates)' = Contents(updates)
    BY <1>20 DEF CompactRead, Contents
  <2>2. ASSUME NEW s \in Session, Member(s)' PROVE Accounted(s, doc[s])'
    BY <1>20, <2>1, <2>2 DEF CompactRead, GapInv, Accounted, Pending, InUpdate, TypeOK
  <2>3. ASSUME NEW s \in Session, Reader(s)' PROVE Accounted(s, doc[s] \cup got[s])'
    BY <1>20, <2>1, <2>3 DEF CompactRead, GapInv, Accounted, Pending, InUpdate, TypeOK
  <2>4. \A s \in Session : view'[s] = "synced" => join'[s] = "idle"
    BY <1>0, <1>20 DEF CompactRead, TypeOK
  <2>5. QED
    BY <2>2, <2>3, <2>4 DEF GapInv
<1>21. ASSUME NEW w \in Update, UpdEmit(w) PROVE GapInv'
  <2>1. Contents(updates)' = Contents(updates)
    BY <1>21 DEF UpdEmit, Contents
  <2>2. ASSUME NEW s \in Session, Member(s)' PROVE Accounted(s, doc[s])'
    BY <1>21, <2>1, <2>2 DEF UpdEmit, Emitted, Receivers, GapInv, Accounted, Pending, InUpdate, TypeOK
  <2>3. ASSUME NEW s \in Session, Reader(s)' PROVE Accounted(s, doc[s] \cup got[s])'
    BY <1>21, <2>1, <2>3 DEF UpdEmit, Emitted, Receivers, GapInv, Accounted, Pending, InUpdate, TypeOK
  <2>4. \A s \in Session : view'[s] = "synced" => join'[s] = "idle"
    BY <1>0, <1>21 DEF UpdEmit, Emitted, Receivers, TypeOK
  <2>5. QED
    BY <2>2, <2>3, <2>4 DEF GapInv
<1>22. ASSUME NEW w \in Update, UpdFails(w) PROVE GapInv'
  <2>1. Contents(updates)' = Contents(updates)
    BY <1>22 DEF UpdFails, Contents
  <2>2. ASSUME NEW s \in Session, Member(s)' PROVE Accounted(s, doc[s])'
    BY <1>22, <2>1, <2>2 DEF UpdFails, Fault, GapInv, Accounted, Pending, InUpdate, TypeOK
  <2>3. ASSUME NEW s \in Session, Reader(s)' PROVE Accounted(s, doc[s] \cup got[s])'
    BY <1>22, <2>1, <2>3 DEF UpdFails, Fault, GapInv, Accounted, Pending, InUpdate, TypeOK
  <2>4. \A s \in Session : view'[s] = "synced" => join'[s] = "idle"
    BY <1>0, <1>22 DEF UpdFails, Fault, TypeOK
  <2>5. QED
    BY <2>2, <2>3, <2>4 DEF GapInv
<1>23. ASSUME NEW w \in Update, UpdAppend(w) PROVE GapInv'
  <2>1. Contents(updates)' = Contents(updates) \cup {w}
    BY <1>23, ContentsOfAppend DEF UpdAppend, TypeOK, Lists
  <2>2. ASSUME NEW s \in Session, Member(s)' PROVE Accounted(s, doc[s])'
    BY <1>23, <2>1, <2>2 DEF UpdAppend, GapInv, Accounted, Pending, InUpdate, TypeOK
  <2>3. ASSUME NEW s \in Session, Reader(s)' PROVE Accounted(s, doc[s] \cup got[s])'
    BY <1>23, <2>1, <2>3 DEF UpdAppend, GapInv, Accounted, Pending, InUpdate, TypeOK
  <2>4. \A s \in Session : view'[s] = "synced" => join'[s] = "idle"
    BY <1>0, <1>23 DEF UpdAppend, TypeOK
  <2>5. QED
    BY <2>2, <2>3, <2>4 DEF GapInv
<1>24. ASSUME NEW w \in Update, CompactWrite(w) PROVE GapInv'
  <2>1. Contents(updates)' \subseteq Contents(updates) \cup back' /\ back \subseteq back'
    BY <1>24 DEF CompactWrite
  <2>2. ASSUME NEW s \in Session, Member(s)' PROVE Accounted(s, doc[s])'
    BY <1>24, <2>1, <2>2 DEF CompactWrite, GapInv, Accounted, Pending, InUpdate, TypeOK
  <2>3. ASSUME NEW s \in Session, Reader(s)' PROVE Accounted(s, doc[s] \cup got[s])'
    BY <1>24, <2>1, <2>3 DEF CompactWrite, GapInv, Accounted, Pending, InUpdate, TypeOK
  <2>4. \A s \in Session : view'[s] = "synced" => join'[s] = "idle"
    BY <1>0, <1>24 DEF CompactWrite, TypeOK
  <2>5. QED
    BY <2>2, <2>3, <2>4 DEF GapInv
<1>25. ASSUME NEW p \in Proc, NEW w \in Update, Deliver(p, w) PROVE GapInv'
  <2>1. Contents(updates)' = Contents(updates)
    BY <1>25 DEF Deliver, Contents
  <2>2. ASSUME NEW s \in Session, Member(s)' PROVE Accounted(s, doc[s])'
    BY <1>25, <2>1, <2>2 DEF Deliver, Emitted, Receivers, GapInv, Accounted, Pending, InUpdate, TypeOK
  <2>3. ASSUME NEW s \in Session, Reader(s)' PROVE Accounted(s, doc[s] \cup got[s])'
    BY <1>25, <2>1, <2>3 DEF Deliver, Emitted, Receivers, GapInv, Accounted, Pending, InUpdate, TypeOK
  <2>4. \A s \in Session : view'[s] = "synced" => join'[s] = "idle"
    BY <1>0, <1>25 DEF Deliver, Emitted, Receivers, TypeOK
  <2>5. QED
    BY <2>2, <2>3, <2>4 DEF GapInv
<1>26. ASSUME NEW p \in Proc, Crash(p) PROVE GapInv'
  <2>1. Contents(updates)' = Contents(updates)
    BY <1>26 DEF Crash, Contents
  <2>2. ASSUME NEW s \in Session, link'[s]
        PROVE  /\ Home[s] # p /\ link[s] /\ doc'[s] = doc[s] /\ got'[s] = got[s]
               /\ view'[s] = view[s] /\ join'[s] = join[s] /\ wire'[Home[s]] = wire[Home[s]]
               /\ missed'[s] = missed[s]
    BY <1>26, <2>2 DEF Crash, TypeOK
  <2>3. \A u \in Update : upd[u] \in InUpdate \cup {"lost"} => upd'[u] \in InUpdate \cup {"lost"}
    BY <1>26 DEF Crash, TypeOK
  <2>4. Contents(updates) \subseteq Update /\ room' \subseteq room /\ back' = back
    BY <1>26, ContentsType DEF Crash, Lists, TypeOK
  <2>5. ASSUME NEW s \in Session, Member(s)' PROVE Accounted(s, doc[s])'
    BY <2>1, <2>2, <2>3, <2>4, <2>5 DEF GapInv, Accounted, Pending
  <2>6. ASSUME NEW s \in Session, Reader(s)' PROVE Accounted(s, doc[s] \cup got[s])'
    BY <2>1, <2>2, <2>3, <2>4, <2>6 DEF GapInv, Accounted, Pending
  <2>7. \A s \in Session : view'[s] = "synced" => join'[s] = "idle"
    BY <1>0, <1>26 DEF Crash, Fault, TypeOK
  <2>8. QED
    BY <2>5, <2>6, <2>7 DEF GapInv
<1>27. ASSUME NEW t \in Session, LeaveClear(t) PROVE GapInv'
  <2>1. Contents(updates)' \subseteq Contents(updates) /\ back' = back
    <3>1. Contents(<<>>) = {}
      BY DEF Contents
    <3>2. QED
      BY <1>27, <3>1 DEF LeaveClear, ClearUpdates, ClearUsers
  <2>2. ASSUME NEW s \in Session, Member(s)' PROVE Accounted(s, doc[s])'
    BY <1>27, <2>1, <2>2 DEF LeaveClear, GapInv, Accounted, Pending, InUpdate, TypeOK
  <2>3. ASSUME NEW s \in Session, Reader(s)' PROVE Accounted(s, doc[s] \cup got[s])'
    BY <1>27, <2>1, <2>3 DEF LeaveClear, GapInv, Accounted, Pending, InUpdate, TypeOK
  <2>4. \A s \in Session : view'[s] = "synced" => join'[s] = "idle"
    BY <1>0, <1>27 DEF LeaveClear, TypeOK
  <2>5. QED
    BY <2>2, <2>3, <2>4 DEF GapInv
<1>28. ASSUME NEW t \in Session, GoneClear(t) PROVE GapInv'
  <2>1. Contents(updates)' \subseteq Contents(updates) /\ back' = back
    <3>1. Contents(<<>>) = {}
      BY DEF Contents
    <3>2. QED
      BY <1>28, <3>1 DEF GoneClear, ClearUpdates, ClearUsers
  <2>2. ASSUME NEW s \in Session, Member(s)' PROVE Accounted(s, doc[s])'
    BY <1>28, <2>1, <2>2 DEF GoneClear, GapInv, Accounted, Pending, InUpdate, TypeOK
  <2>3. ASSUME NEW s \in Session, Reader(s)' PROVE Accounted(s, doc[s] \cup got[s])'
    BY <1>28, <2>1, <2>3 DEF GoneClear, GapInv, Accounted, Pending, InUpdate, TypeOK
  <2>4. \A s \in Session : view'[s] = "synced" => join'[s] = "idle"
    BY <1>0, <1>28 DEF GoneClear, TypeOK
  <2>5. QED
    BY <2>2, <2>3, <2>4 DEF GapInv
<1>29. ASSUME NEW s \in Session, JoinFails(s) PROVE GapInv'
  BY <1>0, <1>29, QuietStep DEF JoinFails, TypeOK, Fault
<1>30. ASSUME NEW s \in Session, LeaveFails(s) PROVE GapInv'
  BY <1>0, <1>30, QuietStep DEF LeaveFails, TypeOK, Fault
<1>31. ASSUME NEW p \in Proc, Reconnect(p) PROVE GapInv'
  <2>1. /\ Contents(updates)' = Contents(updates)
        /\ UNCHANGED <<link, view, doc, room, join, got, back, upd>>
    BY <1>31 DEF Reconnect, Contents
  <2>2. PICK lost \in SUBSET wire[p] :
          /\ wire' = [wire EXCEPT ![p] = @ \ lost]
          /\ missed' = [s \in Session |-> IF s \in room /\ Home[s] = p
                                          THEN missed[s] \cup lost ELSE missed[s]]
    BY <1>31 DEF Reconnect
  <2>3. ASSUME NEW s \in Session, s \in room, NEW u, Pending(u, s) PROVE Pending(u, s)'
    <3>1. CASE u \in wire[Home[s]]
      BY <2>2, <2>3, <3>1 DEF Pending, TypeOK
    <3>2. CASE u \notin wire[Home[s]]
      BY <2>1, <2>2, <2>3, <3>2 DEF Pending
    <3>3. QED
      BY <3>1, <3>2
  <2>4. ASSUME NEW s \in Session, Member(s)' PROVE Accounted(s, doc[s])'
    BY <2>1, <2>3, <2>4 DEF GapInv, Accounted
  <2>5. ASSUME NEW s \in Session, Reader(s)' PROVE Accounted(s, doc[s] \cup got[s])'
    BY <2>1, <2>3, <2>5 DEF GapInv, Accounted
  <2>6. QED
    BY <1>0, <2>1, <2>4, <2>5 DEF GapInv
<1> HIDE DEF client, store, rooms, joining, leaving, updating, bounds
<1> HIDE DEF JoinAt, UpdAt, At, Member, Reader
<1>32. QED
  BY <1>1, <1>2, <1>3, <1>4, <1>5, <1>6, <1>7, <1>8, <1>9, <1>10, <1>11, <1>12, <1>13, <1>14, <1>15, <1>16, <1>17, <1>18, <1>19, <1>20, <1>21, <1>22, <1>23, <1>24, <1>25, <1>26, <1>27, <1>28, <1>29, <1>30, <1>31
     DEF Next, JoinStep, LeaveStep, GoneStep, UpdStep

\* A member misses no update of the others that is in the list, beyond those on
\* their way to it: whatever the interleaving of the handlers.
THEOREM NoGapHolds == Spec => []NoGap
<1>1. Init => GapInv
  BY DEF Init, GapInv, Member, Reader
<1>2. GapInv => NoGap
  BY DEF GapInv, NoGap, Accounted
<1>3. QED
  BY <1>1, <1>2, TypeCorrect, GapStep, PTL DEF Spec

\* A compaction that nothing has interfered with keeps every update.
THEOREM SquashAlone == Spec => SquashAloneLosesNothing
<1>1. ASSUME TypeOK, NEW u \in Update, CompactWrite(u), updates = snap[u]
      PROVE  Contents(updates) = Contents(updates')
  BY <1>1, ContentsOfSquash DEF CompactWrite, TypeOK, Lists
<1>2. TypeOK /\ [Next]_vars =>
        [\A u \in Update : CompactWrite(u) /\ updates = snap[u] =>
           Contents(updates) = Contents(updates')]_vars
  BY <1>1
<1>3. QED
  BY <1>2, TypeCorrect, PTL DEF Spec, SquashAloneLosesNothing

-----------------------------------------------------------------------------
(* What is on its way *)

\* s has u, or u is still to be brought to it, or a fault keeps it from s.
OnItsWay(u, s) == u \in doc[s] \/ Pending(u, s)

\* No step loses an update on its way to a session that is and stays a member.
StaysOnItsWay ==
    [][\A u \in Update : \A s \in Session \ {Author[u]} :
         Member(s) /\ OnItsWay(u, s) /\ Member(s)' => OnItsWay(u, s)']_vars

\* A step that leaves s what it has, the wire of its process what is on it, and
\* the handler of u running or lost.
LEMMA NothingTaken ==
    ASSUME NEW u \in Update, NEW s \in Session, OnItsWay(u, s),
           doc[s] \subseteq doc'[s],
           wire[Home[s]] \subseteq wire'[Home[s]],
           missed[s] \subseteq missed'[s],
           upd[u] \in InUpdate \cup {"lost"} => upd'[u] \in InUpdate \cup {"lost"}
    PROVE  OnItsWay(u, s)'
BY DEF OnItsWay, Pending

\* The safety half of UpdateReachesMembers: an update the server has accepted is
\* on its way to every member, and a step of the join, update, compaction, leave
\* or disconnect handlers, a delivery or a fault never takes it off that way
\* before the member has it, short of cutting its own handler off or of a
\* subscriber that reconnects, which `missed` records.
THEOREM NothingIsDropped == Spec => StaysOnItsWay
<1>1. ASSUME TypeOK, [Next]_vars, NEW u \in Update, NEW s \in Session \ {Author[u]},
             Member(s), OnItsWay(u, s), Member(s)'
      PROVE  OnItsWay(u, s)'
  <2> USE <1>1 DEF client, store, rooms, joining, leaving, updating, bounds
  <2> USE DEF JoinAt, UpdAt, At
  <2>1. CASE UNCHANGED vars
    BY <2>1, NothingTaken DEF vars
  <2>2. ASSUME NEW t \in Session, Open(t) PROVE OnItsWay(u, s)'
    BY <2>2, NothingTaken DEF Open, TypeOK
  <2>3. ASSUME NEW t \in Session, State(t) PROVE OnItsWay(u, s)'
    BY <2>3, NothingTaken DEF State, TypeOK
  <2>4. ASSUME NEW t \in Session, JoinUsers(t) PROVE OnItsWay(u, s)'
    BY <2>4, NothingTaken DEF JoinUsers, TypeOK
  <2>5. ASSUME NEW t \in Session, JoinIndex(t) PROVE OnItsWay(u, s)'
    BY <2>5, NothingTaken DEF JoinIndex, TypeOK
  <2>6. ASSUME NEW t \in Session, JoinRead(t) PROVE OnItsWay(u, s)'
    BY <2>6, NothingTaken DEF JoinRead, TypeOK
  <2>7. ASSUME NEW t \in Session, JoinSend(t) PROVE OnItsWay(u, s)'
    <3>1. wire' = wire /\ missed' = missed /\ upd' = upd
      BY <2>7 DEF JoinSend
    <3>2. doc[s] \subseteq doc'[s]
      BY <2>7 DEF JoinSend, TypeOK
    <3>3. QED
      BY <3>1, <3>2, NothingTaken
  <2>8. ASSUME NEW t \in Session, LeaveUsers(t) PROVE OnItsWay(u, s)'
    BY <2>8, NothingTaken DEF LeaveUsers, TypeOK
  <2>9. ASSUME NEW t \in Session, LeaveIndex(t) PROVE OnItsWay(u, s)'
    BY <2>9, NothingTaken DEF LeaveIndex, TypeOK
  <2>10. ASSUME NEW t \in Session, LeaveExists(t) PROVE OnItsWay(u, s)'
    BY <2>10, NothingTaken DEF LeaveExists, TypeOK
  <2>11. ASSUME NEW t \in Session, LeaveCount(t) PROVE OnItsWay(u, s)'
    BY <2>11, NothingTaken DEF LeaveCount, TypeOK
  <2>12. ASSUME NEW t \in Session, LeaveClear(t) PROVE OnItsWay(u, s)'
    BY <2>12, NothingTaken DEF LeaveClear, TypeOK
  <2>13. ASSUME NEW t \in Session, GoneUsers(t) PROVE OnItsWay(u, s)'
    BY <2>13, NothingTaken DEF GoneUsers, TypeOK
  <2>14. ASSUME NEW t \in Session, GoneCount(t) PROVE OnItsWay(u, s)'
    BY <2>14, NothingTaken DEF GoneCount, TypeOK
  <2>15. ASSUME NEW t \in Session, GoneClear(t) PROVE OnItsWay(u, s)'
    BY <2>15, NothingTaken DEF GoneClear, TypeOK
  <2>16. ASSUME NEW t \in Session, GoneIndex(t) PROVE OnItsWay(u, s)'
    BY <2>16, NothingTaken DEF GoneIndex, TypeOK
  <2>17. ASSUME NEW t \in Session, JoinFails(t) PROVE OnItsWay(u, s)'
    BY <2>17, NothingTaken DEF JoinFails, Fault, TypeOK
  <2>18. ASSUME NEW t \in Session, LeaveFails(t) PROVE OnItsWay(u, s)'
    BY <2>18, NothingTaken DEF LeaveFails, Fault, TypeOK
  <2>19. ASSUME NEW t \in Session, Close(t) PROVE OnItsWay(u, s)'
    <3>1. s # t
      BY <2>19 DEF Close, Member, TypeOK
    <3>2. doc'[s] = doc[s] /\ missed'[s] = missed[s]
      BY <2>19, <3>1 DEF Close, TypeOK
    <3>3. wire' = wire /\ upd' = upd
      BY <2>19 DEF Close
    <3>4. QED
      BY <3>2, <3>3, NothingTaken
  <2>20. ASSUME NEW t \in Session, Disconnect(t) PROVE OnItsWay(u, s)'
    <3>1. s # t
      BY <2>20 DEF Disconnect, Member, TypeOK
    <3>2. doc'[s] = doc[s]
      BY <2>20, <3>1 DEF Disconnect, TypeOK
    <3>3. wire' = wire /\ missed' = missed /\ upd' = upd
      BY <2>20 DEF Disconnect
    <3>4. QED
      BY <3>2, <3>3, NothingTaken
  <2>21. ASSUME NEW t \in Session, Reaped(t) PROVE OnItsWay(u, s)'
    BY <2>21, NothingTaken DEF Reaped, Fault, TypeOK
  <2>22. ASSUME NEW w \in Update, Edit(w) PROVE OnItsWay(u, s)'
    <3>1. doc[s] \subseteq doc'[s]
      BY <2>22 DEF Edit, TypeOK
    <3>2. upd[u] \in InUpdate \cup {"lost"} => upd'[u] = upd[u]
      BY <2>22 DEF Edit, InUpdate, TypeOK
    <3>3. wire' = wire /\ missed' = missed
      BY <2>22 DEF Edit
    <3>4. QED
      BY <3>1, <3>2, <3>3, NothingTaken
  <2>23. ASSUME NEW w \in Update, UpdAppend(w) PROVE OnItsWay(u, s)'
    BY <2>23, NothingTaken DEF UpdAppend, InUpdate, TypeOK
  <2>24. ASSUME NEW w \in Update, Measure(w) PROVE OnItsWay(u, s)'
    BY <2>24, NothingTaken DEF Measure, InUpdate, TypeOK
  <2>25. ASSUME NEW w \in Update, CompactRead(w) PROVE OnItsWay(u, s)'
    BY <2>25, NothingTaken DEF CompactRead, InUpdate, TypeOK
  <2>26. ASSUME NEW w \in Update, CompactWrite(w) PROVE OnItsWay(u, s)'
    BY <2>26, NothingTaken DEF CompactWrite, InUpdate, TypeOK
  <2>27. ASSUME NEW w \in Update, UpdFails(w) PROVE OnItsWay(u, s)'
    BY <2>27, NothingTaken DEF UpdFails, InUpdate, Fault, TypeOK
  <2>28. ASSUME NEW w \in Update, UpdEmit(w) PROVE OnItsWay(u, s)'
    <3>1. CASE w = u /\ Home[s] = Home[Author[u]]
      <4>1. s \in Receivers(Home[Author[u]]) \ {Author[u]}
        BY <3>1 DEF Member, Receivers
      <4>2. u \in doc'[s]
        BY <2>28, <3>1, <4>1 DEF UpdEmit, Emitted
      <4>3. QED
        BY <4>2 DEF OnItsWay
    <3>2. CASE w = u /\ Home[s] # Home[Author[u]]
      <4>1. u \in wire'[Home[s]]
        BY <2>28, <3>2 DEF UpdEmit
      <4>2. QED
        BY <4>1 DEF OnItsWay, Pending
    <3>3. CASE w # u
      <4>1. /\ doc[s] \subseteq doc'[s] /\ wire[Home[s]] \subseteq wire'[Home[s]]
            /\ missed' = missed
        BY <2>28 DEF UpdEmit, Emitted, TypeOK
      <4>2. upd'[u] = upd[u]
        BY <2>28, <3>3 DEF UpdEmit, TypeOK
      <4>3. QED
        BY <4>1, <4>2, NothingTaken
    <3>4. QED
      BY <3>1, <3>2, <3>3
  <2>29. ASSUME NEW p \in Proc, NEW w \in Update, Deliver(p, w) PROVE OnItsWay(u, s)'
    <3>1. CASE w = u /\ p = Home[s]
      <4>1. s \in Receivers(p) \ {Author[w]}
        BY <3>1 DEF Member, Receivers
      <4>2. u \in doc'[s]
        BY <2>29, <3>1, <4>1 DEF Deliver, Emitted
      <4>3. QED
        BY <4>2 DEF OnItsWay
    <3>2. CASE w # u \/ p # Home[s]
      <4>1. doc[s] \subseteq doc'[s] /\ upd' = upd /\ missed' = missed
        BY <2>29 DEF Deliver, Emitted
      <4>2. u \in wire[Home[s]] => u \in wire'[Home[s]]
        BY <2>29, <3>2 DEF Deliver, TypeOK
      <4>3. QED
        BY <4>1, <4>2 DEF OnItsWay, Pending
    <3>3. QED
      BY <3>1, <3>2
  <2>30. ASSUME NEW p \in Proc, Crash(p) PROVE OnItsWay(u, s)'
    <3>1. Home[s] # p
      BY <2>30 DEF Crash, Member
    <3>2. doc'[s] = doc[s] /\ wire'[Home[s]] = wire[Home[s]] /\ missed' = missed
      BY <2>30, <3>1 DEF Crash, TypeOK
    <3>3. upd[u] \in InUpdate \cup {"lost"} => upd'[u] \in InUpdate \cup {"lost"}
      BY <2>30 DEF Crash
    <3>4. QED
      BY <3>2, <3>3, NothingTaken
  <2>31. ASSUME NEW p \in Proc, Reconnect(p) PROVE OnItsWay(u, s)'
    <3>1. PICK lost \in SUBSET wire[p] :
            /\ wire' = [wire EXCEPT ![p] = @ \ lost]
            /\ missed' = [t \in Session |-> IF t \in room /\ Home[t] = p
                                            THEN missed[t] \cup lost ELSE missed[t]]
      BY <2>31 DEF Reconnect
    <3>2. s \in room /\ doc' = doc /\ upd' = upd
      BY <2>31 DEF Reconnect, Member
    <3>3. missed[s] \subseteq missed'[s]
      BY <3>1
    <3>4. u \in wire[Home[s]] => u \in wire'[Home[s]] \cup missed'[s]
      BY <3>1, <3>2 DEF TypeOK
    <3>5. QED
      BY <3>2, <3>3, <3>4 DEF OnItsWay, Pending
  <2> HIDE DEF client, store, rooms, joining, leaving, updating, bounds
  <2> HIDE DEF JoinAt, UpdAt, At
  <2>32. QED
    BY <2>1, <2>2, <2>3, <2>4, <2>5, <2>6, <2>7, <2>8, <2>9, <2>10, <2>11, <2>12, <2>13, <2>14, <2>15, <2>16, <2>17, <2>18, <2>19, <2>20, <2>21, <2>22, <2>23, <2>24, <2>25, <2>26, <2>27, <2>28, <2>29, <2>30, <2>31
       DEF Next, JoinStep, LeaveStep, GoneStep, UpdStep
<1>2. TypeOK /\ [Next]_vars =>
        [\A u \in Update : \A s \in Session \ {Author[u]} :
           Member(s) /\ OnItsWay(u, s) /\ Member(s)' => OnItsWay(u, s)']_vars
  BY <1>1
<1>3. QED
  BY <1>2, TypeCorrect, PTL DEF Spec, StaysOnItsWay

=============================================================================
