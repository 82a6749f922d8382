----------------------------- MODULE Timers_proofs -----------------------------
(***************************************************************************)
(* What holds of the timers for every number of timers, chats, processes   *)
(* and requests.  All but TypeCorrect and OnlyFaultsStrand assume a        *)
(* database with row locks: without them two claims can take the same row. *)
(***************************************************************************)
EXTENDS Timers, TLAPS

USE TimersAssumption DEF TimersAssumption, chats

\* A poll takes claimable timers only.
LEMMA BatchClaimable == Batch \subseteq Claimable /\ Claimable \subseteq Timer
BY DEF Batch, Claimable

\* A new claim id is one of the timer's that no run uses.
LEMMA NewClaimUnused ==
    ASSUME NEW t \in Timer, Unused(t) # {}
    PROVE  NewClaim(t) \in Slot /\ run[t][NewClaim(t)].at = "idle"
<1>1. NewClaim(t) \in Unused(t)
  BY DEF NewClaim
<1>2. QED
  BY <1>1 DEF Unused

\* A run and a row change within their types.
LEMMA RunType ==
    ASSUME run \in [Timer -> [Slot -> Runs]], NEW t \in Timer, NEW k \in Slot,
           NEW r \in Runs
    PROVE  [run EXCEPT ![t][k] = r] \in [Timer -> [Slot -> Runs]]
OBVIOUS

LEMMA StageType ==
    ASSUME NEW r \in Runs, NEW at \in BeforeFire \cup {"idle", "upsert", "post"}
    PROVE  [r EXCEPT !.at = at] \in Runs
BY DEF Runs, InHandler

LEMMA StatusType ==
    ASSUME NEW r \in Rows, NEW s \in {"none", "pending", "running"} \cup Final
    PROVE  [r EXCEPT !.status = s] \in Rows
BY DEF Rows

LEMMA ClaimType ==
    ASSUME NEW r \in Rows, NEW s \in {"none", "pending", "running"} \cup Final,
           NEW c \in Slot \cup {NoClaim}
    PROVE  [r EXCEPT !.status = s, !.claim = c] \in Rows
BY DEF Rows

LEMMA GoType ==
    ASSUME run \in [Timer -> [Slot -> Runs]], NEW t \in Timer, NEW k \in Slot,
           NEW at \in BeforeFire \cup {"idle", "upsert", "post"}
    PROVE  [run EXCEPT ![t][k].at = at] \in [Timer -> [Slot -> Runs]]
<1>1. run[t][k] \in Runs
  OBVIOUS
<1>2. [run[t][k] EXCEPT !.at = at] \in Runs
  BY <1>1, StageType
<1>3. QED
  BY <1>2, RunType

LEMMA AskType ==
    ASSUME NEW r \in Runs, NEW s \in SUBSET Message
    PROVE  [r EXCEPT !.at = "ask", !.seen = s] \in Runs
BY DEF Runs, BeforeFire, InTransaction

\* A copy of the chat is taken, or written back, by a run or by a request.
LEMMA CopyType ==
    ASSUME NEW r \in Runs, NEW at \in InHandler, NEW s \in SUBSET Message
    PROVE  [r EXCEPT !.at = at, !.seen = s] \in Runs
BY DEF Runs

LEMMA SayType ==
    ASSUME NEW r \in Requests, NEW at \in InHandler \cup {"select", "link", "linking"},
           NEW s \in SUBSET Message
    PROVE  [r EXCEPT !.at = at, !.seen = s] \in Requests
BY DEF Requests

LEMMA WriteBackType ==
    ASSUME msgs \in [Chat -> SUBSET Message], NEW c \in Chat,
           NEW copy \in SUBSET Message, NEW added \in SUBSET Message, WriteBack(c, copy, added)
    PROVE  msgs' \in [Chat -> SUBSET Message]
BY DEF WriteBack

\* No step moves a timer to another chat.
LEMMA ParentStays == [Next]_vars => parent' = parent
<1> SUFFICES ASSUME [Next]_vars PROVE parent' = parent
  OBVIOUS
<1>1. ASSUME NEW t \in Timer, Create(t) \/ ComesDue(t) PROVE parent' = parent
  BY <1>1 DEF Create, ComesDue
<1>2. ASSUME NEW p \in Proc, ClaimSelect(p) \/ ClaimCommit(p) \/ Crash(p) PROVE parent' = parent
  BY <1>2 DEF ClaimSelect, ClaimCommit, Crash
<1>3. ASSUME NEW t \in Timer, NEW k \in Slot, RunStep(t, k) \/ RunDies(t, k)
      PROVE  parent' = parent
  <2>1. CASE RunCheck(t, k) \/ RunError(t, k) \/ RunLock(t, k) \/ RunSelect(t, k) \/ RunAsk(t, k)
    BY <2>1 DEF RunCheck, RunError, RunLock, RunSelect, RunAsk
  <2>2. CASE RunRequeue(t, k) \/ RunFire(t, k) \/ RunUpsert(t, k) \/ RunDies(t, k)
    BY <2>2 DEF RunRequeue, RunFire, RunUpsert, RunDies
  <2>3. CASE HandlerRead(t, k) \/ HandlerWrite(t, k) \/ RunStart(t, k)
    BY <2>3 DEF HandlerRead, HandlerWrite, RunStart
  <2>4. QED
    BY <1>3, <2>1, <2>2, <2>3 DEF RunStep
<1>4. ASSUME NEW q \in Request, RequestStep(q) PROVE parent' = parent
  <2>1. CASE Say(q) \/ SayRead(q) \/ SayWrite(q)
    BY <2>1 DEF Say, SayRead, SayWrite
  <2>2. CASE Read(q) \/ CancelSelect(q) \/ CancelCommit(q) \/ Answer(q)
    BY <2>2 DEF Read, CancelSelect, CancelCommit, CancelRows, Answer
  <2>3. QED
    BY <1>4, <2>1, <2>2 DEF RequestStep
<1>5. ASSUME NEW c \in Chat, NEW m \in Message, TaskEnds(c, m) PROVE parent' = parent
  BY <1>5 DEF TaskEnds
<1>6. CASE UNCHANGED vars
  BY <1>6 DEF vars
<1>7. QED
  BY <1>1, <1>2, <1>3, <1>4, <1>5, <1>6 DEF Next

LEMMA NoRunType == NoRun \in Runs
BY DEF NoRun, Runs

\* Every variable keeps its type.
THEOREM TypeCorrect == Spec => []TypeOK
<1>1. Init => TypeOK
  <2> SUFFICES ASSUME Init PROVE TypeOK
    OBVIOUS
  <2>1. [status |-> "none", claim |-> NoClaim, cancelOn |-> {}] \in Rows
    BY DEF Rows
  <2>2. NoBatch \in Batches
    BY DEF NoBatch, Batches
  <2>3. [at |-> "new", event |-> "chat.read", seen |-> {}, rows |-> {}] \in Requests
    BY DEF Requests
  <2>4. row \in [Timer -> Rows] /\ due \in Seq(Timer) /\ claim \in [Proc -> Batches]
    BY <2>1, <2>2 DEF Init
  <2>5. run \in [Timer -> [Slot -> Runs]]
    BY NoRunType DEF Init
  <2>6. req \in [Request -> Requests]
    BY <2>3 DEF Init
  <2>7. /\ parent \in [Timer -> Chat]
        /\ msgs \in [Chat -> SUBSET Message] /\ active \in [Chat -> SUBSET Message]
        /\ fired \in [Timer -> Nat] /\ faults \in 0..MaxFaults
    BY DEF Init
  <2>8. QED
    BY <2>4, <2>5, <2>6, <2>7 DEF TypeOK
<1>2. TypeOK /\ [Next]_vars => TypeOK'
  <2> SUFFICES ASSUME TypeOK, [Next]_vars PROVE TypeOK'
    OBVIOUS
  <2> USE DEF TypeOK
  <2>1. CASE UNCHANGED vars
    BY <2>1 DEF vars
  <2>2. ASSUME NEW t \in Timer, Create(t) PROVE TypeOK'
    <3>1. PICK events \in CancelSets :
            row' = [row EXCEPT ![t] = [@ EXCEPT !.status = "pending", !.cancelOn = events]]
      BY <2>2 DEF Create
    <3>2. [row[t] EXCEPT !.status = "pending", !.cancelOn = events] \in Rows
      <4>1. row[t] \in Rows /\ events \subseteq {"chat.read", "chat.user_message"}
        BY <3>1
      <4> HIDE DEF TypeOK
      <4>2. QED
        BY <4>1 DEF Rows
    <3>3. QED
      BY <2>2, <3>1, <3>2 DEF Create
  <2>3. ASSUME NEW t \in Timer, ComesDue(t) PROVE TypeOK'
    BY <2>3 DEF ComesDue
  <2>4. ASSUME NEW p \in Proc, ClaimSelect(p) PROVE TypeOK'
    <3>1. [held |-> IF RowLocks THEN Claimable ELSE {}, batch |-> Batch] \in Batches
      BY BatchClaimable DEF Batches
    <3>2. QED
      BY <2>4, <3>1 DEF ClaimSelect
  <2>5. ASSUME NEW p \in Proc, ClaimCommit(p) PROVE TypeOK'
    <3>1. NoBatch \in Batches
      BY DEF NoBatch, Batches
    <3>2. \A t \in claim[p].batch \cap Timer :
            [row[t] EXCEPT !.status = "running", !.claim = NewClaim(t)] \in Rows
      BY <2>5, NewClaimUnused, ClaimType DEF ClaimCommit
    <3>3. [NoRun EXCEPT !.at = "spawned", !.proc = p] \in Runs
      BY DEF NoRun, Runs, BeforeFire
    <3>4. \A t \in Timer :
            [run[t] EXCEPT ![NewClaim(t)] = [NoRun EXCEPT !.at = "spawned", !.proc = p]]
              \in [Slot -> Runs]
      BY <3>3
    <3>5. QED
      BY <2>5, <3>1, <3>2, <3>4 DEF ClaimCommit
  <2>6. ASSUME NEW p \in Proc, Crash(p) PROVE TypeOK'
    <3>1. NoBatch \in Batches
      BY DEF NoBatch, Batches
    <3>2. QED
      BY <2>6, <3>1, NoRunType DEF Crash
  <2>7. ASSUME NEW t \in Timer, NEW k \in Slot, RunStep(t, k) \/ RunDies(t, k) PROVE TypeOK'
    <3> USE DEF Go, End
    <3>0. /\ run[t][k] \in Runs
          /\ [run EXCEPT ![t][k] = NoRun] \in [Timer -> [Slot -> Runs]]
          /\ \A at \in BeforeFire \cup {"idle", "upsert", "post"} :
               [run EXCEPT ![t][k].at = at] \in [Timer -> [Slot -> Runs]]
      <4>1. run[t][k] \in Runs
        OBVIOUS
      <4>2. [run EXCEPT ![t][k] = NoRun] \in [Timer -> [Slot -> Runs]]
        BY NoRunType, RunType
      <4>3. ASSUME NEW at \in BeforeFire \cup {"idle", "upsert", "post"}
            PROVE  [run EXCEPT ![t][k].at = at] \in [Timer -> [Slot -> Runs]]
        BY GoType
      <4>4. QED
        BY <4>1, <4>2, <4>3
    <3>1. CASE RunCheck(t, k)
      <4>1. run' \in [Timer -> [Slot -> Runs]]
        <5>1. [run EXCEPT ![t][k].at = "checked"] \in [Timer -> [Slot -> Runs]]
          BY <3>0 DEF BeforeFire
        <5>2. run' = [run EXCEPT ![t][k].at = "checked"] \/ run' = [run EXCEPT ![t][k] = NoRun]
          BY <3>1 DEF RunCheck
        <5>3. QED
          BY <3>0, <5>1, <5>2
      <4>2. QED
        BY <3>1, <4>1 DEF RunCheck
    <3>2. CASE RunError(t, k)
      <4>1. [row[t] EXCEPT !.status = "error"] \in Rows
        BY StatusType DEF Final
      <4>2. row' \in [Timer -> Rows]
        BY <3>2, <4>1 DEF RunError
      <4>3. QED
        BY <3>0, <3>2, <4>2 DEF RunError
    <3>3. CASE RunLock(t, k)
      BY <3>0, <3>3 DEF RunLock, BeforeFire
    <3>4. CASE RunSelect(t, k)
      <4>1. [run[t][k] EXCEPT !.at = "ask", !.seen = msgs[parent[t]]] \in Runs
        BY <3>0, AskType
      <4>2. QED
        BY <3>4, <4>1 DEF RunSelect
    <3>5. CASE RunAsk(t, k)
      BY <3>0, <3>5 DEF RunAsk, BeforeFire, InTransaction
    <3>6. CASE RunRequeue(t, k)
      <4>1. [row[t] EXCEPT !.status = "pending", !.claim = NoClaim] \in Rows
        BY ClaimType
      <4>2. QED
        BY <3>0, <3>6, <4>1 DEF RunRequeue
    <3>7. CASE RunFire(t, k)
      <4>1. run[t][k].seen \cup {t} \in SUBSET Message
        BY <3>0 DEF Runs, Message
      <4>2. QED
        <5>1. row' \in [Timer -> Rows]
          BY <3>7, StatusType DEF RunFire, Final
        <5>2. msgs' \in [Chat -> SUBSET Message] /\ fired' \in [Timer -> Nat]
          BY <3>7, <4>1 DEF RunFire
        <5>3. QED
          BY <3>0, <3>7, <5>1, <5>2 DEF RunFire
    <3>8. CASE RunUpsert(t, k)
      BY <3>0, <3>8 DEF RunUpsert
    <3>9. CASE RunStart(t, k)
      BY <3>0, <3>9 DEF RunStart, Message
    <3>10. CASE RunDies(t, k)
      BY <3>0, <3>10 DEF RunDies
    <3>11. CASE HandlerRead(t, k)
      <4>1. [run[t][k] EXCEPT !.at = "copy", !.seen = msgs[parent[t]]] \in Runs
        BY <3>0, CopyType DEF InHandler
      <4>2. QED
        BY <3>11, <4>1 DEF HandlerRead
    <3>12. CASE HandlerWrite(t, k)
      <4>1. [run[t][k] EXCEPT !.at = "post", !.seen = {}] \in Runs
        BY <3>0, CopyType DEF InHandler
      <4>2. run[t][k].seen \in SUBSET Message /\ {t} \in SUBSET Message /\ parent[t] \in Chat
        BY <3>0 DEF Runs, Message
      <4>3. PICK added \in {{}, {t}} : WriteBack(parent[t], run[t][k].seen, added)
        BY <3>12 DEF HandlerWrite
      <4>4. msgs' \in [Chat -> SUBSET Message]
        <5>1. added \in SUBSET Message
          BY <4>2
        <5>2. QED
          BY <4>2, <4>3, <5>1, WriteBackType
      <4>5. run' \in [Timer -> [Slot -> Runs]]
        BY <3>12, <4>1 DEF HandlerWrite
      <4>6. QED
        BY <3>12, <4>4, <4>5 DEF HandlerWrite
    <3>13. QED
      BY <2>7, <3>1, <3>2, <3>3, <3>4, <3>5, <3>6, <3>7, <3>8, <3>9, <3>10, <3>11, <3>12
         DEF RunStep
  <2>8. ASSUME NEW q \in Request, RequestStep(q) PROVE TypeOK'
    <3>0. req[q] \in Requests
      OBVIOUS
    <3>1. CASE Say(q)
      <4>1. [req[q] EXCEPT !.at = "post", !.event = "chat.user_message"] \in Requests
        BY <3>0 DEF Requests, InHandler
      <4>2. QED
        BY <3>1, <4>1 DEF Say
    <3>2. CASE SayRead(q)
      <4> DEFINE at == IF req[q].at = "post" THEN "copy" ELSE "linking"
      <4>1. [req[q] EXCEPT !.at = at, !.seen = msgs[ChatOf[q]]] \in Requests
        BY <3>0, SayType DEF InHandler
      <4>2. req' = [req EXCEPT ![q] = [req[q] EXCEPT !.at = at, !.seen = msgs[ChatOf[q]]]]
        BY <3>2 DEF SayRead
      <4> HIDE DEF at
      <4>3. req' \in [Request -> Requests]
        BY <4>1, <4>2
      <4>4. QED
        BY <3>2, <4>3 DEF SayRead
    <3>8. CASE SayWrite(q)
      <4>1. PICK to \in InHandler \cup {"select", "link", "linking"}, added \in {{}, {q}} :
              /\ WriteBack(ChatOf[q], req[q].seen, added)
              /\ req' = [req EXCEPT ![q] = [@ EXCEPT !.at = to, !.seen = {}]]
        BY <3>8 DEF SayWrite, PutBack, InHandler
      <4>2. req[q].seen \in SUBSET Message /\ added \in SUBSET Message /\ ChatOf[q] \in Chat
        BY <3>0 DEF Requests, Message
      <4>3. msgs' \in [Chat -> SUBSET Message]
        <5>1. msgs \in [Chat -> SUBSET Message] /\ WriteBack(ChatOf[q], req[q].seen, added)
          BY <4>1
        <5> HIDE DEF TypeOK
        <5>2. QED
          BY <4>2, <5>1, WriteBackType
      <4>4. [req[q] EXCEPT !.at = to, !.seen = {}] \in Requests
        BY <3>0, SayType
      <4>5. req' \in [Request -> Requests]
        BY <4>1, <4>4
      <4>6. QED
        BY <3>8, <4>3, <4>5 DEF SayWrite
    <3>3. CASE Read(q)
      <4>1. [req[q] EXCEPT !.at = "select", !.event = "chat.read"] \in Requests
        BY <3>0 DEF Requests
      <4>2. QED
        BY <3>3, <4>1 DEF Read
    <3>4. CASE CancelSelect(q)
      <4> DEFINE rows == {t \in Timer : /\ parent[t] = ChatOf[q]
                                        /\ row[t].status = "pending"
                                        /\ req[q].event \in row[t].cancelOn}
      <4>1. [req[q] EXCEPT !.at = "cancel", !.rows = rows] \in Requests
        BY <3>0 DEF Requests
      <4>2. QED
        BY <3>4, <4>1 DEF CancelSelect
    <3>5. CASE CancelCommit(q)
      <4>1. [req[q] EXCEPT !.at = IF req[q].event = "chat.read" THEN "done" ELSE "link",
                           !.rows = {}] \in Requests
        BY <3>0 DEF Requests
      <4>2. \A t \in Timer : [row[t] EXCEPT !.status = "cancelled", !.claim = NoClaim] \in Rows
        BY ClaimType DEF Final
      <4>3. QED
        BY <3>5, <4>1, <4>2 DEF CancelCommit, CancelRows
    <3>6. CASE Answer(q)
      <4>1. [req[q] EXCEPT !.at = "done"] \in Requests
        BY <3>0 DEF Requests
      <4>2. req' \in [Request -> Requests]
        BY <3>6, <4>1 DEF Answer
      <4>3. q \in Message
        BY DEF Message
      <4>4. active' \in [Chat -> SUBSET Message]
        BY <3>6, <4>3 DEF Answer
      <4>5. UNCHANGED <<row, due, claim, run, parent, msgs, fired, faults>>
        BY <3>6 DEF Answer
      <4>6. QED
        BY <4>2, <4>4, <4>5
    <3>7. QED
      BY <2>8, <3>1, <3>2, <3>3, <3>4, <3>5, <3>6, <3>8 DEF RequestStep
  <2>9. ASSUME NEW c \in Chat, NEW m \in Message, TaskEnds(c, m) PROVE TypeOK'
    BY <2>9 DEF TaskEnds
  <2>10. QED
    BY <2>1, <2>2, <2>3, <2>4, <2>5, <2>6, <2>7, <2>8, <2>9 DEF Next
<1>3. QED
  BY <1>1, <1>2, PTL DEF Spec

-----------------------------------------------------------------------------
(* With row locks: one run at a time, and one firing. *)

\* A row in a claim's transaction stays pending until its commit.
HeldPending ==
    /\ \A p \in Proc : claim[p].batch \subseteq claim[p].held
    /\ \A p \in Proc : \A t \in claim[p].held : row[t].status = "pending"
    /\ \A p, q \in Proc : p # q => claim[p].held \cap claim[q].held = {}

\* A timer with a run is neither new nor pending, and has no other run.
OneLive ==
    /\ \A t \in Timer : \A j, k \in Slot :
         run[t][j].at # "idle" /\ run[t][k].at # "idle" => j = k
    /\ \A t \in Timer : \A k \in Slot :
         run[t][k].at # "idle" => row[t].status \notin {"none", "pending"}

\* After it has fired a timer is never pending again and no run can fire it.
FiredOver ==
    \A t \in Timer :
        /\ fired[t] <= 1
        /\ fired[t] # 0 => /\ row[t].status \notin {"none", "pending"}
                          /\ \A k \in Slot : run[t][k].at \notin BeforeFire

RunInv == HeldPending /\ OneLive /\ FiredOver

\* What a step of one run does to the stages: it changes that run only, never to
\* "spawned", and to a stage before the firing only from such a stage.
LEMMA RunStepStages ==
    ASSUME TypeOK, NEW t \in Timer, NEW k \in Slot, RunStep(t, k) \/ RunDies(t, k)
    PROVE  /\ run[t][k].at # "idle"
           /\ \A u \in Timer, j \in Slot : <<u, j>> # <<t, k>> => run'[u][j] = run[u][j]
           /\ run'[t][k].at \in BeforeFire => run[t][k].at \in BeforeFire
           /\ claim' = claim
<1> USE DEF TypeOK
<1>1. run[t][k].at # "idle" /\ claim' = claim
  BY DEF RunStep, RunDies, RunCheck, RunError, RunLock, RunSelect, RunAsk, RunRequeue,
         RunFire, RunUpsert, HandlerRead, HandlerWrite, RunStart
<1>2. \/ run' = [run EXCEPT ![t][k] = NoRun]
      \/ run[t][k].at \in BeforeFire /\ \E at : run' = [run EXCEPT ![t][k].at = at]
      \/ run[t][k].at \in BeforeFire /\ \E r : run' = [run EXCEPT ![t][k] = r]
      \/ run' = [run EXCEPT ![t][k].at = "post"]
      \/ \E r \in Runs : r.at \in InHandler /\ run' = [run EXCEPT ![t][k] = r]
  <2>1. CASE RunCheck(t, k) \/ RunError(t, k) \/ RunLock(t, k) \/ RunSelect(t, k) \/ RunAsk(t, k)
    BY <2>1 DEF RunCheck, RunError, RunLock, RunSelect, RunAsk, Go, End, BeforeFire, InTransaction
  <2>2. CASE RunRequeue(t, k) \/ RunFire(t, k)
    BY <2>2 DEF RunRequeue, RunFire, Go, End, BeforeFire, InTransaction
  <2>3. CASE RunUpsert(t, k) \/ RunStart(t, k) \/ RunDies(t, k)
    BY <2>3 DEF RunUpsert, RunStart, RunDies, Go, End
  <2>4. ASSUME NEW at \in InHandler, NEW s \in SUBSET Message,
               run' = [run EXCEPT ![t][k] = [@ EXCEPT !.at = at, !.seen = s]]
        PROVE  \E r \in Runs : r.at \in InHandler /\ run' = [run EXCEPT ![t][k] = r]
    <3> DEFINE r == [run[t][k] EXCEPT !.at = at, !.seen = s]
    <3>1. run[t][k] \in Runs
      OBVIOUS
    <3>2. r \in Runs
      BY <3>1, CopyType
    <3>3. r.at = at
      BY <3>1 DEF Runs
    <3>4. run' = [run EXCEPT ![t][k] = r]
      BY <2>4
    <3> HIDE DEF r
    <3>5. QED
      BY <3>2, <3>3, <3>4
  <2>5. CASE HandlerRead(t, k)
    <3>1. run' = [run EXCEPT ![t][k] = [@ EXCEPT !.at = "copy", !.seen = msgs[parent[t]]]]
      BY <2>5 DEF HandlerRead
    <3>2. "copy" \in InHandler /\ msgs[parent[t]] \in SUBSET Message
      BY DEF InHandler
    <3>3. \E r \in Runs : r.at \in InHandler /\ run' = [run EXCEPT ![t][k] = r]
      BY <2>4, <3>1, <3>2
    <3>4. QED
      BY <3>3
  <2>6. CASE HandlerWrite(t, k)
    <3>1. run' = [run EXCEPT ![t][k] = [@ EXCEPT !.at = "post", !.seen = {}]]
      BY <2>6 DEF HandlerWrite
    <3>2. "post" \in InHandler /\ {} \in SUBSET Message
      BY DEF InHandler
    <3>3. \E r \in Runs : r.at \in InHandler /\ run' = [run EXCEPT ![t][k] = r]
      BY <2>4, <3>1, <3>2
    <3>4. QED
      BY <3>3
  <2>7. QED
    BY <2>1, <2>2, <2>3, <2>5, <2>6 DEF RunStep
<1>3. \A u \in Timer, j \in Slot : <<u, j>> # <<t, k>> => run'[u][j] = run[u][j]
  BY <1>2
<1>4. run'[t][k].at \in BeforeFire => run[t][k].at \in BeforeFire
  BY <1>2 DEF NoRun, BeforeFire, InTransaction, InHandler, Runs
<1>5. QED
  BY <1>1, <1>3, <1>4

\* What a step of one run does to the row of its timer.
LEMMA RunStepRow ==
    ASSUME TypeOK, NEW t \in Timer, NEW k \in Slot, RunStep(t, k) \/ RunDies(t, k)
    PROVE  /\ \A u \in Timer \ {t} : row'[u] = row[u] /\ fired'[u] = fired[u]
           /\ \/ row'[t].status = row[t].status /\ fired'[t] = fired[t]
              \/ row'[t].status = "error" /\ fired'[t] = fired[t]
              \/ /\ row'[t].status = "pending" /\ fired'[t] = fired[t]
                 /\ run[t][k].at \in BeforeFire /\ run'[t][k].at = "idle"
              \/ /\ row'[t].status = "completed" /\ fired'[t] = fired[t] + 1
                 /\ run[t][k].at \in BeforeFire /\ run'[t][k].at = "upsert"
<1> USE DEF TypeOK
<1>1. CASE row' = row /\ fired' = fired
  BY <1>1
<1>2. CASE RunError(t, k)
  BY <1>2 DEF RunError, Rows
<1>3. CASE RunRequeue(t, k)
  BY <1>3 DEF RunRequeue, End, NoRun, BeforeFire, InTransaction, Rows
<1>4. CASE RunFire(t, k)
  <2>1. run'[t][k].at = "upsert" /\ run[t][k].at \in BeforeFire
    BY <1>4 DEF RunFire, Go, BeforeFire, InTransaction, Runs
  <2>2. row' = [row EXCEPT ![t].status = "completed"] /\ fired' = [fired EXCEPT ![t] = @ + 1]
    BY <1>4 DEF RunFire
  <2>3. row'[t].status = "completed" /\ fired'[t] = fired[t] + 1
    BY <2>2 DEF Rows
  <2>4. QED
    BY <2>1, <2>2, <2>3
<1>5. RunError(t, k) \/ RunRequeue(t, k) \/ RunFire(t, k) \/ (row' = row /\ fired' = fired)
  <2>1. CASE RunCheck(t, k) \/ RunLock(t, k) \/ RunSelect(t, k) \/ RunAsk(t, k)
    BY <2>1 DEF RunCheck, RunLock, RunSelect, RunAsk
  <2>2. CASE RunUpsert(t, k) \/ HandlerRead(t, k) \/ HandlerWrite(t, k) \/ RunStart(t, k)
             \/ RunDies(t, k)
    BY <2>2 DEF RunUpsert, HandlerRead, HandlerWrite, RunStart, RunDies
  <2>3. QED
    BY <2>1, <2>2 DEF RunStep
<1>6. QED
  BY <1>1, <1>2, <1>3, <1>4, <1>5

LEMMA HeldTimers == TypeOK => \A p \in Proc : claim[p].held \subseteq Timer
BY DEF TypeOK, Batches

LEMMA HeldKept ==
    ASSUME HeldPending, claim' = claim,
           \A p \in Proc : \A t \in claim[p].held : row'[t].status = "pending"
    PROVE  HeldPending'
BY DEF HeldPending

LEMMA RunInvInit == Init => RunInv
BY DEF Init, RunInv, HeldPending, OneLive, FiredOver, NoBatch, NoRun

\* The steps of a run keep the invariant.
LEMMA RunInvRun ==
    ASSUME TypeOK, RunInv, NEW t \in Timer, NEW k \in Slot, RunStep(t, k) \/ RunDies(t, k)
    PROVE  RunInv'
<1> USE DEF RunInv
<1>1. /\ run[t][k].at # "idle"
      /\ \A u \in Timer, j \in Slot : <<u, j>> # <<t, k>> => run'[u][j] = run[u][j]
      /\ run'[t][k].at \in BeforeFire => run[t][k].at \in BeforeFire
      /\ claim' = claim
  BY RunStepStages
<1>2. /\ \A u \in Timer \ {t} : row'[u] = row[u] /\ fired'[u] = fired[u]
      /\ \/ row'[t].status = row[t].status /\ fired'[t] = fired[t]
         \/ row'[t].status = "error" /\ fired'[t] = fired[t]
         \/ /\ row'[t].status = "pending" /\ fired'[t] = fired[t]
            /\ run[t][k].at \in BeforeFire /\ run'[t][k].at = "idle"
         \/ /\ row'[t].status = "completed" /\ fired'[t] = fired[t] + 1
            /\ run[t][k].at \in BeforeFire /\ run'[t][k].at = "upsert"
  BY RunStepRow
<1>3. row[t].status \notin {"none", "pending"} /\ \A j \in Slot \ {k} : run[t][j].at = "idle"
  BY <1>1 DEF OneLive
<1>4. HeldPending'
  <2>1. \A p \in Proc : \A u \in claim[p].held : u \in Timer \ {t} /\ row[u].status = "pending"
    BY <1>3, HeldTimers DEF HeldPending
  <2>2. \A p \in Proc : \A u \in claim[p].held : row'[u].status = "pending"
    BY <1>2, <2>1
  <2>3. QED
    BY <1>1, <2>2, HeldKept
<1>5. OneLive'
  <2>1. \A j \in Slot \ {k} : run'[t][j].at = "idle"
    BY <1>1, <1>3
  <2>2. run'[t][k].at # "idle" => row'[t].status \notin {"none", "pending"}
    BY <1>2, <1>3
  <2>3. \A u \in Timer \ {t} : row'[u] = row[u] /\ \A j \in Slot : run'[u][j] = run[u][j]
    BY <1>1, <1>2
  <2>4. QED
    BY <2>1, <2>2, <2>3 DEF OneLive
<1>6. FiredOver'
  <2>1. ASSUME NEW u \in Timer, u # t
        PROVE  /\ fired'[u] <= 1
               /\ fired'[u] # 0 => /\ row'[u].status \notin {"none", "pending"}
                                  /\ \A j \in Slot : run'[u][j].at \notin BeforeFire
    BY <1>1, <1>2, <2>1 DEF FiredOver
  <2>2. /\ fired'[t] <= 1
        /\ fired'[t] # 0 => /\ row'[t].status \notin {"none", "pending"}
                           /\ \A j \in Slot : run'[t][j].at \notin BeforeFire
    <3>1. run[t][k].at \in BeforeFire => fired[t] = 0
      BY DEF FiredOver
    <3>2. \A j \in Slot \ {k} : run'[t][j].at \notin BeforeFire
      BY <1>1, <1>3 DEF BeforeFire, InTransaction
    <3>3. CASE run'[t][k].at = "upsert" /\ fired'[t] = fired[t] + 1 /\ run[t][k].at \in BeforeFire
               /\ row'[t].status = "completed"
      BY <3>1, <3>2, <3>3 DEF BeforeFire, InTransaction
    <3>4. CASE fired'[t] = fired[t] /\ run[t][k].at \in BeforeFire
      BY <3>1, <3>4
    <3>5. CASE fired'[t] = fired[t] /\ run[t][k].at \notin BeforeFire
      BY <1>1, <1>2, <1>3, <3>2, <3>5 DEF FiredOver
    <3>6. QED
      BY <1>2, <3>3, <3>4, <3>5
  <2>3. QED
    BY <2>1, <2>2 DEF FiredOver
<1>7. QED
  BY <1>4, <1>5, <1>6

\* The two steps of a claim keep the invariant: the select takes unlocked pending
\* rows, and until the commit their status and their runs stay as they are.
LEMMA RunInvClaim ==
    ASSUME RowLocks, TypeOK, RunInv, NEW p \in Proc,
           ClaimSelect(p) \/ ClaimCommit(p) \/ Crash(p)
    PROVE  RunInv'
<1> USE DEF RunInv
<1>1. CASE ClaimSelect(p)
  <2>1. /\ claim' = [claim EXCEPT ![p] = [held |-> Claimable, batch |-> Batch]]
        /\ row' = row /\ run' = run /\ fired' = fired
    BY <1>1 DEF ClaimSelect
  <2>2. \A t \in Claimable : /\ t \in Timer /\ row[t].status = "pending"
                            /\ \A q \in Proc : t \notin claim[q].held
    BY DEF Claimable, Locked
  <2>3. /\ claim'[p].held = Claimable /\ claim'[p].batch = Batch
        /\ \A q \in Proc \ {p} : claim'[q] = claim[q]
    BY <2>1 DEF TypeOK
  <2>4. HeldPending'
    BY <2>1, <2>2, <2>3, BatchClaimable DEF HeldPending
  <2>5. QED
    BY <2>1, <2>4 DEF OneLive, FiredOver
<1>2. CASE ClaimCommit(p)
  <2> DEFINE batch == claim[p].batch
  <2>1. /\ \A t \in Timer \cap batch :
             /\ row'[t] = [row[t] EXCEPT !.status = "running", !.claim = NewClaim(t)]
             /\ run'[t] = [run[t] EXCEPT ![NewClaim(t)] =
                                  [NoRun EXCEPT !.at = "spawned", !.proc = p]]
        /\ \A t \in Timer \ batch : row'[t] = row[t] /\ run'[t] = run[t]
        /\ claim' = [claim EXCEPT ![p] = NoBatch] /\ fired' = fired
    BY <1>2 DEF ClaimCommit
  <2>2. \A t \in Timer \cap batch : /\ row[t].status = "pending" /\ fired[t] = 0
                                  /\ \A j \in Slot : run[t][j].at = "idle"
    <3>1. \A t \in Timer \cap batch : row[t].status = "pending"
      BY DEF HeldPending
    <3>2. \A t \in Timer \cap batch : \A j \in Slot : run[t][j].at = "idle"
      BY <3>1 DEF OneLive
    <3>3. \A t \in Timer \cap batch : fired[t] = 0
      BY <3>1 DEF FiredOver
    <3>4. QED
      BY <3>1, <3>2, <3>3
  <2>3. \A t \in Timer \cap batch :
          /\ row'[t].status = "running"
          /\ \A j \in Slot : j # NewClaim(t) => run'[t][j].at = "idle"
    <3> SUFFICES ASSUME NEW t \in Timer \cap batch
                 PROVE  /\ row'[t].status = "running"
                        /\ \A j \in Slot : j # NewClaim(t) => run'[t][j].at = "idle"
      OBVIOUS
    <3>1. row[t] \in Rows /\ run[t] \in [Slot -> Runs]
      BY DEF TypeOK
    <3>2. row'[t].status = "running"
      <4>1. row'[t] = [row[t] EXCEPT !.status = "running", !.claim = NewClaim(t)]
        BY <2>1
      <4>2. QED
        BY <3>1, <4>1 DEF Rows
    <3>3. \A j \in Slot : j # NewClaim(t) => run'[t][j] = run[t][j]
      BY <2>1, <3>1
    <3>4. QED
      BY <2>2, <3>2, <3>3
  <2>4. /\ claim'[p].held = {} /\ claim'[p].batch = {}
        /\ \A q \in Proc \ {p} : claim'[q] = claim[q] /\ claim[q].held \cap batch = {}
    <3>1. claim'[p] = NoBatch /\ \A q \in Proc \ {p} : claim'[q] = claim[q]
      BY <2>1 DEF TypeOK
    <3>2. \A q \in Proc \ {p} : claim[q].held \cap batch = {}
      BY DEF HeldPending
    <3>3. QED
      BY <3>1, <3>2 DEF NoBatch
  <2>5. HeldPending'
    <3>1. \A q \in Proc : claim'[q].batch \subseteq claim'[q].held
      BY <2>4 DEF HeldPending
    <3>2. \A q \in Proc : \A t \in claim'[q].held : t \in Timer \ batch /\ t \in claim[q].held
      BY <2>4, HeldTimers
    <3>3. ASSUME NEW q \in Proc, NEW t \in claim'[q].held PROVE row'[t].status = "pending"
      <4>1. row[t].status = "pending"
        BY <3>2 DEF HeldPending
      <4>2. row'[t] = row[t]
        BY <2>1, <3>2
      <4>3. QED
        BY <4>1, <4>2
    <3>4. \A q, r \in Proc : q # r => claim'[q].held \cap claim'[r].held = {}
      BY <2>4 DEF HeldPending
    <3>5. QED
      BY <3>1, <3>3, <3>4 DEF HeldPending
  <2>6. OneLive'
    <3>1. ASSUME NEW t \in Timer, t \in batch
          PROVE  /\ \A j, k \in Slot : run'[t][j].at # "idle" /\ run'[t][k].at # "idle" => j = k
                 /\ row'[t].status \notin {"none", "pending"}
      BY <2>3, <3>1
    <3>2. ASSUME NEW t \in Timer, t \notin batch
          PROVE  row'[t] = row[t] /\ run'[t] = run[t]
      BY <2>1, <3>2
    <3>3. QED
      BY <3>1, <3>2 DEF OneLive
  <2>7. FiredOver'
    BY <2>1, <2>2 DEF FiredOver
  <2>8. QED
    BY <2>5, <2>6, <2>7
<1>3. CASE Crash(p)
  <2>1. /\ \A t \in Timer, j \in Slot : run'[t][j].at = "idle" \/ run'[t][j] = run[t][j]
        /\ row' = row /\ fired' = fired
        /\ claim' = [claim EXCEPT ![p] = NoBatch]
    BY <1>3 DEF Crash, NoRun
  <2>2. HeldPending'
    BY <2>1 DEF HeldPending, NoBatch, TypeOK
  <2>3. OneLive'
    BY <2>1 DEF OneLive
  <2>4. FiredOver'
    BY <2>1 DEF FiredOver, BeforeFire, InTransaction
  <2>5. QED
    BY <2>2, <2>3, <2>4
<1>4. QED
  BY <1>1, <1>2, <1>3

\* A cancel waits for the row locks, so it changes no row a claim holds.
LEMMA RunInvCancel ==
    ASSUME RowLocks, TypeOK, RunInv, NEW q \in Request, CancelCommit(q)
    PROVE  RunInv'
<1> USE DEF RunInv
<1>1. /\ \A t \in Timer :
            \/ row'[t] = row[t]
            \/ row'[t].status = "cancelled" /\ \A p \in Proc : t \notin claim[p].held
      /\ claim' = claim /\ run' = run /\ fired' = fired
  <2>1. /\ \A t \in Timer : row'[t] = IF t \in req[q].rows
                                  THEN [row[t] EXCEPT !.status = "cancelled", !.claim = NoClaim]
                                  ELSE row[t]
        /\ \A t \in req[q].rows : ~Locked(t)
        /\ claim' = claim /\ run' = run /\ fired' = fired
    BY DEF CancelCommit, CancelRows
  <2>2. \A t \in Timer : [row[t] EXCEPT !.status = "cancelled", !.claim = NoClaim].status = "cancelled"
    BY DEF TypeOK, Rows
  <2>3. \A t \in req[q].rows : \A p \in Proc : t \notin claim[p].held
    BY <2>1 DEF Locked
  <2>4. ASSUME NEW t \in Timer
        PROVE  \/ row'[t] = row[t]
               \/ row'[t].status = "cancelled" /\ \A p \in Proc : t \notin claim[p].held
    <3>1. CASE t \in req[q].rows
      <4>1. row'[t] = [row[t] EXCEPT !.status = "cancelled", !.claim = NoClaim]
        BY <2>1, <3>1
      <4>2. QED
        BY <2>2, <2>3, <3>1, <4>1
    <3>2. CASE t \notin req[q].rows
      BY <2>1, <3>2
    <3>3. QED
      BY <3>1, <3>2
  <2>5. claim' = claim /\ run' = run /\ fired' = fired
    BY <2>1
  <2>6. QED
    BY <2>4, <2>5
<1>2. HeldPending'
  <2>1. \A p \in Proc : \A t \in claim[p].held : row'[t].status = "pending"
    BY <1>1, HeldTimers DEF HeldPending
  <2>2. QED
    BY <1>1, <2>1, HeldKept
<1>3. OneLive' /\ FiredOver'
  BY <1>1 DEF OneLive, FiredOver
<1>4. QED
  BY <1>2, <1>3

THEOREM RunInvHolds ==
    ASSUME RowLocks
    PROVE  Spec => []RunInv
<1>1. TypeOK /\ RunInv /\ [Next]_vars => RunInv'
  <2> SUFFICES ASSUME TypeOK, RunInv, [Next]_vars PROVE RunInv'
    OBVIOUS
  <2>1. CASE UNCHANGED <<row, run, claim, fired>>
    BY <2>1 DEF RunInv, HeldPending, OneLive, FiredOver
  <2>2. ASSUME NEW t \in Timer, Create(t) PROVE RunInv'
    <3>1. /\ row[t].status = "none" /\ row'[t].status = "pending"
          /\ \A u \in Timer \ {t} : row'[u] = row[u]
          /\ run' = run /\ claim' = claim /\ fired' = fired
      BY <2>2 DEF Create, TypeOK, Rows
    <3>2. HeldPending'
      <4>1. \A p \in Proc : \A u \in claim[p].held : u \in Timer \ {t} /\ row[u].status = "pending"
        BY <3>1, HeldTimers DEF RunInv, HeldPending
      <4>2. \A p \in Proc : \A u \in claim[p].held : row'[u].status = "pending"
        BY <3>1, <4>1
      <4>3. QED
        BY <3>1, <4>2, HeldKept DEF RunInv
    <3>3. OneLive'
      BY <3>1 DEF RunInv, OneLive
    <3>4. FiredOver'
      BY <3>1 DEF RunInv, FiredOver
    <3>5. QED
      BY <3>2, <3>3, <3>4 DEF RunInv
  <2>3. ASSUME NEW p \in Proc, ClaimSelect(p) \/ ClaimCommit(p) \/ Crash(p) PROVE RunInv'
    BY <2>3, RunInvClaim
  <2>4. ASSUME NEW t \in Timer, NEW k \in Slot, RunStep(t, k) \/ RunDies(t, k) PROVE RunInv'
    BY <2>4, RunInvRun
  <2>5. ASSUME NEW q \in Request, CancelCommit(q) PROVE RunInv'
    BY <2>5, RunInvCancel
  <2>6. ASSUME NEW t \in Timer, ComesDue(t) PROVE RunInv'
    BY <2>1, <2>6 DEF ComesDue
  <2>7. ASSUME NEW q \in Request,
               \/ Say(q) \/ SayRead(q) \/ SayWrite(q) \/ Read(q) \/ CancelSelect(q) \/ Answer(q)
        PROVE  RunInv'
    BY <2>1, <2>7 DEF Say, SayRead, SayWrite, Read, CancelSelect, Answer
  <2>8. ASSUME NEW c \in Chat, NEW m \in Message, TaskEnds(c, m) PROVE RunInv'
    BY <2>1, <2>8 DEF TaskEnds
  <2>9. CASE UNCHANGED vars
    BY <2>1, <2>9 DEF vars
  <2>10. QED
    BY <2>2, <2>3, <2>4, <2>5, <2>6, <2>7, <2>8, <2>9 DEF Next, RequestStep
<1>2. QED
  BY <1>1, RunInvInit, TypeCorrect, PTL DEF Spec

\* With row locks a timer has one run at a time, however many processes poll.
THEOREM OneRunHolds ==
    ASSUME RowLocks
    PROVE  Spec => []OneRun
<1>1. RunInv => OneRun
  BY DEF RunInv, OneLive, OneRun, Live
<1>2. QED
  BY <1>1, RunInvHolds, PTL

\* With row locks a timer fires at most once.
THEOREM FiresOnceHolds ==
    ASSUME RowLocks
    PROVE  Spec => []FiresOnce
<1>1. RunInv => FiresOnce
  BY DEF RunInv, FiredOver, FiresOnce
<1>2. QED
  BY <1>1, RunInvHolds, PTL

\* With row locks a cancelled timer that no run holds stays cancelled.
THEOREM CancelledStaysHolds ==
    ASSUME RowLocks
    PROVE  Spec => CancelledStays
<1> DEFINE Stays(t) == row[t].status = "cancelled" /\ Live(t) = {}
                         => row'[t].status = "cancelled"
<1>1. TypeOK /\ RunInv /\ [Next]_vars => [\A t \in Timer : Stays(t)]_vars
  <2> SUFFICES ASSUME TypeOK, RunInv, Next, NEW t \in Timer, row[t].status = "cancelled",
                      Live(t) = {}
               PROVE  row'[t].status = "cancelled"
    OBVIOUS
  <2>1. CASE row' = row
    BY <2>1
  <2>2. ASSUME NEW u \in Timer, Create(u) PROVE row'[t].status = "cancelled"
    <3>1. u # t
      BY <2>2 DEF Create
    <3>2. row'[t] = row[t]
      BY <2>2, <3>1 DEF Create, TypeOK
    <3>3. QED
      BY <3>2
  <2>3. ASSUME NEW p \in Proc, ClaimCommit(p) PROVE row'[t].status = "cancelled"
    <3>1. t \notin claim[p].batch
      BY DEF RunInv, HeldPending
    <3>2. row'[t] = row[t]
      BY <2>3, <3>1 DEF ClaimCommit
    <3>3. QED
      BY <3>2
  <2>4. ASSUME NEW u \in Timer, NEW k \in Slot, RunStep(u, k) \/ RunDies(u, k)
        PROVE  row'[t].status = "cancelled"
    <3>1. u # t
      BY <2>4, RunStepStages DEF Live
    <3>2. row'[t] = row[t]
      BY <2>4, <3>1, RunStepRow
    <3>3. QED
      BY <3>2
  <2>5. ASSUME NEW q \in Request, CancelCommit(q) PROVE row'[t].status = "cancelled"
    <3>1. \/ row'[t] = row[t]
          \/ row'[t] = [row[t] EXCEPT !.status = "cancelled", !.claim = NoClaim]
      BY <2>5 DEF CancelCommit, CancelRows
    <3>2. row[t] \in Rows
      BY DEF TypeOK
    <3>3. [row[t] EXCEPT !.status = "cancelled", !.claim = NoClaim].status = "cancelled"
      BY <3>2 DEF Rows
    <3>4. QED
      BY <3>1, <3>3
  <2>6. ASSUME NEW p \in Proc, ClaimSelect(p) \/ Crash(p) PROVE row' = row
    BY <2>6 DEF ClaimSelect, Crash
  <2>7. ASSUME NEW q \in Request,
               \/ Say(q) \/ SayRead(q) \/ SayWrite(q) \/ Read(q) \/ CancelSelect(q) \/ Answer(q)
        PROVE  row' = row
    BY <2>7 DEF Say, SayRead, SayWrite, Read, CancelSelect, Answer
  <2>8. ASSUME NEW c \in Chat, NEW m \in Message, TaskEnds(c, m) PROVE row' = row
    BY <2>8 DEF TaskEnds
  <2>9. ASSUME NEW u \in Timer, ComesDue(u) PROVE row' = row
    BY <2>9 DEF ComesDue
  <2>10. QED
    BY <2>1, <2>2, <2>3, <2>4, <2>5, <2>6, <2>7, <2>8, <2>9 DEF Next, RequestStep
<1>2. QED
  BY <1>1, TypeCorrect, RunInvHolds, PTL DEF Spec, CancelledStays

-----------------------------------------------------------------------------
(* With row locks: the history a run writes back is the one it has read. *)

InT(t, k) == run[t][k].at \in InTransaction

SeenInv ==
    /\ \A t \in Timer, k \in Slot : InT(t, k) => run[t][k].seen = msgs[parent[t]]
    /\ \A t, u \in Timer : \A j, k \in Slot :
         InT(t, j) /\ InT(u, k) /\ parent[t] = parent[u] => t = u /\ j = k

\* Nobody enters a transaction and no history changes under one.
LEMMA SeenKept ==
    ASSUME SeenInv, parent' = parent,
           \A t \in Timer, k \in Slot : InT(t, k)' =>
               /\ InT(t, k) /\ run'[t][k].seen = run[t][k].seen
               /\ msgs'[parent[t]] = msgs[parent[t]]
    PROVE  SeenInv'
BY DEF SeenInv

LEMMA SeenRun ==
    ASSUME RowLocks, TypeOK, SeenInv, NEW t \in Timer, NEW k \in Slot,
           RunStep(t, k) \/ RunDies(t, k)
    PROVE  SeenInv'
<1>p. parent' = parent
  BY ParentStays DEF Next
<1>0. \A u \in Timer, j \in Slot : <<u, j>> # <<t, k>> => run'[u][j] = run[u][j]
  BY RunStepStages
<1>r. run[t][k] \in Runs
  BY DEF TypeOK
<1>1. CASE RunSelect(t, k)
  <2>1. /\ run'[t][k].seen = msgs[parent[t]] /\ msgs' = msgs
        /\ \A u \in Timer, j \in Slot : parent[u] = parent[t] => ~InT(u, j)
    BY <1>1, <1>r DEF RunSelect, ChatLocked, InT, TypeOK, Runs
  <2>2. QED
    BY <1>0, <1>p, <2>1 DEF SeenInv, InT
<1>2. CASE RunFire(t, k)
  <2>1. ~InT(t, k)' /\ InT(t, k)
    BY <1>2, <1>r DEF RunFire, Go, InT, TypeOK, Runs, InTransaction
  <2>2. \A u \in Timer, j \in Slot : InT(u, j)' =>
          InT(u, j) /\ run'[u][j].seen = run[u][j].seen /\ parent[u] # parent[t]
    BY <1>0, <2>1 DEF InT, SeenInv
  <2>3. \A u \in Timer : parent[u] # parent[t] => msgs'[parent[u]] = msgs[parent[u]]
    BY <1>2 DEF RunFire, TypeOK
  <2>4. QED
    BY <1>p, <2>2, <2>3, SeenKept
<1>3. CASE RunAsk(t, k)
  <2>1. /\ InT(t, k) /\ run'[t][k].seen = run[t][k].seen /\ msgs' = msgs
    BY <1>3, <1>r DEF RunAsk, Go, InT, TypeOK, Runs, InTransaction
  <2>2. QED
    BY <1>0, <1>p, <2>1, SeenKept DEF InT
<1>4. CASE RunCheck(t, k) \/ RunError(t, k) \/ RunLock(t, k) \/ RunRequeue(t, k)
           \/ RunUpsert(t, k) \/ HandlerRead(t, k) \/ RunStart(t, k) \/ RunDies(t, k)
  <2>1. msgs' = msgs
    BY <1>4 DEF RunCheck, RunError, RunLock, RunRequeue, RunUpsert, HandlerRead, RunStart, RunDies
  <2>2. \/ run' = [run EXCEPT ![t][k] = NoRun]
        \/ \E at \in {"checked", "select", "post"} : run' = [run EXCEPT ![t][k].at = at]
        \/ run' = [run EXCEPT ![t][k] = [@ EXCEPT !.at = "copy", !.seen = msgs[parent[t]]]]
    <3>1. CASE RunCheck(t, k) \/ RunError(t, k) \/ RunLock(t, k) \/ RunRequeue(t, k)
      BY <3>1 DEF RunCheck, RunError, RunLock, RunRequeue, Go, End
    <3>2. CASE RunUpsert(t, k) \/ HandlerRead(t, k) \/ RunStart(t, k) \/ RunDies(t, k)
      BY <3>2 DEF RunUpsert, HandlerRead, RunStart, RunDies, Go, End
    <3>3. QED
      BY <1>4, <3>1, <3>2
  <2>3. ~InT(t, k)'
    <3>1. \A u \in Timer, j \in Slot : InT(u, j)' <=> run'[u][j].at \in InTransaction
      BY DEF InT
    <3>2. CASE run' = [run EXCEPT ![t][k] = NoRun]
      <4>1. run'[t][k] = NoRun
        BY <3>2 DEF TypeOK
      <4>2. QED
        BY <3>1, <4>1 DEF InTransaction, NoRun
    <3>3. ASSUME NEW at \in {"checked", "select", "post"}, run' = [run EXCEPT ![t][k].at = at]
          PROVE  ~InT(t, k)'
      <4>1. run'[t][k] = [run[t][k] EXCEPT !.at = at]
        BY <3>3 DEF TypeOK
      <4>2. run'[t][k].at = at
        BY <1>r, <4>1 DEF Runs
      <4>3. QED
        BY <3>1, <4>2 DEF InTransaction
    <3>4. CASE run' = [run EXCEPT ![t][k] = [@ EXCEPT !.at = "copy", !.seen = msgs[parent[t]]]]
      <4>1. run'[t][k] = [run[t][k] EXCEPT !.at = "copy", !.seen = msgs[parent[t]]]
        BY <3>4 DEF TypeOK
      <4>2. run'[t][k].at = "copy"
        BY <1>r, <4>1 DEF Runs
      <4>3. QED
        BY <3>1, <4>2 DEF InTransaction
    <3>5. QED
      BY <2>2, <3>2, <3>3, <3>4
  <2>4. QED
    BY <1>0, <1>p, <2>1, <2>3, SeenKept DEF InT
<1>5. CASE HandlerWrite(t, k)
  <2>1. \A u \in Timer, j \in Slot : InT(u, j) => parent[u] # parent[t]
    BY <1>5 DEF HandlerWrite, WriteBack, ChatLocked, InT
  <2>2. ~InT(t, k)'
    BY <1>5, <1>r DEF HandlerWrite, InT, InTransaction, TypeOK, Runs
  <2>3. \A u \in Timer : parent[u] # parent[t] => msgs'[parent[u]] = msgs[parent[u]]
    BY <1>5 DEF HandlerWrite, WriteBack, TypeOK
  <2>4. QED
    BY <1>0, <1>p, <2>1, <2>2, <2>3, SeenKept DEF InT
<1>6. QED
  BY <1>1, <1>2, <1>3, <1>4, <1>5 DEF RunStep

THEOREM SeenInvHolds ==
    ASSUME RowLocks
    PROVE  Spec => []SeenInv
<1>1. Init => SeenInv
  BY DEF Init, SeenInv, InT, InTransaction, NoRun
<1>2. TypeOK /\ RunInv /\ SeenInv /\ [Next]_vars => SeenInv'
  <2> SUFFICES ASSUME TypeOK, RunInv, SeenInv, [Next]_vars PROVE SeenInv'
    OBVIOUS
  <2>0. parent' = parent
    BY ParentStays
  <2>1. CASE UNCHANGED <<run, msgs>>
    BY <2>0, <2>1 DEF SeenInv, InT
  <2>2. ASSUME NEW t \in Timer, NEW k \in Slot, RunStep(t, k) \/ RunDies(t, k) PROVE SeenInv'
    BY <2>2, SeenRun
  <2>3. ASSUME NEW p \in Proc, ClaimCommit(p) PROVE SeenInv'
    <3>1. ASSUME NEW t \in Timer, NEW k \in Slot, InT(t, k)' PROVE run'[t][k] = run[t][k]
      <4>1. run[t] \in [Slot -> Runs]
        BY DEF TypeOK
      <4>2. \/ run'[t] = run[t]
            \/ run'[t] = [run[t] EXCEPT ![NewClaim(t)] = [NoRun EXCEPT !.at = "spawned", !.proc = p]]
        BY <2>3 DEF ClaimCommit
      <4>3. run'[t][k] = run[t][k] \/ run'[t][k].at = "spawned"
        <5> DEFINE n == NewClaim(t)
                   new == [NoRun EXCEPT !.at = "spawned", !.proc = p]
        <5>1. new.at = "spawned"
          BY DEF NoRun
        <5>2. run'[t] = run[t] \/ run'[t] = [run[t] EXCEPT ![n] = new]
          BY <4>2
        <5> HIDE DEF n, new
        <5>3. QED
          BY <4>1, <5>1, <5>2
      <4>4. QED
        BY <3>1, <4>3 DEF InT, InTransaction
    <3>2. msgs' = msgs
      BY <2>3 DEF ClaimCommit
    <3>3. QED
      BY <2>0, <3>1, <3>2, SeenKept DEF InT
  <2>4. ASSUME NEW p \in Proc, Crash(p) PROVE SeenInv'
    <3>1. \A t \in Timer, k \in Slot : run'[t][k] = NoRun \/ run'[t][k] = run[t][k]
      BY <2>4 DEF Crash
    <3>2. msgs' = msgs
      BY <2>4 DEF Crash
    <3>3. QED
      BY <2>0, <3>1, <3>2, SeenKept DEF InT, InTransaction, NoRun
  <2>5. ASSUME NEW q \in Request, SayWrite(q) PROVE SeenInv'
    <3>1. run' = run /\ \E added : WriteBack(ChatOf[q], req[q].seen, added)
      BY <2>5 DEF SayWrite, PutBack
    <3>2. \A t \in Timer, k \in Slot : InT(t, k) => parent[t] # ChatOf[q]
      BY <3>1 DEF WriteBack, ChatLocked, InT
    <3>3. \A t \in Timer : parent[t] # ChatOf[q] => msgs'[parent[t]] = msgs[parent[t]]
      BY <3>1 DEF WriteBack, TypeOK
    <3>4. QED
      BY <2>0, <3>1, <3>2, <3>3, SeenKept DEF InT
  <2>6. ASSUME NEW t \in Timer, Create(t) \/ ComesDue(t) PROVE UNCHANGED <<run, msgs>>
    BY <2>6 DEF Create, ComesDue
  <2>7. ASSUME NEW q \in Request,
               \/ Say(q) \/ SayRead(q) \/ Read(q) \/ CancelSelect(q) \/ CancelCommit(q)
               \/ Answer(q)
        PROVE  UNCHANGED <<run, msgs>>
    BY <2>7 DEF Say, SayRead, Read, CancelSelect, CancelCommit, CancelRows, Answer
  <2>8. ASSUME NEW c \in Chat, NEW m \in Message, TaskEnds(c, m) PROVE UNCHANGED <<run, msgs>>
    BY <2>8 DEF TaskEnds
  <2>9. ASSUME NEW p \in Proc, ClaimSelect(p) PROVE UNCHANGED <<run, msgs>>
    BY <2>9 DEF ClaimSelect
  <2>10. QED
    BY <2>1, <2>2, <2>3, <2>4, <2>5, <2>6, <2>7, <2>8, <2>9 DEF Next, RequestStep, vars
<1>3. QED
  BY <1>1, <1>2, TypeCorrect, RunInvHolds, PTL DEF Spec

\* With row locks the transaction of a firing takes no message out of the parent
\* chat: whatever the completion handlers of other runs and of clients write back
\* from their copies, none of them writes between its read and its commit.
THEOREM FireKeepsMessagesHolds ==
    ASSUME RowLocks
    PROVE  Spec => FireKeepsMessages
<1> DEFINE Keeps(t) == fired'[t] # fired[t] => msgs[parent[t]] \subseteq msgs'[parent[t]]
<1>1. TypeOK /\ SeenInv /\ [Next]_vars => [\A t \in Timer : Keeps(t)]_vars
  <2> SUFFICES ASSUME TypeOK, SeenInv, Next, NEW t \in Timer, fired'[t] # fired[t]
               PROVE  msgs[parent[t]] \subseteq msgs'[parent[t]]
    OBVIOUS
  <2>1. PICK u \in Timer, k \in Slot : RunFire(u, k)
    <3>1. fired' # fired
      OBVIOUS
    <3>2. ASSUME NEW u \in Timer, NEW k \in Slot, RunStep(u, k) \/ RunDies(u, k), ~RunFire(u, k)
          PROVE  fired' = fired
      BY <3>2 DEF RunStep, RunCheck, RunError, RunLock, RunSelect, RunAsk, RunRequeue,
                  RunUpsert, HandlerRead, HandlerWrite, RunStart, RunDies
    <3>3. ASSUME NEW q \in Request, RequestStep(q) PROVE fired' = fired
      BY <3>3 DEF RequestStep, Say, SayRead, SayWrite, Read, CancelSelect, CancelCommit,
                  CancelRows, Answer
    <3>4. ASSUME NEW p \in Proc, ClaimSelect(p) \/ ClaimCommit(p) \/ Crash(p)
          PROVE  fired' = fired
      BY <3>4 DEF ClaimSelect, ClaimCommit, Crash
    <3>5. ASSUME NEW u \in Timer, Create(u) \/ ComesDue(u) PROVE fired' = fired
      BY <3>5 DEF Create, ComesDue
    <3>6. ASSUME NEW c \in Chat, NEW m \in Message, TaskEnds(c, m) PROVE fired' = fired
      BY <3>6 DEF TaskEnds
    <3>7. QED
      BY <3>1, <3>2, <3>3, <3>4, <3>5, <3>6 DEF Next
  <2>2. u = t
    BY <2>1 DEF RunFire, TypeOK
  <2>3. run[t][k].seen = msgs[parent[t]]
    BY <2>1, <2>2 DEF RunFire, SeenInv, InT, InTransaction
  <2>4. msgs'[parent[t]] = run[t][k].seen \cup {t}
    BY <2>1, <2>2 DEF RunFire, TypeOK
  <2>5. QED
    BY <2>3, <2>4
<1>2. QED
  BY <1>1, TypeCorrect, SeenInvHolds, PTL DEF Spec, FireKeepsMessages

-----------------------------------------------------------------------------
(* With row locks: the life of a timer is the one OneShot describes. *)

\* A cancel has selected rows of timers that are set.
CancelsSet == \A q \in Request : \A t \in req[q].rows : row[t].status # "none"

\* A row that is set stays set.
LEMMA SetStays ==
    ASSUME TypeOK, RunInv, [Next]_vars, NEW t \in Timer, row[t].status # "none"
    PROVE  row'[t].status # "none"
<1>1. CASE row' = row
  BY <1>1
<1>2. ASSUME NEW u \in Timer, Create(u) PROVE row'[t].status # "none"
  BY <1>2 DEF Create, TypeOK, Rows
<1>3. ASSUME NEW p \in Proc, ClaimCommit(p) PROVE row'[t].status # "none"
  <2>1. row'[t] = row[t] \/ row'[t] = [row[t] EXCEPT !.status = "running", !.claim = NewClaim(t)]
    BY <1>3 DEF ClaimCommit
  <2>2. [row[t] EXCEPT !.status = "running", !.claim = NewClaim(t)].status = "running"
    BY DEF TypeOK, Rows
  <2>3. QED
    BY <2>1, <2>2
<1>4. ASSUME NEW u \in Timer, NEW k \in Slot, RunStep(u, k) \/ RunDies(u, k)
      PROVE  row'[t].status # "none"
  BY <1>4, RunStepRow
<1>5. ASSUME NEW q \in Request, CancelCommit(q) PROVE row'[t].status # "none"
  <2>1. row'[t] = row[t] \/ row'[t] = [row[t] EXCEPT !.status = "cancelled", !.claim = NoClaim]
    BY <1>5 DEF CancelCommit, CancelRows
  <2>2. [row[t] EXCEPT !.status = "cancelled", !.claim = NoClaim].status = "cancelled"
    BY DEF TypeOK, Rows
  <2>3. QED
    BY <2>1, <2>2
<1>6. ASSUME NEW p \in Proc, ClaimSelect(p) \/ Crash(p) PROVE row' = row
  BY <1>6 DEF ClaimSelect, Crash
<1>7. ASSUME NEW q \in Request,
             \/ Say(q) \/ SayRead(q) \/ SayWrite(q) \/ Read(q) \/ CancelSelect(q) \/ Answer(q)
      PROVE  row' = row
  BY <1>7 DEF Say, SayRead, SayWrite, Read, CancelSelect, Answer
<1>8. ASSUME NEW c \in Chat, NEW m \in Message, TaskEnds(c, m) PROVE row' = row
  BY <1>8 DEF TaskEnds
<1>9. ASSUME NEW u \in Timer, ComesDue(u) PROVE row' = row
  BY <1>9 DEF ComesDue
<1>10. QED
  BY <1>1, <1>2, <1>3, <1>4, <1>5, <1>6, <1>7, <1>8, <1>9 DEF Next, RequestStep, vars

LEMMA CancelsSetKept ==
    ASSUME TypeOK, RunInv, CancelsSet, [Next]_vars
    PROVE  CancelsSet'
<1>1. \A t \in Timer : row[t].status # "none" => row'[t].status # "none"
  BY SetStays
<1>2. \A q \in Request : req[q].rows \subseteq Timer
  BY DEF TypeOK, Requests
<1>3. ASSUME NEW q \in Request, NEW t \in req'[q].rows
      PROVE  t \in req[q].rows \/ (t \in Timer /\ row[t].status = "pending")
  <2>1. CASE req' = req
    BY <1>3, <2>1
  <2>2. ASSUME NEW r \in Request, RequestStep(r)
        PROVE  t \in req[q].rows \/ (t \in Timer /\ row[t].status = "pending")
    <3>1. CASE q # r
      <4>1. req'[q] = req[q]
        <5>1. CASE Say(r)
          BY <3>1, <5>1 DEF Say, TypeOK
        <5>2. CASE SayRead(r) \/ SayWrite(r)
          BY <3>1, <5>2 DEF SayRead, SayWrite, PutBack, TypeOK
        <5>3. CASE Read(r)
          BY <3>1, <5>3 DEF Read, TypeOK
        <5>4. CASE CancelSelect(r)
          BY <3>1, <5>4 DEF CancelSelect, TypeOK
        <5>5. CASE CancelCommit(r)
          BY <3>1, <5>5 DEF CancelCommit, CancelRows, TypeOK
        <5>6. CASE Answer(r)
          BY <3>1, <5>6 DEF Answer, TypeOK
        <5>7. QED
          BY <2>2, <5>1, <5>2, <5>3, <5>4, <5>5, <5>6 DEF RequestStep
      <4>2. QED
        BY <1>3, <4>1
    <3>2. CASE q = r
      <4>1. req[q] \in Requests
        BY DEF TypeOK
      <4>2. CASE CancelSelect(q)
        <5>1. req'[q].rows = {u \in Timer : /\ parent[u] = ChatOf[q]
                                            /\ row[u].status = "pending"
                                            /\ req[q].event \in row[u].cancelOn}
          BY <4>1, <4>2 DEF CancelSelect, TypeOK, Requests
        <5>2. QED
          BY <1>3, <5>1
      <4>3. CASE CancelCommit(q)
        <5>1. req'[q].rows = {}
          <6>1. req'[q] = [req[q] EXCEPT !.at = IF req[q].event = "chat.read" THEN "done" ELSE "link",
                                         !.rows = {}]
            BY <4>3 DEF CancelCommit, CancelRows, TypeOK
          <6>2. QED
            BY <4>1, <6>1 DEF Requests
        <5>2. QED
          BY <1>3, <5>1
      <4>4. CASE Say(q) \/ SayRead(q) \/ SayWrite(q) \/ Read(q) \/ Answer(q)
        <5>1. req'[q].rows = req[q].rows
          <6>1. CASE Say(q)
            BY <4>1, <6>1 DEF Say, TypeOK, Requests
          <6>5. CASE Read(q)
            BY <4>1, <6>5 DEF Read, TypeOK, Requests
          <6>2. CASE SayRead(q)
            BY <4>1, <6>2 DEF SayRead, TypeOK, Requests
          <6>6. CASE SayWrite(q)
            <7>1. PICK to : req' = [req EXCEPT ![q] = [@ EXCEPT !.at = to, !.seen = {}]]
              BY <6>6 DEF SayWrite, PutBack
            <7>2. req'[q] = [req[q] EXCEPT !.at = to, !.seen = {}]
              BY <7>1 DEF TypeOK
            <7>3. [req[q] EXCEPT !.at = to, !.seen = {}].rows = req[q].rows
              BY <4>1 DEF Requests
            <7>4. QED
              BY <7>2, <7>3
          <6>3. CASE Answer(q)
            BY <4>1, <6>3 DEF Answer, TypeOK, Requests
          <6>4. QED
            BY <4>4, <6>1, <6>2, <6>3, <6>5, <6>6
        <5>2. QED
          BY <1>3, <5>1
      <4>5. QED
        BY <2>2, <3>2, <4>2, <4>3, <4>4 DEF RequestStep
    <3>3. QED
      BY <3>1, <3>2
  <2>3. ASSUME NEW p \in Proc, ClaimSelect(p) \/ ClaimCommit(p) \/ Crash(p) PROVE req' = req
    BY <2>3 DEF ClaimSelect, ClaimCommit, Crash
  <2>4. ASSUME NEW u \in Timer, NEW k \in Slot, RunStep(u, k) \/ RunDies(u, k) PROVE req' = req
    BY <2>4 DEF RunStep, RunDies, RunCheck, RunError, RunLock, RunSelect, RunAsk, RunRequeue,
                RunFire, RunUpsert, HandlerRead, HandlerWrite, RunStart
  <2>5. ASSUME NEW u \in Timer, Create(u) \/ ComesDue(u) PROVE req' = req
    BY <2>5 DEF Create, ComesDue
  <2>6. ASSUME NEW c \in Chat, NEW m \in Message, TaskEnds(c, m) PROVE req' = req
    BY <2>6 DEF TaskEnds
  <2>7. QED
    BY <2>1, <2>2, <2>3, <2>4, <2>5, <2>6 DEF Next, vars
<1>4. QED
  BY <1>1, <1>2, <1>3 DEF CancelsSet

\* Timers that move together are a step of OneShot.
LEMMA Moves ==
    ASSUME NEW S \in SUBSET Timer, S # {}, NEW from, NEW to,
           \A t \in S : Phase(t) \in from /\ Phase(t)' = to,
           \A t \in Timer \ S : Phase(t)' = Phase(t)
    PROVE  Promise!Enter(S, from, to)
BY DEF Promise!Enter

\* A timer that has a run which has not fired is running.
LEMMA RunningPhase ==
    ASSUME RunInv, NEW t \in Timer, NEW k \in Slot, run[t][k].at # "idle"
    PROVE  /\ Phase(t) = IF fired[t] # 0 THEN "fired" ELSE "running"
           /\ row[t].status \notin {"none", "pending"}
           /\ \A j \in Slot : j # k => run[t][j].at = "idle"
           /\ run[t][k].at \in BeforeFire => fired[t] = 0
BY DEF Phase, Live, RunInv, OneLive, FiredOver

\* A timer without a run is where its row says.
LEMMA RestingPhase ==
    ASSUME NEW t \in Timer, \A k \in Slot : run[t][k].at = "idle", fired[t] = 0
    PROVE  Phase(t) = IF row[t].status = "none" THEN "unset"
                      ELSE IF row[t].status = "pending" THEN "waiting" ELSE "over"
BY DEF Phase, Live

LEMMA RunMoves ==
    ASSUME TypeOK, RunInv, NEW t \in Timer, NEW k \in Slot, RunStep(t, k) \/ RunDies(t, k)
    PROVE  [Promise!Next]_(Promise!vars)
<1>1. /\ run[t][k].at # "idle"
      /\ \A u \in Timer, j \in Slot : <<u, j>> # <<t, k>> => run'[u][j] = run[u][j]
  BY RunStepStages
<1>2. /\ \A u \in Timer \ {t} : row'[u] = row[u] /\ fired'[u] = fired[u]
      /\ \/ row'[t].status = row[t].status /\ fired'[t] = fired[t]
         \/ row'[t].status = "error" /\ fired'[t] = fired[t]
         \/ /\ row'[t].status = "pending" /\ fired'[t] = fired[t]
            /\ run[t][k].at \in BeforeFire /\ run'[t][k].at = "idle"
         \/ /\ row'[t].status = "completed" /\ fired'[t] = fired[t] + 1
            /\ run[t][k].at \in BeforeFire /\ run'[t][k].at = "upsert"
  BY RunStepRow
<1>3. \A u \in Timer \ {t} : Phase(u)' = Phase(u)
  BY <1>1, <1>2 DEF Phase, Live
<1>4. /\ Phase(t) = IF fired[t] # 0 THEN "fired" ELSE "running"
      /\ row[t].status \notin {"none", "pending"}
      /\ \A j \in Slot : j # k => run[t][j].at = "idle"
      /\ run[t][k].at \in BeforeFire => fired[t] = 0
  BY <1>1, RunningPhase
<1>5. fired \in [Timer -> Nat] /\ fired' = [u \in Timer |-> fired'[u]]
  <2>1. fired' = fired \/ \E u \in Timer : fired' = [fired EXCEPT ![u] = @ + 1]
    BY DEF RunStep, RunDies, RunCheck, RunError, RunLock, RunSelect, RunAsk, RunRequeue,
           RunFire, RunUpsert, HandlerRead, HandlerWrite, RunStart
  <2>2. QED
    BY <2>1 DEF TypeOK
<1>6. CASE row'[t].status = "completed" /\ fired'[t] = fired[t] + 1 /\ run[t][k].at \in BeforeFire
  <2>1. Phase(t) = "running" /\ Phase(t)' = "fired"
    BY <1>4, <1>6 DEF Phase
  <2>2. Promise!Enter({t}, {"running"}, "fired")
    BY <1>3, <2>1, Moves
  <2>3. fired' = [fired EXCEPT ![t] = @ + 1]
    BY <1>2, <1>5, <1>6
  <2>4. QED
    BY <2>2, <2>3 DEF Promise!Next, Promise!Fire
<1>7. CASE fired'[t] = fired[t]
  <2>1. fired' = fired
    BY <1>2, <1>5, <1>7
  <2>2. CASE fired[t] # 0 \/ run'[t][k].at # "idle"
    <3>1. Phase(t)' = Phase(t)
      BY <1>4, <1>7, <2>2 DEF Phase, Live
    <3>2. QED
      BY <1>3, <2>1, <3>1 DEF Promise!vars
  <2>3. CASE fired[t] = 0 /\ run'[t][k].at = "idle"
    <3>1. \A j \in Slot : run'[t][j].at = "idle"
      BY <1>1, <1>4, <2>3
    <3>2. Phase(t) = "running" /\ row'[t].status # "none"
      BY <1>2, <1>4, <2>3
    <3>3. Phase(t)' = IF row'[t].status = "pending" THEN "waiting" ELSE "over"
      BY <1>7, <2>3, <3>1, <3>2 DEF Phase, Live
    <3>4. Promise!Enter({t}, {"running"}, "waiting") \/ Promise!Enter({t}, {"waiting", "running"}, "over")
      BY <1>3, <3>2, <3>3, Moves
    <3>5. QED
      BY <2>1, <3>4 DEF Promise!Next, Promise!Return, Promise!Close
  <2>4. QED
    BY <2>2, <2>3
<1>8. QED
  BY <1>2, <1>6, <1>7

LEMMA ClaimMoves ==
    ASSUME TypeOK, RunInv, NEW p \in Proc, ClaimCommit(p)
    PROVE  Promise!Next
<1> DEFINE batch == claim[p].batch
<1>1. batch \subseteq Timer /\ batch # {} /\ fired' = fired
  BY DEF TypeOK, Batches, ClaimCommit
<1>2. \A t \in Timer : t \notin batch => row'[t] = row[t] /\ run'[t] = run[t]
  BY DEF ClaimCommit
<1>3. \A t \in Timer \ batch : Phase(t)' = Phase(t)
  BY <1>1, <1>2 DEF Phase, Live
<1>4. ASSUME NEW t \in batch PROVE Phase(t) = "waiting" /\ Phase(t)' = "running"
  <2>1. row[t].status = "pending" /\ t \in Timer
    BY <1>1 DEF RunInv, HeldPending
  <2>2. fired[t] = 0 /\ \A k \in Slot : run[t][k].at = "idle"
    BY <2>1 DEF RunInv, FiredOver, OneLive
  <2>3. Phase(t) = "waiting"
    BY <2>1, <2>2, RestingPhase
  <2>4. Unused(t) # {}
    BY DEF ClaimCommit
  <2>5. NewClaim(t) \in Slot /\ run[t] \in [Slot -> Runs]
    BY <2>1, <2>4, NewClaimUnused DEF TypeOK
  <2>6. run'[t][NewClaim(t)] = [NoRun EXCEPT !.at = "spawned", !.proc = p]
    <3>1. run'[t] = [run[t] EXCEPT ![NewClaim(t)] = [NoRun EXCEPT !.at = "spawned", !.proc = p]]
      BY <2>1 DEF ClaimCommit
    <3> DEFINE n == NewClaim(t)
    <3> HIDE DEF n
    <3>2. n \in Slot /\ run'[t] = [run[t] EXCEPT ![n] = [NoRun EXCEPT !.at = "spawned", !.proc = p]]
      BY <2>5, <3>1 DEF n
    <3>3. run'[t][n] = [NoRun EXCEPT !.at = "spawned", !.proc = p]
      BY <2>5, <3>2
    <3>4. QED
      BY <3>3 DEF n
  <2>7. [NoRun EXCEPT !.at = "spawned", !.proc = p].at = "spawned"
    BY DEF NoRun
  <2>8. Phase(t)' = "running"
    BY <1>1, <2>2, <2>5, <2>6, <2>7 DEF Phase, Live
  <2>9. QED
    BY <2>3, <2>8
<1> HIDE DEF batch
<1>5. Promise!Enter(batch, {"waiting"}, "running")
  BY <1>1, <1>3, <1>4, Moves
<1>6. QED
  BY <1>1, <1>5 DEF Promise!Next, Promise!Claim

LEMMA CrashMoves ==
    ASSUME TypeOK, RunInv, NEW p \in Proc, Crash(p)
    PROVE  [Promise!Next]_(Promise!vars)
<1> DEFINE ended == {t \in Timer : Phase(t)' # Phase(t)}
<1>1. /\ row' = row /\ fired' = fired
      /\ \A t \in Timer, k \in Slot : run'[t][k].at = "idle" \/ run'[t][k] = run[t][k]
  BY DEF Crash, NoRun
<1>2. ASSUME NEW t \in ended PROVE Phase(t) = "running" /\ Phase(t)' = "over"
  <2>1. fired[t] = 0 /\ fired'[t] = 0 /\ t \in Timer
    BY <1>1 DEF Phase
  <2>2. PICK k \in Slot : run[t][k].at # "idle"
    <3>1. CASE \A k \in Slot : run[t][k].at = "idle"
      <4>1. \A k \in Slot : run'[t][k].at = "idle"
        BY <1>1, <2>1, <3>1
      <4>2. Phase(t)' = Phase(t)
        BY <1>1, <3>1, <4>1 DEF Phase, Live
      <4>3. QED
        BY <4>2
    <3>2. QED
      BY <3>1
  <2>3. Phase(t) = "running" /\ row[t].status \notin {"none", "pending"}
    BY <2>1, <2>2, RunningPhase
  <2>4. Phase(t)' # "running"
    BY <2>3
  <2>5. QED
    BY <1>1, <2>1, <2>3, <2>4 DEF Phase
<1>3. CASE ended = {}
  <2>1. [t \in Timer |-> Phase(t)]' = [t \in Timer |-> Phase(t)]
    BY <1>3
  <2>2. QED
    BY <1>1, <2>1 DEF Promise!vars
<1>4. CASE ended # {}
  <2>1. Promise!Enter(ended, {"waiting", "running"}, "over")
    BY <1>2, <1>4, Moves
  <2>2. ended \in SUBSET Timer
    OBVIOUS
  <2> HIDE DEF ended
  <2>3. QED
    BY <1>1, <2>1, <2>2 DEF Promise!Next, Promise!Close
<1>5. QED
  BY <1>3, <1>4

LEMMA CancelMoves ==
    ASSUME TypeOK, RunInv, CancelsSet, NEW q \in Request, CancelCommit(q)
    PROVE  [Promise!Next]_(Promise!vars)
<1> DEFINE ended == {t \in Timer : Phase(t)' # Phase(t)}
<1>1. /\ run' = run /\ fired' = fired
      /\ \A t \in Timer : row'[t] = IF t \in req[q].rows
                                    THEN [row[t] EXCEPT !.status = "cancelled", !.claim = NoClaim]
                                    ELSE row[t]
  BY DEF CancelCommit, CancelRows
<1>2. ASSUME NEW t \in ended PROVE Phase(t) = "waiting" /\ Phase(t)' = "over"
  <2>1. fired[t] = 0 /\ Live(t) = {} /\ Live(t)' = {} /\ row'[t].status # row[t].status /\ t \in Timer
    <3>1. t \in Timer /\ Phase(t)' # Phase(t)
      OBVIOUS
    <3>2. Live(t)' = Live(t) /\ fired'[t] = fired[t]
      BY <1>1 DEF Live
    <3>3. fired[t] = 0
      BY <3>1, <3>2 DEF Phase
    <3>4. Live(t) = {}
      BY <3>1, <3>2, <3>3 DEF Phase
    <3>5. row'[t].status # row[t].status
      BY <3>1, <3>2, <3>3, <3>4 DEF Phase
    <3>6. QED
      BY ONLY <3>1, <3>2, <3>3, <3>4, <3>5
  <2>2. [row[t] EXCEPT !.status = "cancelled", !.claim = NoClaim].status = "cancelled"
    BY <2>1 DEF TypeOK, Rows
  <2>6. t \in req[q].rows
    <3>1. CASE t \notin req[q].rows
      <4>1. row'[t] = row[t]
        BY <1>1, <2>1, <3>1
      <4>2. QED
        BY <2>1, <4>1
    <3>2. QED
      BY <3>1
  <2>3. row'[t].status = "cancelled" /\ row[t].status # "none"
    BY <1>1, <2>1, <2>2, <2>6 DEF CancelsSet
  <2>4. Phase(t)' = "over"
    BY <1>1, <2>1, <2>3 DEF Phase
  <2>5. QED
    BY <2>1, <2>3, <2>4 DEF Phase
<1>3. CASE ended = {}
  <2>1. [t \in Timer |-> Phase(t)]' = [t \in Timer |-> Phase(t)]
    BY <1>3
  <2>2. QED
    BY <1>1, <2>1 DEF Promise!vars
<1>4. CASE ended # {}
  <2>1. Promise!Enter(ended, {"waiting", "running"}, "over")
    BY <1>2, <1>4, Moves
  <2>2. ended \in SUBSET Timer
    OBVIOUS
  <2> HIDE DEF ended
  <2>3. QED
    BY <1>1, <2>1, <2>2 DEF Promise!Next, Promise!Close
<1>5. QED
  BY <1>3, <1>4

\* With row locks the timers implement OneShot: whatever schedulers, requeues,
\* stale cancels, crashes and errors do, a timer is taken up only while it waits
\* and its prompt is put into the chat once.
THEOREM TimersAreOneShot ==
    ASSUME RowLocks
    PROVE  Spec => IsOneShot
<1>1. Init => Promise!Init /\ CancelsSet
  <2> SUFFICES ASSUME Init PROVE Promise!Init /\ CancelsSet
    OBVIOUS
  <2>1. \A t \in Timer : Phase(t) = "unset"
    BY DEF Init, Phase, Live, NoRun
  <2>2. QED
    BY <2>1 DEF Init, Promise!Init, CancelsSet
<1>2. TypeOK /\ RunInv /\ CancelsSet /\ [Next]_vars => CancelsSet'
  BY CancelsSetKept
<1>3. TypeOK /\ RunInv /\ CancelsSet /\ [Next]_vars => [Promise!Next]_(Promise!vars)
  <2> SUFFICES ASSUME TypeOK, RunInv, CancelsSet, [Next]_vars PROVE [Promise!Next]_(Promise!vars)
    OBVIOUS
  <2>1. CASE UNCHANGED <<row, run, fired>>
    BY <2>1 DEF Promise!vars, Phase, Live
  <2>2. ASSUME NEW t \in Timer, Create(t) PROVE Promise!Next
    <3>1. /\ row[t].status = "none" /\ row'[t].status = "pending" /\ run' = run /\ fired' = fired
          /\ \A u \in Timer \ {t} : row'[u] = row[u]
      BY <2>2 DEF Create, TypeOK, Rows
    <3>2. fired[t] = 0 /\ \A k \in Slot : run[t][k].at = "idle"
      BY <3>1 DEF RunInv, FiredOver, OneLive
    <3>3. Phase(t) = "unset" /\ Phase(t)' = "waiting" /\ \A u \in Timer \ {t} : Phase(u)' = Phase(u)
      BY <3>1, <3>2 DEF Phase, Live
    <3>4. Promise!Enter({t}, {"unset"}, "waiting")
      BY <3>3, Moves
    <3>5. QED
      BY <3>1, <3>4 DEF Promise!Next, Promise!Set
  <2>3. ASSUME NEW p \in Proc, ClaimCommit(p) PROVE Promise!Next
    BY <2>3, ClaimMoves
  <2>4. ASSUME NEW p \in Proc, Crash(p) PROVE [Promise!Next]_(Promise!vars)
    BY <2>4, CrashMoves
  <2>5. ASSUME NEW t \in Timer, NEW k \in Slot, RunStep(t, k) \/ RunDies(t, k)
        PROVE  [Promise!Next]_(Promise!vars)
    BY <2>5, RunMoves
  <2>6. ASSUME NEW q \in Request, CancelCommit(q) PROVE [Promise!Next]_(Promise!vars)
    BY <2>6, CancelMoves
  <2>7. ASSUME NEW q \in Request,
               \/ Say(q) \/ SayRead(q) \/ SayWrite(q) \/ Read(q) \/ CancelSelect(q) \/ Answer(q)
        PROVE  UNCHANGED <<row, run, fired>>
    BY <2>7 DEF Say, SayRead, SayWrite, Read, CancelSelect, Answer
  <2>8. ASSUME NEW c \in Chat, NEW m \in Message, TaskEnds(c, m) PROVE UNCHANGED <<row, run, fired>>
    BY <2>8 DEF TaskEnds
  <2>9. ASSUME NEW t \in Timer, ComesDue(t) PROVE UNCHANGED <<row, run, fired>>
    BY <2>9 DEF ComesDue
  <2>10. ASSUME NEW p \in Proc, ClaimSelect(p) PROVE UNCHANGED <<row, run, fired>>
    BY <2>10 DEF ClaimSelect
  <2>11. CASE UNCHANGED vars
    BY <2>1, <2>11 DEF vars
  <2>12. QED
    <3>1. CASE \E t \in Timer : Create(t) \/ ComesDue(t)
      BY <2>1, <2>2, <2>9, <3>1
    <3>2. CASE \E p \in Proc : ClaimSelect(p) \/ ClaimCommit(p) \/ Crash(p)
      BY <2>1, <2>3, <2>4, <2>10, <3>2
    <3>3. CASE \E t \in Timer, k \in Slot : RunStep(t, k) \/ RunDies(t, k)
      BY <2>5, <3>3
    <3>4. CASE \E q \in Request : RequestStep(q)
      BY <2>1, <2>6, <2>7, <3>4 DEF RequestStep
    <3>5. CASE \E c \in Chat, m \in Message : TaskEnds(c, m)
      BY <2>1, <2>8, <3>5
    <3>6. QED
      BY <2>1, <2>11, <3>1, <3>2, <3>3, <3>4, <3>5 DEF Next
<1>4. QED
  BY <1>1, <1>2, <1>3, TypeCorrect, RunInvHolds, PTL DEF Spec, IsOneShot, Promise!Spec

-----------------------------------------------------------------------------
(* Only a fault strands a timer *)

\* A row that says "running" names the run that is at work on it.
Manned(t) ==
    row[t].status = "running" =>
        row[t].claim \in Slot /\ run[t][row[t].claim].at \in BeforeFire

\* A run that its row names does not leave before the row is closed or given
\* back: the claim id it compares is its own.
LEMMA MannedRun ==
    ASSUME TypeOK, NEW t \in Timer, NEW k \in Slot, RunStep(t, k),
           NEW u \in Timer, Manned(u)
    PROVE  Manned(u)'
<1>0. /\ row \in [Timer -> Rows] /\ run \in [Timer -> [Slot -> Runs]]
      /\ row[t] \in Rows /\ run[t][k] \in Runs
  BY DEF TypeOK
<1>1. \A v \in Timer, j \in Slot : <<v, j>> # <<t, k>> => run'[v][j] = run[v][j]
  BY RunStepStages
<1>2. CASE u # t
  BY <1>1, <1>2, RunStepRow DEF Manned
<1>3. CASE u = t
  <2>1. CASE RunCheck(t, k)
    <3>1. row' = row
      BY <2>1 DEF RunCheck
    <3>2. row[t].status = "running" /\ row[t].claim = k => run'[t][k].at = "checked"
      BY <1>0, <2>1 DEF RunCheck, Go, Runs
    <3>3. QED
      BY <1>1, <1>3, <3>1, <3>2 DEF Manned, BeforeFire
  <2>2. CASE RunError(t, k) \/ RunRequeue(t, k) \/ RunFire(t, k)
    <3>1. CASE RunError(t, k)
      BY <1>0, <3>1, <1>3 DEF RunError, Rows, Manned
    <3>2. CASE RunRequeue(t, k)
      BY <1>0, <3>2, <1>3 DEF RunRequeue, Rows, Manned
    <3>3. CASE RunFire(t, k)
      <4>1. row' = [row EXCEPT ![t].status = "completed"]
        BY <3>3 DEF RunFire
      <4>2. QED
        BY <1>0, <1>3, <4>1 DEF Rows, Manned
    <3>4. QED
      BY <2>2, <3>1, <3>2, <3>3
  <2>3. CASE RunLock(t, k) \/ RunSelect(t, k) \/ RunAsk(t, k)
    <3>1. row' = row
      BY <2>3 DEF RunLock, RunSelect, RunAsk
    <3>2. run'[t][k].at \in BeforeFire
      <4>1. CASE RunLock(t, k)
        BY <1>0, <4>1 DEF RunLock, Go, Runs, BeforeFire, InTransaction
      <4>2. CASE RunSelect(t, k)
        BY <1>0, <4>2 DEF RunSelect, Runs, BeforeFire, InTransaction
      <4>3. CASE RunAsk(t, k)
        BY <1>0, <4>3 DEF RunAsk, Go, Runs, BeforeFire, InTransaction
      <4>4. QED
        BY <2>3, <4>1, <4>2, <4>3
    <3>3. QED
      BY <1>1, <1>3, <3>1, <3>2 DEF Manned
  <2>4. CASE RunUpsert(t, k) \/ HandlerRead(t, k) \/ HandlerWrite(t, k) \/ RunStart(t, k)
    <3>1. row' = row
      BY <2>4 DEF RunUpsert, HandlerRead, HandlerWrite, RunStart
    <3>2. run[t][k].at \notin BeforeFire
      BY <2>4 DEF RunUpsert, HandlerRead, HandlerWrite, RunStart, BeforeFire, InTransaction
    <3>3. QED
      BY <1>1, <1>3, <3>1, <3>2 DEF Manned
  <2>5. QED
    BY <2>1, <2>2, <2>3, <2>4 DEF RunStep
<1>4. QED
  BY <1>2, <1>3

LEMMA MannedClaim ==
    ASSUME TypeOK, NEW p \in Proc, ClaimCommit(p), NEW u \in Timer, Manned(u)
    PROVE  Manned(u)'
<1>0. row[u] \in Rows /\ run[u] \in [Slot -> Runs]
  BY DEF TypeOK
<1>1. CASE u \in claim[p].batch
  <2>1. NewClaim(u) \in Slot
    BY <1>1, NewClaimUnused DEF ClaimCommit
  <2>2. /\ row'[u] = [row[u] EXCEPT !.status = "running", !.claim = NewClaim(u)]
        /\ run'[u] = [run[u] EXCEPT ![NewClaim(u)] = [NoRun EXCEPT !.at = "spawned", !.proc = p]]
    BY <1>1 DEF ClaimCommit
  <2>3. row'[u].claim = NewClaim(u)
    BY <1>0, <2>2 DEF Rows
  <2>4. run'[u][NewClaim(u)] = [NoRun EXCEPT !.at = "spawned", !.proc = p]
    BY <1>0, <2>1, <2>2
  <2>5. run'[u][NewClaim(u)].at = "spawned"
    BY <2>4 DEF NoRun
  <2>6. QED
    BY <2>1, <2>3, <2>5 DEF Manned, BeforeFire
<1>2. CASE u \notin claim[p].batch
  BY <1>2 DEF ClaimCommit, Manned
<1>3. QED
  BY <1>1, <1>2

LEMMA MannedRow ==
    ASSUME TypeOK, NEW u \in Timer, Manned(u), run' = run,
           row'[u] = row[u] \/ row'[u].status # "running"
    PROVE  Manned(u)'
BY DEF Manned

\* Nothing but a fault leaves a timer "running" with no run at work on it, the
\* state from which no code ever takes it up again: not a poll of another
\* process, a stale claim, a cancel or a requeue, and with no help from row
\* locks.  This is the safety half of DueSettles, and why RunLost, its
\* exception, asks for a fault.
THEOREM OnlyFaultsStrand ==
    Spec => [](faults = 0 => \A t \in Timer : row[t].status = "running" => Live(t) # {})
<1> DEFINE AllManned == faults = 0 => \A t \in Timer : Manned(t)
<1>1. Init => AllManned
  BY DEF Init, Manned
<1>2. TypeOK /\ AllManned /\ [Next]_vars => AllManned'
  <2> SUFFICES ASSUME TypeOK, AllManned, [Next]_vars, faults' = 0, NEW u \in Timer
               PROVE  Manned(u)'
    OBVIOUS
  <2>0. /\ faults \in Nat
        /\ faults = 0 => Manned(u)
    BY DEF TypeOK
  <2> HIDE DEF AllManned
  <2>1. ASSUME NEW t \in Timer, Create(t) PROVE Manned(u)'
    <3>1. run' = run /\ faults' = faults
      BY <2>1 DEF Create
    <3>2. row'[u] = row[u] \/ row'[u].status # "running"
      BY <2>1 DEF Create, TypeOK, Rows
    <3>3. QED
      BY <2>0, <3>1, <3>2, MannedRow
  <2>2. ASSUME NEW t \in Timer, ComesDue(t) PROVE Manned(u)'
    BY <2>0, <2>2, MannedRow DEF ComesDue
  <2>3. ASSUME NEW p \in Proc, ClaimSelect(p) PROVE Manned(u)'
    BY <2>0, <2>3, MannedRow DEF ClaimSelect
  <2>4. ASSUME NEW p \in Proc, ClaimCommit(p) PROVE Manned(u)'
    <3>1. faults' = faults
      BY <2>4 DEF ClaimCommit
    <3>2. QED
      BY <2>0, <2>4, <3>1, MannedClaim
  <2>5. ASSUME NEW t \in Timer, NEW k \in Slot, RunStep(t, k) PROVE Manned(u)'
    <3>1. faults' = faults
      BY <2>5 DEF RunStep, RunCheck, RunError, RunLock, RunSelect, RunAsk, RunRequeue,
                  RunFire, RunUpsert, HandlerRead, HandlerWrite, RunStart
    <3>2. QED
      BY <2>0, <2>5, <3>1, MannedRun
  <2>6. ASSUME NEW q \in Request,
               \/ Say(q) \/ SayRead(q) \/ SayWrite(q) \/ Read(q) \/ CancelSelect(q) \/ Answer(q)
        PROVE  Manned(u)'
    BY <2>0, <2>6, MannedRow DEF Say, SayRead, SayWrite, Read, CancelSelect, Answer
  <2>7. ASSUME NEW q \in Request, CancelCommit(q) PROVE Manned(u)'
    <3>1. /\ run' = run /\ faults' = faults
          /\ row'[u] = IF u \in req[q].rows
                       THEN [row[u] EXCEPT !.status = "cancelled", !.claim = NoClaim]
                       ELSE row[u]
      BY <2>7 DEF CancelCommit, CancelRows
    <3>2. row[u] \in Rows
      BY DEF TypeOK
    <3>3. [row[u] EXCEPT !.status = "cancelled", !.claim = NoClaim].status = "cancelled"
      BY <3>2 DEF Rows
    <3>4. row'[u] = row[u] \/ row'[u].status # "running"
      BY <3>1, <3>3
    <3>5. QED
      BY <2>0, <3>1, <3>4, MannedRow
  <2>8. ASSUME NEW c \in Chat, NEW m \in Message, TaskEnds(c, m) PROVE Manned(u)'
    BY <2>0, <2>8, MannedRow DEF TaskEnds
  <2>9. ASSUME faults' = faults + 1 PROVE Manned(u)'
    BY <2>0, <2>9
  <2>10. CASE UNCHANGED vars
    BY <2>0, <2>10, MannedRow DEF vars
  <2>11. QED
    <3>1. ASSUME NEW p \in Proc, Crash(p) PROVE Manned(u)'
      BY <2>9, <3>1 DEF Crash
    <3>2. ASSUME NEW t \in Timer, NEW k \in Slot, RunDies(t, k) PROVE Manned(u)'
      BY <2>9, <3>2 DEF RunDies
    <3>3. QED
      BY <2>1, <2>2, <2>3, <2>4, <2>5, <2>6, <2>7, <2>8, <2>10, <3>1, <3>2 DEF Next, RequestStep
<1>3. AllManned
        => (faults = 0 => \A t \in Timer : row[t].status = "running" => Live(t) # {})
  BY DEF Manned, Live, BeforeFire, InTransaction
<1> HIDE DEF AllManned
<1>4. QED
  BY <1>1, <1>2, <1>3, TypeCorrect, PTL DEF Spec
=============================================================================
