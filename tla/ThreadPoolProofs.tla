-------------------------- MODULE ThreadPoolProofs --------------------------
(***************************************************************************)
(* Theorems about ThreadPool, for any number of workers and tasks.         *)
(***************************************************************************)
EXTENDS ThreadPool, FiniteSetTheorems, TLAPS

-----------------------------------------------------------------------------
(* Type correctness.                                                       *)

LEMMA FetchTypes ==
  ASSUME TypeOK, m_Tasks # <<>>
  PROVE  /\ Head(m_Tasks) \in Tasks
         /\ Tail(m_Tasks) \in Seq(Tasks)
         /\ Append(started, Head(m_Tasks)) \in Seq(Tasks)
  BY DEF TypeOK

LEMMA AwakeType ==
  ASSUME TypeOK, NEW ws \in SUBSET Waiting
  PROVE  /\ Awake(ws) \in [Workers -> WorkerLabels]
         /\ \A w \in Workers : Awake(ws)[w] = "run" <=> pc[w] = "run"
  BY DEF TypeOK, Awake, Waiting, WorkerLabels

LEMMA WorkerTypeOK ==
  ASSUME TypeOK, NEW w \in Workers, WorkerStep(w) \/ SpuriousWakeup(w)
  PROVE  TypeOK'
<1>. USE TasksTyped DEF TypeOK, Goto, WorkerLabels, history
<1>1. CASE TestStop(w)       BY <1>1 DEF TestStop
<1>2. CASE Wait(w)           BY <1>2 DEF Wait
<1>3. CASE Leave(w)          BY <1>3 DEF Leave
<1>4. CASE Fetch(w)          BY <1>4, FetchTypes DEF Fetch
<1>5. CASE Finish(w)         BY <1>5 DEF Finish
<1>6. CASE SpuriousWakeup(w) BY <1>6 DEF SpuriousWakeup
<1>. QED BY <1>1, <1>2, <1>3, <1>4, <1>5, <1>6 DEF WorkerStep

LEMMA OwnerTypeOK ==
  ASSUME TypeOK, Dismiss \/ StopAll
  PROVE  TypeOK'
<1>. USE DEF TypeOK, OwnerGoto, OwnerLabels, history
<1>1. CASE Dismiss    BY <1>1 DEF Dismiss
<1>2. CASE StopSet    BY <1>2 DEF StopSet
<1>3. CASE StopNotify BY <1>3, AwakeType DEF StopNotify
<1>4. CASE \E w \in Workers : StopRequest(w) BY <1>4 DEF StopRequest
<1>5. CASE StopJoin   BY <1>5 DEF StopJoin
<1>. QED BY <1>1, <1>2, <1>3, <1>4, <1>5 DEF StopAll

LEMMA NextTypeOK ==
  ASSUME TypeOK, [Next]_vars
  PROVE  TypeOK'
<1>1. CASE UNCHANGED vars
  BY <1>1 DEF TypeOK, vars
<1>2. ASSUME NEW t \in Tasks, Enqueue(t)
      PROVE  TypeOK'
  BY <1>2 DEF TypeOK, Enqueue
<1>3. CASE Notify
  <2>1. notifies' \in Nat
    BY <1>3 DEF Notify, TypeOK
  <2>2. CASE UNCHANGED pc
    BY <1>3, <2>1, <2>2 DEF Notify, TypeOK, history
  <2>3. ASSUME NEW w \in Waiting, pc' = Awake({w})
        PROVE  TypeOK'
    BY <1>3, <2>1, <2>3, AwakeType DEF Notify, TypeOK, history
  <2>. QED BY <1>3, <2>2, <2>3 DEF Notify
<1>. QED
  BY <1>1, <1>2, <1>3, WorkerTypeOK, OwnerTypeOK DEF Next

(* Type correctness; in particular a worker that runs has a task, so that  *)
(* front() was never taken of an empty queue.                              *)
THEOREM PoolTypeCorrect == Spec => []TypeOK
<1>1. Init => TypeOK
  <2>1. <<>> \in Seq(Tasks) /\ 0 \in Nat
    OBVIOUS
  <2>2. ASSUME Init
        PROVE  /\ pc \in [Workers -> WorkerLabels]
               /\ job \in [Workers -> Tasks \cup {NoTask}]
               /\ \A w \in Workers : pc[w] = "run" <=> job[w] # NoTask
    BY <2>2 DEF Init, WorkerLabels
  <2>. QED BY <2>1, <2>2 DEF Init, TypeOK, OwnerLabels
<1>2. TypeOK /\ [Next]_vars => TypeOK'
  BY NextTypeOK
<1>. QED BY <1>1, <1>2, PTL DEF Spec

-----------------------------------------------------------------------------
(* Order.                                                                  *)

LEMMA MoveHead ==
  ASSUME NEW s \in Seq(Tasks), NEW q \in Seq(Tasks), q # <<>>
  PROVE  Append(s, Head(q)) \o Tail(q) = s \o q
  OBVIOUS

LEMMA AppendConcat ==
  ASSUME NEW s \in Seq(Tasks), NEW q \in Seq(Tasks), NEW e \in Tasks
  PROVE  Append(s \o q, e) = s \o Append(q, e)
  OBVIOUS

LEMMA NextFifoOnce ==
  ASSUME TypeOK, FifoOnce, [Next]_vars
  PROVE  FifoOnce'
<1>1. ASSUME NEW t \in Tasks, Enqueue(t)
      PROVE  FifoOnce'
  <2>1. enqueued' = Append(started \o m_Tasks, t)
    BY <1>1 DEF Enqueue, FifoOnce
  <2>2. enqueued' = started \o Append(m_Tasks, t)
    <3>1. started \in Seq(Tasks) /\ m_Tasks \in Seq(Tasks)
      BY DEF TypeOK
    <3>2. Append(started \o m_Tasks, t) = started \o Append(m_Tasks, t)
      BY <3>1, AppendConcat
    <3>. QED BY <2>1, <3>2
  <2>. QED BY <1>1, <2>2 DEF Enqueue, FifoOnce
<1>2. ASSUME NEW w \in Workers, Fetch(w)
      PROVE  FifoOnce'
  BY <1>2, MoveHead DEF Fetch, FifoOnce, TypeOK
<1>3. CASE UNCHANGED <<m_Tasks, enqueued, started>>
  BY <1>3 DEF FifoOnce
<1>4. ASSUME NEW w \in Workers,
             TestStop(w) \/ Wait(w) \/ Leave(w) \/ Finish(w) \/ SpuriousWakeup(w)
      PROVE  FifoOnce'
  BY <1>3, <1>4 DEF TestStop, Wait, Leave, Finish, SpuriousWakeup, history
<1>5. CASE Notify \/ Dismiss \/ StopAll \/ UNCHANGED vars
  BY <1>3, <1>5
     DEF Notify, Dismiss, StopAll, StopSet, StopNotify, StopRequest, StopJoin,
         history, vars
<1>. QED BY <1>1, <1>2, <1>4, <1>5 DEF Next, WorkerStep

(* Tasks start in the order of their Enqueue, each once.                   *)
THEOREM FirstInFirstOut == Spec => []FifoOnce
<1>1. Init => FifoOnce
  BY DEF Init, FifoOnce
<1>2. TypeOK /\ FifoOnce /\ [Next]_vars => FifoOnce'
  BY NextFifoOnce
<1>. QED BY <1>1, <1>2, PoolTypeCorrect, PTL DEF Spec

-----------------------------------------------------------------------------
(* Wakeups.                                                                *)

Looking == {w \in Workers : pc[w] \in {"test", "lock"}}

LEMMA LookingFinite ==
  /\ IsFiniteSet(Looking) /\ Cardinality(Looking) \in Nat
  /\ IsFiniteSet(Looking') /\ Cardinality(Looking') \in Nat
<1>1. Looking \in SUBSET Workers /\ Looking' \in SUBSET Workers
  BY DEF Looking
<1>. QED BY <1>1, WorkersFinite, FS_Subset, FS_CardinalityType

(* A worker that starts to look, and one that stops looking.               *)
LEMMA LookingGrows ==
  ASSUME NEW w, w \notin Looking, Looking' = Looking \cup {w}
  PROVE  Cardinality(Looking') = Cardinality(Looking) + 1
  BY LookingFinite, FS_AddElement

LEMMA LookingShrinks ==
  ASSUME NEW w \in Looking, Looking' = Looking \ {w}
  PROVE  Cardinality(Looking') = Cardinality(Looking) - 1
  BY LookingFinite, FS_RemoveElement

(* From notify_all on nobody sleeps; before StopAll nobody has been told   *)
(* to stop.                                                                *)
SleepInv ==
  /\ NobodySleepsAfterStop
  /\ owner \in {"notify", "request", "done"} <=> m_Stop
  /\ owner \in {"using", "dismissed", "notify"} => stop_requested = {}

LEMMA NextSleepInv ==
  ASSUME TypeOK, SleepInv, [Next]_vars
  PROVE  SleepInv'
<1>. USE DEF SleepInv, NobodySleepsAfterStop, Waiting, history
<1>1. CASE UNCHANGED vars
  BY <1>1 DEF vars
<1>2. ASSUME NEW t \in Tasks, Enqueue(t)
      PROVE  SleepInv'
  BY <1>2 DEF Enqueue
<1>3. CASE Notify
  BY <1>3 DEF Notify, Awake
<1>4. ASSUME NEW w \in Workers, WorkerStep(w) \/ SpuriousWakeup(w)
      PROVE  SleepInv'
  <2>1. \A u \in Workers : pc'[u] = "waiting" => pc[u] = "waiting" \/ ~m_Stop
    BY <1>4
       DEF WorkerStep, TestStop, Wait, Leave, Fetch, Finish, SpuriousWakeup,
           Goto, TypeOK
  <2>2. UNCHANGED <<owner, m_Stop, stop_requested>>
    BY <1>4
       DEF WorkerStep, TestStop, Wait, Leave, Fetch, Finish, SpuriousWakeup
  <2>. QED BY <2>1, <2>2
<1>5. CASE Dismiss
  BY <1>5 DEF Dismiss, OwnerGoto
<1>6. CASE StopSet
  BY <1>6 DEF StopSet, OwnerGoto
<1>7. CASE StopNotify
  <2>1. Waiting' = {}
    BY <1>7 DEF StopNotify, Awake
  <2>. QED BY <1>7, <2>1 DEF StopNotify, OwnerGoto
<1>8. ASSUME NEW w \in Workers, StopRequest(w)
      PROVE  SleepInv'
  BY <1>8 DEF StopRequest
<1>9. CASE StopJoin
  BY <1>9 DEF StopJoin, OwnerGoto
<1>. QED
  BY <1>1, <1>2, <1>3, <1>4, <1>5, <1>6, <1>7, <1>8, <1>9 DEF Next, StopAll

LEMMA SleepInvariant == Spec => []SleepInv
<1>1. Init => SleepInv
  BY DEF Init, SleepInv, NobodySleepsAfterStop
<1>2. TypeOK /\ SleepInv /\ [Next]_vars => SleepInv'
  BY NextSleepInv
<1>. QED BY <1>1, <1>2, PoolTypeCorrect, PTL DEF Spec

(* After notify_all no worker sleeps, whatever order the wakeups, the      *)
(* pushes and StopAll come in, so that every worker can be joined.         *)
THEOREM NobodySleeps == Spec => []NobodySleepsAfterStop
<1>1. SleepInv => NobodySleepsAfterStop
  BY DEF SleepInv
<1>. QED BY <1>1, SleepInvariant, PTL

LEMMA NextNoLostWakeup ==
  ASSUME TypeOK, SleepInv, NoLostWakeup, [Next]_vars
  PROVE  NoLostWakeup'
<1>. DEFINE C == Cardinality(Looking)
<1>1. /\ C \in Nat /\ C' \in Nat /\ notifies \in Nat /\ Len(m_Tasks) \in Nat
      /\ Waiting # {} => Len(m_Tasks) <= notifies + C
      /\ (Waiting' # {} => Len(m_Tasks') <= notifies' + C') => NoLostWakeup'
  BY LookingFinite DEF TypeOK, NoLostWakeup, Looking
<1>. HIDE DEF C
<1>2. CASE UNCHANGED <<pc, m_Tasks, notifies>>
  <2>1. C' = C /\ Waiting' = Waiting
    BY <1>2 DEF C, Looking, Waiting
  <2>. QED BY <1>1, <1>2, <2>1
<1>3. ASSUME NEW t \in Tasks, Enqueue(t)
      PROVE  NoLostWakeup'
  <2>1. C' = C /\ Waiting' = Waiting
    BY <1>3 DEF C, Looking, Waiting, Enqueue
  <2>2. Len(m_Tasks') = Len(m_Tasks) + 1 /\ notifies' = notifies + 1
    BY <1>3 DEF Enqueue, TypeOK
  <2>. QED BY <1>1, <2>1, <2>2
<1>4. CASE Notify
  <2>1. notifies' = notifies - 1 /\ m_Tasks' = m_Tasks
    BY <1>4 DEF Notify
  <2>2. CASE Waiting = {} /\ UNCHANGED pc
    <3>1. Waiting' = {}
      BY <2>2 DEF Waiting
    <3>. QED BY <1>1, <3>1
  <2>3. ASSUME NEW w \in Waiting, pc' = Awake({w})
        PROVE  NoLostWakeup'
    <3>1. w \notin Looking /\ Looking' = Looking \cup {w}
      BY <2>3 DEF Waiting, Looking, Awake
    <3>2. C' = C + 1
      BY <3>1, LookingGrows DEF C
    <3>3. Waiting # {}
      BY <2>3
    <3>. QED BY <1>1, <2>1, <3>2, <3>3
  <2>. QED BY <1>4, <2>2, <2>3 DEF Notify
<1>5. ASSUME NEW w \in Workers, TestStop(w)
      PROVE  NoLostWakeup'
  <2>1. m_Tasks' = m_Tasks /\ notifies' = notifies
    BY <1>5 DEF TestStop
  <2>2. CASE w \in stop_requested
    <3>1. owner \in {"request", "done"}
      BY <2>2 DEF SleepInv, TypeOK, OwnerLabels
    <3>2. Waiting = {}
      BY <3>1 DEF SleepInv, NobodySleepsAfterStop
    <3>3. Waiting' = {}
      BY <1>5, <2>2, <3>2 DEF TestStop, Goto, Waiting, TypeOK
    <3>. QED BY <1>1, <3>3
  <2>3. CASE w \notin stop_requested
    <3>1. Looking' = Looking /\ Waiting' = Waiting
      BY <1>5, <2>3 DEF TestStop, Goto, Looking, Waiting, TypeOK
    <3>. QED BY <1>1, <2>1, <3>1 DEF C
  <2>. QED BY <2>2, <2>3
<1>6. ASSUME NEW w \in Workers, Wait(w)
      PROVE  NoLostWakeup'
  <2>1. Len(m_Tasks') = 0 /\ notifies' \in Nat
    BY <1>1, <1>6 DEF Wait
  <2>2. Len(m_Tasks') <= notifies' + C'
    BY <1>1, <2>1 DEF C
  <2>. QED BY <1>1, <2>2
<1>7. ASSUME NEW w \in Workers, Leave(w)
      PROVE  NoLostWakeup'
  <2>1. Len(m_Tasks') = 0 /\ notifies' \in Nat
    BY <1>1, <1>7 DEF Leave
  <2>2. Len(m_Tasks') <= notifies' + C'
    BY <1>1, <2>1 DEF C
  <2>. QED BY <1>1, <2>2
<1>8. ASSUME NEW w \in Workers, Fetch(w)
      PROVE  NoLostWakeup'
  <2>1. w \in Looking /\ Looking' = Looking \ {w} /\ Waiting' = Waiting
    BY <1>8 DEF Fetch, Goto, Looking, Waiting, TypeOK
  <2>2. C' = C - 1
    BY <2>1, LookingShrinks DEF C
  <2>3. Len(m_Tasks') = Len(m_Tasks) - 1 /\ notifies' = notifies
    BY <1>8 DEF Fetch, TypeOK
  <2>. QED BY <1>1, <2>1, <2>2, <2>3
<1>9. ASSUME NEW w \in Workers, Finish(w) \/ SpuriousWakeup(w)
      PROVE  NoLostWakeup'
  <2>1. /\ w \notin Looking
        /\ Looking' = Looking \cup {w}
        /\ Waiting' \subseteq Waiting
        /\ UNCHANGED <<m_Tasks, notifies>>
    BY <1>9 DEF Finish, SpuriousWakeup, Goto, Looking, Waiting, TypeOK
  <2>2. C' = C + 1
    BY <2>1, LookingGrows DEF C
  <2>. QED BY <1>1, <2>1, <2>2
<1>10. CASE StopNotify
  <2>1. Waiting' = {}
    BY <1>10 DEF StopNotify, Awake, Waiting
  <2>. QED BY <1>1, <2>1
<1>11. CASE Dismiss \/ StopSet \/ StopJoin \/ \E w \in Workers : StopRequest(w)
  BY <1>2, <1>11 DEF Dismiss, StopSet, StopJoin, StopRequest
<1>12. CASE UNCHANGED vars
  BY <1>2, <1>12 DEF vars
<1>. QED
  BY <1>3, <1>4, <1>5, <1>6, <1>7, <1>8, <1>9, <1>10, <1>11, <1>12
     DEF Next, WorkerStep, StopAll

(* No wakeup is lost, although notify_one is called outside the mutex: as  *)
(* long as a worker sleeps, each queued task has a worker about to look at *)
(* the queue or a notification to come.                                    *)
THEOREM Wakeups == Spec => []NoLostWakeup
<1>1. Init => NoLostWakeup
  BY DEF Init, NoLostWakeup, Waiting
<1>2. TypeOK /\ SleepInv /\ NoLostWakeup /\ [Next]_vars => NoLostWakeup'
  BY NextNoLostWakeup
<1>. QED BY <1>1, <1>2, PoolTypeCorrect, SleepInvariant, PTL DEF Spec

=============================================================================
