----------------------------- MODULE ThreadPool -----------------------------
(***************************************************************************)
(* aero::ThreadPool (aerolib/src/aero/core/threads.h, threads.cpp), the    *)
(* pool that runs the scan thread of the device and the accept, stream and *)
(* client handler threads of every server.                                 *)
(*                                                                         *)
(* m_QueueMutex makes each access to m_Tasks and m_Stop one step.  The     *)
(* notifications are made outside the mutex and are steps of their own.    *)
(* A worker inside m_Condition.wait may wake at any time.  A task is a     *)
(* model value that is enqueued at most once; the tasks in Endless only    *)
(* return after the owner of the pool has cleared the flag they poll       *)
(* (Mps::m_Running, Server::m_ServerIsRunning), which the owner does       *)
(* before it calls StopAll.                                                *)
(***************************************************************************)
EXTENDS Naturals, Sequences, FiniteSets

CONSTANTS
  Workers,   (* the threads of m_Threads                                   *)
  Tasks,     (* the functions that may be enqueued                         *)
  Endless,   (* those that run until their owner dismisses them            *)
  NoTask     (* a worker that runs nothing                                 *)

ASSUME WorkersFinite == IsFiniteSet(Workers)
ASSUME TasksTyped == Endless \subseteq Tasks /\ NoTask \notin Tasks

VARIABLES
  m_Tasks,         (* the queue                                            *)
  m_Stop,
  pc,              (* where each worker is                                 *)
  job,             (* the task each worker runs                            *)
  stop_requested,  (* the workers whose stop_token is set                  *)
  owner,           (* where the owner is in dismissing the pool            *)
  notifies,        (* calls of notify_one that Enqueue still has to make   *)
  fresh,           (* tasks not enqueued yet                               *)
  enqueued,        (* history: tasks in the order of their Enqueue         *)
  started          (* history: tasks in the order workers took them        *)

history == <<enqueued, started>>
vars == <<m_Tasks, m_Stop, pc, job, stop_requested, owner, notifies, fresh,
          enqueued, started>>

WorkerLabels == {"test", "lock", "waiting", "run", "exited"}
OwnerLabels == {"using", "dismissed", "notify", "request", "done"}

Awake(ws) == [w \in Workers |-> IF w \in ws THEN "lock" ELSE pc[w]]
Waiting == {w \in Workers : pc[w] = "waiting"}

(* The constructor: the workers have started, none has taken the mutex.    *)
Init ==
  /\ m_Tasks = <<>>
  /\ m_Stop = FALSE
  /\ pc = [w \in Workers |-> "test"]
  /\ job = [w \in Workers |-> NoTask]
  /\ stop_requested = {}
  /\ owner = "using"
  /\ notifies = 0
  /\ fresh = Tasks
  /\ enqueued = <<>>
  /\ started = <<>>

-----------------------------------------------------------------------------
(* Enqueue: the push under the mutex, then notify_one.                     *)

Enqueue(t) ==
  /\ t \in fresh
  /\ fresh' = fresh \ {t}
  /\ m_Tasks' = Append(m_Tasks, t)
  /\ enqueued' = Append(enqueued, t)
  /\ notifies' = notifies + 1
  /\ UNCHANGED <<m_Stop, pc, job, stop_requested, owner, started>>

(* Fault: the push is not announced.                                       *)
NotifyNobody ==
  /\ notifies > 0
  /\ notifies' = notifies - 1
  /\ UNCHANGED <<m_Tasks, m_Stop, pc, job, stop_requested, owner, fresh, history>>

(* notify_one wakes one of the waiting workers and is lost if there is none*)
Notify ==
  /\ notifies > 0
  /\ notifies' = notifies - 1
  /\ \/ Waiting = {} /\ UNCHANGED pc
     \/ \E w \in Waiting : pc' = Awake({w})
  /\ UNCHANGED <<m_Tasks, m_Stop, job, stop_requested, owner, fresh, history>>

-----------------------------------------------------------------------------
(* The loop of a worker.                                                   *)

Goto(w, from, to) ==
  /\ pc[w] = from
  /\ pc' = [pc EXCEPT ![w] = to]

(* while (!stop.stop_requested())                                          *)
TestStop(w) ==
  /\ Goto(w, "test", IF w \in stop_requested THEN "exited" ELSE "lock")
  /\ UNCHANGED <<m_Tasks, m_Stop, job, stop_requested, owner, notifies, fresh,
                 history>>

(* Under the mutex, first or after waking: the predicate of wait is false. *)
Wait(w) ==
  /\ m_Tasks = <<>> /\ ~m_Stop
  /\ Goto(w, "lock", "waiting")
  /\ UNCHANGED <<m_Tasks, m_Stop, job, stop_requested, owner, notifies, fresh,
                 history>>

SpuriousWakeup(w) ==
  /\ Goto(w, "waiting", "lock")
  /\ UNCHANGED <<m_Tasks, m_Stop, job, stop_requested, owner, notifies, fresh,
                 history>>

(* if (m_Stop && m_Tasks.empty()) return;                                  *)
Leave(w) ==
  /\ m_Tasks = <<>> /\ m_Stop
  /\ Goto(w, "lock", "exited")
  /\ UNCHANGED <<m_Tasks, m_Stop, job, stop_requested, owner, notifies, fresh,
                 history>>

(* Fault: a worker takes from the queue without looking again after it     *)
(* woke; front() of an empty queue is no task.                             *)
FetchUnchecked(w) ==
  /\ Goto(w, "lock", "run")
  /\ m_Tasks' = IF m_Tasks = <<>> THEN <<>> ELSE Tail(m_Tasks)
  /\ job' = [job EXCEPT ![w] = IF m_Tasks = <<>> THEN NoTask ELSE Head(m_Tasks)]
  /\ started' = IF m_Tasks = <<>> THEN started
                                  ELSE Append(started, Head(m_Tasks))
  /\ UNCHANGED <<m_Stop, stop_requested, owner, notifies, fresh, enqueued>>

(* Fault: the task is copied from the front but not popped.                *)
FetchWithoutPop(w) ==
  /\ m_Tasks # <<>>
  /\ Goto(w, "lock", "run")
  /\ job' = [job EXCEPT ![w] = Head(m_Tasks)]
  /\ started' = Append(started, Head(m_Tasks))
  /\ UNCHANGED <<m_Tasks, m_Stop, stop_requested, owner, notifies, fresh,
                 enqueued>>

(* task = std::move(m_Tasks.front()); m_Tasks.pop(); after m_Stop as well. *)
Fetch(w) ==
  /\ m_Tasks # <<>>
  /\ Goto(w, "lock", "run")
  /\ m_Tasks' = Tail(m_Tasks)
  /\ job' = [job EXCEPT ![w] = Head(m_Tasks)]
  /\ started' = Append(started, Head(m_Tasks))
  /\ UNCHANGED <<m_Stop, stop_requested, owner, notifies, fresh, enqueued>>

(* task() returns.                                                         *)
Finish(w) ==
  /\ job[w] \in Endless => owner # "using"
  /\ Goto(w, "run", "test")
  /\ job' = [job EXCEPT ![w] = NoTask]
  /\ UNCHANGED <<m_Tasks, m_Stop, stop_requested, owner, notifies, fresh,
                 history>>

WorkerStep(w) ==
  TestStop(w) \/ Wait(w) \/ Leave(w) \/ Fetch(w) \/ Finish(w)

-----------------------------------------------------------------------------
(* The end of a pool.                                                      *)

OwnerGoto(from, to) == owner = from /\ owner' = to

(* The owner clears the flag that its endless tasks poll.                  *)
Dismiss ==
  /\ OwnerGoto("using", "dismissed")
  /\ UNCHANGED <<m_Tasks, m_Stop, pc, job, stop_requested, notifies, fresh,
                 history>>

(* StopAll: m_Stop, notify_all, request_stop on each thread, join.         *)
StopSet ==
  /\ OwnerGoto("dismissed", "notify")
  /\ m_Stop' = TRUE
  /\ UNCHANGED <<m_Tasks, pc, job, stop_requested, notifies, fresh, history>>

(* Fault: one worker is woken instead of all.                              *)
StopNotifyOne ==
  /\ OwnerGoto("notify", "request")
  /\ \/ Waiting = {} /\ UNCHANGED pc
     \/ \E w \in Waiting : pc' = Awake({w})
  /\ UNCHANGED <<m_Tasks, m_Stop, job, stop_requested, notifies, fresh, history>>

StopNotify ==
  /\ OwnerGoto("notify", "request")
  /\ pc' = Awake(Waiting)
  /\ UNCHANGED <<m_Tasks, m_Stop, job, stop_requested, notifies, fresh, history>>

StopRequest(w) ==
  /\ owner = "request"
  /\ w \notin stop_requested
  /\ stop_requested' = stop_requested \cup {w}
  /\ UNCHANGED <<m_Tasks, m_Stop, pc, job, owner, notifies, fresh, history>>

StopJoin ==
  /\ stop_requested = Workers
  /\ \A w \in Workers : pc[w] = "exited"
  /\ OwnerGoto("request", "done")
  /\ UNCHANGED <<m_Tasks, m_Stop, pc, job, stop_requested, notifies, fresh,
                 history>>

StopAll ==
  StopSet \/ StopNotify \/ StopJoin \/ \E w \in Workers : StopRequest(w)

-----------------------------------------------------------------------------
Next ==
  \/ \E t \in Tasks : Enqueue(t)
  \/ Notify
  \/ \E w \in Workers : WorkerStep(w) \/ SpuriousWakeup(w)
  \/ Dismiss
  \/ StopAll

Spec == Init /\ [][Next]_vars

(* Threads run: workers, an Enqueue that was begun and a StopAll that was  *)
(* begun make progress, tasks that are not endless return, and so do the   *)
(* endless ones once dismissed.  Nothing is enqueued, no worker wakes and  *)
(* no pool is dismissed of necessity.                                      *)
Fairness ==
  /\ \A w \in Workers : WF_vars(WorkerStep(w))
  /\ WF_vars(Notify)
  /\ WF_vars(StopAll)

FairSpec == Spec /\ Fairness

-----------------------------------------------------------------------------
(* Properties.                                                             *)

(* Types; a worker that runs, runs a task: front() is never taken of an    *)
(* empty queue.                                                            *)
TypeOK ==
  /\ m_Tasks \in Seq(Tasks)
  /\ m_Stop \in BOOLEAN
  /\ pc \in [Workers -> WorkerLabels]
  /\ job \in [Workers -> Tasks \cup {NoTask}]
  /\ \A w \in Workers : pc[w] = "run" <=> job[w] # NoTask
  /\ stop_requested \subseteq Workers
  /\ owner \in OwnerLabels
  /\ notifies \in Nat
  /\ fresh \subseteq Tasks
  /\ enqueued \in Seq(Tasks)
  /\ started \in Seq(Tasks)

(* Whatever the workers do, tasks start in the order in which they were    *)
(* enqueued, each once, and none leaves the queue otherwise (threads.cpp   *)
(* 26-27 and 48).                                                          *)
FifoOnce == enqueued = started \o m_Tasks

(* As long as a worker sleeps there is, for every queued task, a worker    *)
(* that is going to look at the queue or a notification yet to be made:    *)
(* no order of pushes, wakeups and looks leaves a task behind (threads.cpp *)
(* 21 and 43-50, where notify_one is outside the mutex).                   *)
NoLostWakeup ==
  Waiting # {} =>
    Len(m_Tasks) <= notifies
                    + Cardinality({w \in Workers : pc[w] \in {"test", "lock"}})

(* After notify_all nobody sleeps: request_stop does not wake a plain      *)
(* condition_variable, so a worker asleep then would never be joined       *)
(* (threads.cpp 53-84).                                                    *)
NobodySleepsAfterStop ==
  owner \in {"request", "done"} => Waiting = {}

(* StopAll returns (threads.cpp 75-84 joins every worker).                 *)
StopReturns == owner = "dismissed" ~> owner = "done"

(* A task that is enqueued is started unless the pool is dismissed, if the *)
(* pool has more workers than endless tasks.                               *)
Started(t) == \E i \in DOMAIN started : started[i] = t
Enqueued(t) == \E i \in DOMAIN enqueued : enqueued[i] = t

EnqueuedIsStarted ==
  \A t \in Tasks : Enqueued(t) ~> (Started(t) \/ owner # "using")

=============================================================================
