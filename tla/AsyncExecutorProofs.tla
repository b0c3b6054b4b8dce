------------------------- MODULE AsyncExecutorProofs -------------------------
(***************************************************************************)
(* The thread pool, for any number of workers, clients and tasks: no task  *)
(* is lost or run twice, no wake-up is lost, and the destructor returns    *)
(* only when everything has been done.                                     *)
(***************************************************************************)
EXTENDS AsyncExecutor, TLAPS

\* The types of the variables.
PoolTypes ==
  /\ tasks \in Seq(Tasks)
  /\ stopping \in BOOLEAN
  /\ sleeping \subseteq Workers
  /\ worker \in [Workers -> {"unborn", "loop", "run", "exited"}]
  /\ current \in [Workers -> SUBSET Tasks]
  /\ client \subseteq Clients
  /\ owner \in {"constructing", "alive", "stopped", "joining", "destroyed"}
  /\ submitted \subseteq Tasks /\ finished \subseteq Tasks

\* How far the owner is tells what the workers may be doing: all are started
\* before anyone can submit, and one leaves its loop only when stopping_ is
\* set and the queue is empty, which it then stays.
OwnerAndWorkers ==
  /\ stopping <=> owner \in {"stopped", "joining", "destroyed"}
  /\ \A w \in Workers :
       /\ worker[w] = "unborn" => owner = "constructing"
       /\ worker[w] = "exited" => stopping /\ tasks = <<>>
       /\ owner = "destroyed" => worker[w] = "exited"
       /\ w \in sleeping => worker[w] = "loop"
       /\ worker[w] # "run" => current[w] = {}

\* The inductive invariant.
PoolInv ==
  /\ PoolTypes
  /\ OwnerAndWorkers
  /\ TasksAreInOnePlace
  /\ WorkIsNoticed

-----------------------------------------------------------------------------
(* The queue and the workers' tasks.                                       *)

\* A task put at the end of the queue is one more task in it.
LEMMA QueueGrows ==
  ASSUME NEW k \in Tasks, tasks \in Seq(Tasks), k \notin Queued,
         tasks' = Append(tasks, k),
         \A i, j \in DOMAIN tasks : tasks[i] = tasks[j] => i = j
  PROVE  /\ tasks' \in Seq(Tasks) /\ tasks' # <<>>
         /\ Queued' = Queued \cup {k}
         /\ \A i, j \in DOMAIN tasks' : tasks'[i] = tasks'[j] => i = j
<1>1. /\ Len(tasks) \in Nat /\ DOMAIN tasks = 1 .. Len(tasks)
      /\ tasks' \in Seq(Tasks) /\ Len(tasks') = Len(tasks) + 1
      /\ DOMAIN tasks' = 1 .. Len(tasks) + 1
      /\ \A i \in 1 .. Len(tasks) : tasks'[i] = tasks[i]
      /\ tasks'[Len(tasks) + 1] = k
  OBVIOUS
<1>2. tasks' # <<>>
  BY <1>1
<1>3. Queued' = Queued \cup {k}
  BY <1>1 DEF Queued
<1>4. ASSUME NEW i \in DOMAIN tasks', NEW j \in DOMAIN tasks',
             tasks'[i] = tasks'[j]
      PROVE  i = j
  BY <1>1, <1>4 DEF Queued
<1> QED BY <1>1, <1>2, <1>3, <1>4

\* Taking the first task leaves the others.
LEMMA QueueShrinks ==
  ASSUME tasks \in Seq(Tasks), tasks # <<>>, tasks' = Tail(tasks),
         \A i, j \in DOMAIN tasks : tasks[i] = tasks[j] => i = j
  PROVE  /\ tasks' \in Seq(Tasks)
         /\ Head(tasks) \in Queued /\ Head(tasks) \in Tasks
         /\ Queued' = Queued \ {Head(tasks)}
         /\ \A i, j \in DOMAIN tasks' : tasks'[i] = tasks'[j] => i = j
<1>1. /\ Len(tasks) \in Nat \ {0} /\ DOMAIN tasks = 1 .. Len(tasks)
      /\ tasks' \in Seq(Tasks) /\ DOMAIN tasks' = 1 .. Len(tasks) - 1
      /\ \A i \in 1 .. Len(tasks) - 1 : tasks'[i] = tasks[i + 1]
      /\ Head(tasks) = tasks[1] /\ tasks[1] \in Tasks
  OBVIOUS
<1>2. Head(tasks) \in Queued
  BY <1>1 DEF Queued
<1>3. Queued' = Queued \ {Head(tasks)}
  <2>1. ASSUME NEW k \in Queued'
        PROVE  k \in Queued \ {Head(tasks)}
    <3>1. PICK i \in 1 .. Len(tasks) - 1 : k = tasks[i + 1]
      BY <2>1, <1>1 DEF Queued
    <3>2. i + 1 \in DOMAIN tasks /\ 1 \in DOMAIN tasks /\ i + 1 # 1
      BY <1>1
    <3> QED BY <1>1, <3>1, <3>2 DEF Queued
  <2>2. ASSUME NEW k \in Queued, k # Head(tasks)
        PROVE  k \in Queued'
    <3>1. PICK i \in 1 .. Len(tasks) : k = tasks[i]
      BY <2>2, <1>1 DEF Queued
    <3>2. i - 1 \in 1 .. Len(tasks) - 1 /\ (i - 1) + 1 = i
      BY <1>1, <2>2, <3>1
    <3>3. i - 1 \in DOMAIN tasks' /\ tasks'[i - 1] = k
      BY <1>1, <3>1, <3>2
    <3> QED BY <3>3 DEF Queued
  <2> QED BY <2>1, <2>2
<1>4. ASSUME NEW i \in DOMAIN tasks', NEW j \in DOMAIN tasks',
             tasks'[i] = tasks'[j]
      PROVE  i = j
  <2>1. i + 1 \in DOMAIN tasks /\ j + 1 \in DOMAIN tasks
    BY <1>1
  <2>2. i + 1 = j + 1
    BY <1>1, <1>4, <2>1
  <2> QED BY <1>1, <2>2
<1> QED BY <1>1, <1>2, <1>3, <1>4

-----------------------------------------------------------------------------
(* Steps that move no task.                                                *)

\* The queue, the workers' tasks and the finished ones are as they were.
LEMMA TasksStay ==
  ASSUME TasksAreInOnePlace,
         UNCHANGED <<tasks, current, submitted, finished>>
  PROVE  TasksAreInOnePlace'
  BY DEF TasksAreInOnePlace, Queued, Running

\* The constructor starts a worker.
LEMMA StartWorkerInv ==
  ASSUME PoolInv, NEW w \in Workers, StartWorker(w)
  PROVE  PoolInv'
<1> USE DEF PoolInv, StartWorker
<1>1. TasksAreInOnePlace'
  BY TasksStay
<1>2. PoolTypes'
  BY DEF PoolTypes
<1>3. OwnerAndWorkers'
  BY DEF OwnerAndWorkers, PoolTypes
<1>4. WorkIsNoticed'
  <2> SUFFICES ASSUME owner' # "constructing", tasks # <<>>
               PROVE  w \notin sleeping /\ worker'[w] = "loop"
    BY DEF WorkIsNoticed
  <2> QED BY DEF OwnerAndWorkers, PoolTypes
<1> QED BY <1>1, <1>2, <1>3, <1>4

\* The destructor sets stopping_, notifies, and has joined the workers.
LEMMA DestructorInv ==
  ASSUME PoolInv, Stop \/ NotifyStop \/ Joined
  PROVE  PoolInv'
<1> USE DEF PoolInv
<1>1. TasksAreInOnePlace'
  BY TasksStay DEF Stop, NotifyStop, Joined
<1>2. PoolTypes'
  BY DEF PoolTypes, Stop, NotifyStop, Joined
<1>3. OwnerAndWorkers'
  BY DEF OwnerAndWorkers, PoolTypes, Stop, NotifyStop, Joined
<1>4. WorkIsNoticed'
  <2>1. CASE Stop \/ Joined
    BY <2>1 DEF WorkIsNoticed, Stop, Joined
  <2>2. CASE NotifyStop
    <3> SUFFICES ASSUME tasks # <<>>
                 PROVE  \E w \in Workers : worker[w] \in {"loop", "run"}
      BY <2>2 DEF WorkIsNoticed, NotifyStop
    <3>1. PICK w \in Workers : TRUE
      BY PoolAssumption
    <3>2. worker[w] # "unborn" /\ worker[w] # "exited"
      BY <2>2 DEF OwnerAndWorkers, NotifyStop
    <3> QED BY <3>2 DEF PoolTypes
  <2> QED BY <2>1, <2>2
<1> QED BY <1>1, <1>2, <1>3, <1>4

\* A client's notify_one: it wakes a sleeper, or there is none and then all
\* the workers are up.
LEMMA NotifyTaskInv ==
  ASSUME PoolInv, NEW c \in Clients, NotifyTask(c)
  PROVE  PoolInv'
<1> USE DEF PoolInv
<1>1. TasksAreInOnePlace'
  BY TasksStay DEF NotifyTask
<1>2. PoolTypes'
  BY DEF PoolTypes, NotifyTask
<1>3. OwnerAndWorkers'
  BY DEF OwnerAndWorkers, PoolTypes, NotifyTask
<1>4. WorkIsNoticed'
  <2> SUFFICES ASSUME tasks # <<>>, owner # "constructing"
               PROVE  \E w \in Workers : /\ worker[w] \in {"loop", "run"}
                                         /\ w \notin sleeping'
    BY DEF WorkIsNoticed, NotifyTask
  <2>1. CASE sleeping = {}
    <3>1. PICK w \in Workers : TRUE
      BY PoolAssumption
    <3>2. worker[w] # "unborn" /\ worker[w] # "exited"
      BY DEF OwnerAndWorkers
    <3> QED BY <2>1, <3>2 DEF PoolTypes, NotifyTask
  <2>2. CASE sleeping # {}
    <3>1. PICK w \in sleeping : sleeping' = sleeping \ {w}
      BY <2>2 DEF NotifyTask
    <3> QED BY <3>1 DEF PoolTypes, OwnerAndWorkers
  <2> QED BY <2>1, <2>2
<1> QED BY <1>1, <1>2, <1>3, <1>4

\* A worker goes to sleep, wakes up for no reason, or leaves its loop.
LEMMA IdleWorkerInv ==
  ASSUME PoolInv, NEW w \in Workers, Sleep(w) \/ SpuriousWake(w) \/ Exit(w)
  PROVE  PoolInv'
<1> USE DEF PoolInv
<1>1. TasksAreInOnePlace'
  BY TasksStay DEF Sleep, SpuriousWake, Exit
<1>2. PoolTypes'
  BY DEF PoolTypes, Sleep, SpuriousWake, Exit
<1>3. OwnerAndWorkers'
  BY DEF OwnerAndWorkers, PoolTypes, Sleep, SpuriousWake, Exit, AtPredicate,
         MayExit
<1>4. WorkIsNoticed'
  BY DEF WorkIsNoticed, Sleep, SpuriousWake, Exit, MayExit
<1> QED BY <1>1, <1>2, <1>3, <1>4

-----------------------------------------------------------------------------
(* Steps that move a task.                                                 *)

\* Submit: the new task is in the queue and its client has yet to notify.
LEMMA SubmitInv ==
  ASSUME PoolInv, NEW c \in Clients, NEW k \in Tasks, Submit(c, k)
  PROVE  PoolInv'
<1> USE DEF PoolInv, Submit
<1>1. k \notin Queued /\ k \notin Running /\ k \notin finished
  BY DEF TasksAreInOnePlace
<1>2. /\ tasks' \in Seq(Tasks) /\ tasks' # <<>>
      /\ Queued' = Queued \cup {k}
      /\ \A i, j \in DOMAIN tasks' : tasks'[i] = tasks'[j] => i = j
  BY <1>1, QueueGrows DEF PoolTypes, TasksAreInOnePlace
<1>3. Running' = Running
  BY DEF Running
<1>4. TasksAreInOnePlace'
  BY <1>1, <1>2, <1>3 DEF TasksAreInOnePlace
<1>5. PoolTypes'
  BY <1>2 DEF PoolTypes
<1>6. OwnerAndWorkers'
  BY <1>2 DEF OwnerAndWorkers, PoolTypes
<1>7. WorkIsNoticed'
  BY DEF WorkIsNoticed
<1> QED BY <1>4, <1>5, <1>6, <1>7

\* A worker takes the first task from the queue.
LEMMA TakeInv ==
  ASSUME PoolInv, NEW w \in Workers, Take(w)
  PROVE  PoolInv'
<1> DEFINE k == Head(tasks)
<1> USE DEF PoolInv, Take, AtPredicate
<1>1. /\ tasks' \in Seq(Tasks) /\ k \in Queued /\ k \in Tasks
      /\ Queued' = Queued \ {k}
      /\ \A i, j \in DOMAIN tasks' : tasks'[i] = tasks'[j] => i = j
  BY QueueShrinks DEF PoolTypes, TasksAreInOnePlace
<1>2. /\ current[w] = {} /\ current'[w] = {k}
      /\ \A v \in Workers \ {w} : current'[v] = current[v]
  BY DEF OwnerAndWorkers, PoolTypes
<1>3. Running' = Running \cup {k}
  BY <1>2 DEF Running
<1>4. k \notin Running /\ k \notin finished
  BY <1>1 DEF TasksAreInOnePlace
<1>5. \A v \in Workers : k \notin current[v]
  BY <1>4 DEF Running
<1>6. TasksAreInOnePlace'
  <2>1. /\ submitted' = Queued' \cup Running' \cup finished'
        /\ Queued' \cap Running' = {} /\ Queued' \cap finished' = {}
        /\ Running' \cap finished' = {}
    BY <1>1, <1>3, <1>4 DEF TasksAreInOnePlace
  <2>2. \A u, v \in Workers : current'[u] \cap current'[v] # {} => u = v
    BY <1>2, <1>5 DEF TasksAreInOnePlace
  <2> QED BY <1>1, <2>1, <2>2 DEF TasksAreInOnePlace
<1>7. PoolTypes'
  BY <1>1 DEF PoolTypes
<1>8. OwnerAndWorkers'
  BY <1>2 DEF OwnerAndWorkers, PoolTypes
<1>9. WorkIsNoticed'
  BY DEF WorkIsNoticed, PoolTypes
<1> QED BY <1>6, <1>7, <1>8, <1>9

\* The task has run: its future is ready.
LEMMA RunInv ==
  ASSUME PoolInv, NEW w \in Workers, Run(w)
  PROVE  PoolInv'
<1> USE DEF PoolInv, Run
<1>1. /\ current'[w] = {} /\ finished' = finished \cup current[w]
      /\ \A v \in Workers \ {w} : current'[v] = current[v]
  BY DEF PoolTypes
<1>2. Running' = Running \ current[w]
  <2>1. \A v \in Workers \ {w} : current[v] \cap current[w] = {}
    BY DEF TasksAreInOnePlace
  <2> QED BY <1>1, <2>1 DEF Running
<1>3. current[w] \subseteq Running /\ Queued' = Queued
  BY DEF Running, Queued
<1>4. TasksAreInOnePlace'
  <2>1. /\ submitted' = Queued' \cup Running' \cup finished'
        /\ Queued' \cap Running' = {} /\ Queued' \cap finished' = {}
        /\ Running' \cap finished' = {}
    BY <1>1, <1>2, <1>3 DEF TasksAreInOnePlace
  <2>2. \A u, v \in Workers : current'[u] \cap current'[v] # {} => u = v
    BY <1>1 DEF TasksAreInOnePlace
  <2> QED BY <2>1, <2>2 DEF TasksAreInOnePlace
<1>5. PoolTypes'
  BY DEF PoolTypes
<1>6. OwnerAndWorkers'
  BY <1>1 DEF OwnerAndWorkers, PoolTypes
<1>7. WorkIsNoticed'
  <2>1. worker'[w] = "loop" /\ w \notin sleeping
    BY DEF OwnerAndWorkers, PoolTypes
  <2> QED BY <2>1 DEF WorkIsNoticed
<1> QED BY <1>4, <1>5, <1>6, <1>7

-----------------------------------------------------------------------------

\* The pool as it is constructed.
LEMMA PoolInitInv == Init => PoolInv
<1> SUFFICES ASSUME Init PROVE PoolInv
  OBVIOUS
<1> USE DEF Init
<1>1. Queued = {} /\ Running = {}
  BY DEF Queued, Running
<1>2. TasksAreInOnePlace
  BY <1>1 DEF TasksAreInOnePlace
<1>3. PoolTypes
  <2>1. tasks \in Seq(Tasks) /\ current \in [Workers -> SUBSET Tasks]
    OBVIOUS
  <2>2. worker \in [Workers -> {"unborn", "loop", "run", "exited"}]
    OBVIOUS
  <2> QED BY <2>1, <2>2 DEF PoolTypes
<1>4. OwnerAndWorkers /\ WorkIsNoticed
  BY DEF OwnerAndWorkers, WorkIsNoticed
<1> QED BY <1>2, <1>3, <1>4 DEF PoolInv

\* PoolInv is inductive.
THEOREM PoolInvariance == Spec => []PoolInv
<1>1. PoolInv /\ [Next]_vars => PoolInv'
  <2> SUFFICES ASSUME PoolInv, [Next]_vars
               PROVE  PoolInv'
    OBVIOUS
  <2>1. CASE UNCHANGED vars
    BY <2>1, TasksStay DEF PoolInv, PoolTypes, OwnerAndWorkers, WorkIsNoticed,
                           vars
  <2>2. ASSUME NEW w \in Workers, StartWorker(w) \/ Work(w) \/ SpuriousWake(w)
        PROVE  PoolInv'
    BY <2>2, StartWorkerInv, IdleWorkerInv, TakeInv, RunInv DEF Work
  <2>3. ASSUME NEW c \in Clients, NotifyTask(c) \/ \E k \in Tasks : Submit(c, k)
        PROVE  PoolInv'
    BY <2>3, NotifyTaskInv, SubmitInv
  <2>4. CASE Stop \/ NotifyStop \/ Joined
    BY <2>4, DestructorInv
  <2> QED BY <2>1, <2>2, <2>3, <2>4 DEF Next
<1> QED BY PoolInitInv, <1>1, PTL DEF Spec

\* A task that Submit accepted is queued, with one worker, or done.
THEOREM TasksAlwaysInOnePlace == Spec => []TasksAreInOnePlace
<1>1. PoolInv => TasksAreInOnePlace
  BY DEF PoolInv
<1> QED BY <1>1, PoolInvariance, PTL

\* While the queue is not empty, a worker is up or a client will notify.
THEOREM WorkAlwaysNoticed == Spec => []WorkIsNoticed
<1>1. PoolInv => WorkIsNoticed
  BY DEF PoolInv
<1> QED BY <1>1, PoolInvariance, PTL

\* The destructor returns with every task done and every worker gone.
THEOREM DestroyedAlwaysDrained == Spec => []DestroyedIsDrained
<1>1. PoolInv => DestroyedIsDrained
  <2> SUFFICES ASSUME PoolInv, owner = "destroyed"
               PROVE  submitted = finished
                      /\ \A w \in Workers : worker[w] = "exited"
    BY DEF DestroyedIsDrained
  <2>1. \A w \in Workers : worker[w] = "exited" /\ current[w] = {}
    BY DEF PoolInv, OwnerAndWorkers
  <2>2. tasks = <<>>
    BY <2>1, PoolAssumption DEF PoolInv, OwnerAndWorkers
  <2>3. Queued = {} /\ Running = {}
    BY <2>1, <2>2 DEF Queued, Running
  <2> QED BY <2>1, <2>3 DEF PoolInv, TasksAreInOnePlace
<1> QED BY <1>1, PoolInvariance, PTL
=============================================================================
