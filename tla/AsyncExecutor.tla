---------------------------- MODULE AsyncExecutor ----------------------------
(***************************************************************************)
(* The thread pool behind the Async functions: clients submit tasks to a   *)
(* queue, workers take them, the destructor drains the queue and joins the *)
(* workers.  An action is one critical section of mutex_, or one call made *)
(* outside it: notify_one in Submit and notify_all in the destructor come  *)
(* after the mutex has been released, and so may come late.                *)
(*                                                                         *)
(* What a task does is the subject of BufferManager, where the workers are *)
(* threads like any other; here a task only has to end, which is what      *)
(* BufferManagerProperties!CallsReturn says of it.                         *)
(***************************************************************************)
EXTENDS Naturals, Sequences, FiniteSets

CONSTANTS
  Workers,      \* workers_
  Clients,      \* threads that call Submit
  Tasks         \* the tasks ever submitted (the bound on submissions)

ASSUME PoolAssumption == IsFiniteSet(Tasks) /\ Workers # {}

VARIABLES
  tasks,        \* tasks_
  stopping,     \* stopping_
  sleeping,     \* workers blocked in ready_.wait
  worker,       \* where each worker is
  current,      \* the task of a worker that runs one
  client,       \* clients that have yet to call notify_one
  owner,        \* where the constructor and the destructor are
  submitted,    \* history: tasks accepted by Submit
  finished      \* history: tasks whose future is ready

vars == <<tasks, stopping, sleeping, worker, current, client, owner,
          submitted, finished>>

Init ==
  /\ tasks = <<>>
  /\ stopping = FALSE
  /\ sleeping = {}
  /\ worker = [w \in Workers |-> "unborn"]
  /\ current = [w \in Workers |-> {}]
  /\ client = {}
  /\ owner = "constructing"
  /\ submitted = {} /\ finished = {}

-----------------------------------------------------------------------------
(* The owner: the constructor starts the workers one by one, and those     *)
(* already started run.                                                    *)

StartWorker(w) ==
  /\ owner = "constructing"
  /\ worker[w] = "unborn"
  /\ worker' = [worker EXCEPT ![w] = "loop"]
  /\ owner' = IF \A v \in Workers \ {w} : worker[v] # "unborn"
              THEN "alive" ELSE owner
  /\ UNCHANGED <<tasks, stopping, sleeping, current, client, submitted,
                 finished>>

\* An object may only be destroyed when no one is inside Submit.
Stop ==
  /\ owner = "alive"
  /\ client = {}
  /\ stopping' = TRUE
  /\ owner' = "stopped"
  /\ UNCHANGED <<tasks, sleeping, worker, current, client, submitted, finished>>

\* Mutant: notify_one.
NotifyOneStop ==
  /\ owner = "stopped"
  /\ \/ sleeping = {} /\ UNCHANGED sleeping
     \/ \E w \in sleeping : sleeping' = sleeping \ {w}
  /\ owner' = "joining"
  /\ UNCHANGED <<tasks, stopping, worker, current, client, submitted, finished>>

\* ready_.notify_all()
NotifyStop ==
  /\ owner = "stopped"
  /\ sleeping' = {}
  /\ owner' = "joining"
  /\ UNCHANGED <<tasks, stopping, worker, current, client, submitted, finished>>

Joined ==
  /\ owner = "joining"
  /\ \A w \in Workers : worker[w] = "exited"
  /\ owner' = "destroyed"
  /\ UNCHANGED <<tasks, stopping, sleeping, worker, current, client, submitted,
                 finished>>

-----------------------------------------------------------------------------
(* Submit.  A stopping executor throws, which changes nothing.             *)

Submit(c, k) ==
  /\ owner # "constructing" /\ ~stopping
  /\ c \notin client
  /\ k \notin submitted
  /\ tasks' = Append(tasks, k)
  /\ client' = client \cup {c}
  /\ submitted' = submitted \cup {k}
  /\ UNCHANGED <<stopping, sleeping, worker, current, owner, finished>>

\* ready_.notify_one()
NotifyTask(c) ==
  /\ c \in client
  /\ client' = client \ {c}
  /\ \/ sleeping = {} /\ UNCHANGED sleeping
     \/ \E w \in sleeping : sleeping' = sleeping \ {w}
  /\ UNCHANGED <<tasks, stopping, worker, current, owner, submitted, finished>>

-----------------------------------------------------------------------------
(* WorkerLoop.                                                             *)

\* Worker w has the mutex and evaluates the predicate of ready_.wait.
AtPredicate(w) == worker[w] = "loop" /\ w \notin sleeping

\* Mutant: the predicate is evaluated without the mutex: a task may be queued
\* between the test and the wait.
SleepBlindly(w) ==
  /\ AtPredicate(w)
  /\ ~stopping
  /\ sleeping' = sleeping \cup {w}
  /\ UNCHANGED <<tasks, stopping, worker, current, client, owner, submitted,
                 finished>>

Sleep(w) ==
  /\ AtPredicate(w)
  /\ ~stopping /\ tasks = <<>>
  /\ sleeping' = sleeping \cup {w}
  /\ UNCHANGED <<tasks, stopping, worker, current, client, owner, submitted,
                 finished>>

SpuriousWake(w) ==
  /\ w \in sleeping
  /\ sleeping' = sleeping \ {w}
  /\ UNCHANGED <<tasks, stopping, worker, current, client, owner, submitted,
                 finished>>

\* Mutant: a stopping worker leaves the queue alone.
ExitAtOnce == stopping

\* stopping_ && tasks_.empty()
MayExit == stopping /\ tasks = <<>>

Exit(w) ==
  /\ AtPredicate(w)
  /\ MayExit
  /\ worker' = [worker EXCEPT ![w] = "exited"]
  /\ UNCHANGED <<tasks, stopping, sleeping, current, client, owner, submitted,
                 finished>>

\* Mutant: the task stays in the queue until it has run.
TakeCopy(w) ==
  /\ AtPredicate(w)
  /\ tasks # <<>>
  /\ current' = [current EXCEPT ![w] = {Head(tasks)}]
  /\ worker' = [worker EXCEPT ![w] = "run"]
  /\ UNCHANGED <<tasks, stopping, sleeping, client, owner, submitted, finished>>

Take(w) ==
  /\ AtPredicate(w)
  /\ tasks # <<>>
  /\ current' = [current EXCEPT ![w] = {Head(tasks)}]
  /\ tasks' = Tail(tasks)
  /\ worker' = [worker EXCEPT ![w] = "run"]
  /\ UNCHANGED <<stopping, sleeping, client, owner, submitted, finished>>

\* task(), which leaves a result or an exception in the future.
Run(w) ==
  /\ worker[w] = "run"
  /\ finished' = finished \cup current[w]
  /\ current' = [current EXCEPT ![w] = {}]
  /\ worker' = [worker EXCEPT ![w] = "loop"]
  /\ UNCHANGED <<tasks, stopping, sleeping, client, owner, submitted>>

Work(w) == Sleep(w) \/ Exit(w) \/ Take(w) \/ Run(w)

-----------------------------------------------------------------------------

Next ==
  \/ \E w \in Workers : StartWorker(w) \/ Work(w) \/ SpuriousWake(w)
  \/ \E c \in Clients : NotifyTask(c) \/ \E k \in Tasks : Submit(c, k)
  \/ Stop \/ NotifyStop \/ Joined

Spec == Init /\ [][Next]_vars

\* Threads that can run do run: the workers, a client that has queued a task,
\* the constructor, and a destructor that has begun.  Nobody need submit
\* anything or destroy the executor.
Fairness ==
  /\ \A w \in Workers : WF_vars(Work(w)) /\ WF_vars(StartWorker(w))
  /\ \A c \in Clients : WF_vars(NotifyTask(c))
  /\ WF_vars(NotifyStop) /\ WF_vars(Joined)

LiveSpec == Spec /\ Fairness

-----------------------------------------------------------------------------

Queued == {tasks[i] : i \in DOMAIN tasks}
Running == UNION {current[w] : w \in Workers}

\* A task accepted by Submit is in one place: once in the queue, with one
\* worker, or finished.  It is never lost, run twice or run by two workers.
TasksAreInOnePlace ==
  /\ submitted = Queued \cup Running \cup finished
  /\ Queued \cap Running = {} /\ Queued \cap finished = {}
  /\ Running \cap finished = {}
  /\ \A i, j \in DOMAIN tasks : tasks[i] = tasks[j] => i = j
  /\ \A v, w \in Workers : current[v] \cap current[w] # {} => v = w

\* When the destructor returns, every accepted task has finished and no
\* worker is left: none of them can touch the rest of the buffer manager,
\* whose members are destroyed after the executor, and no future is broken.
DestroyedIsDrained ==
  owner = "destroyed" =>
    /\ submitted = finished
    /\ \A w \in Workers : worker[w] = "exited"

\* No lost wake-up: while there is a task in the queue some worker is up, or
\* a client that queued a task has yet to notify.
WorkIsNoticed ==
  tasks # <<>> /\ owner # "constructing" =>
    \/ client # {}
    \/ \E w \in Workers : worker[w] \in {"loop", "run"} /\ w \notin sleeping

\* Every future becomes ready.
FuturesBecomeReady == \A k \in Tasks : k \in submitted ~> k \in finished

\* The destructor returns.
DestructorReturns == stopping ~> owner = "destroyed"
=============================================================================
