------------------------------ MODULE ThreadPool ------------------------------
(***************************************************************************)
(* The fixed-size thread pool: a deque of tasks and a stop flag under one   *)
(* mutex, a condition variable on which idle workers wait, submit(), and a  *)
(* destructor that stops the workers and joins them.  A task is named by    *)
(* the order of its submission; what it throws stays in its future.         *)
(***************************************************************************)
EXTENDS Naturals, Sequences

CONSTANTS
  Workers,     \* the threads of the pool
  Submitters,  \* the threads that call submit()
  Owner,       \* the thread that destroys the pool
  Nobody,      \* the holder of a free mutex
  MaxTasks     \* bound: how many calls of submit() are made

\* A pool without workers runs nothing.
ASSUME ThreadPoolAssumption ==
    /\ Workers # {}
    /\ Workers \intersect Submitters = {} /\ Owner \notin Workers \union Submitters
    /\ Nobody \notin Workers \union Submitters \union {Owner}
    /\ MaxTasks \in Nat

VARIABLES
  tasks_, stop_,
  mutex_,     \* the thread that holds it
  cv_,        \* the workers asleep on the condition variable
  pc,         \* where each thread is
  task,       \* the task each thread submits or runs, or 0
  calls,      \* how many calls of submit() have begun
  ready       \* the tasks whose future is ready

guarded == <<tasks_, stop_>>
vars == <<guarded, mutex_, cv_, pc, task, calls, ready>>

Thread == Workers \union Submitters \union {Owner}
Task == 1 .. MaxTasks

GoTo(t, label) == pc' = [pc EXCEPT ![t] = label]

Init ==
    /\ tasks_ = <<>> /\ stop_ = FALSE
    /\ mutex_ = Nobody /\ cv_ = {}
    /\ pc = [t \in Thread |-> IF t \in Workers THEN "loop"
                               ELSE IF t = Owner THEN "alive" ELSE "idle"]
    /\ task = [t \in Thread |-> 0]
    /\ calls = 0 /\ ready = {}

\* std::unique_lock lock{mutex_}
Acquire(t, from, to) ==
    /\ pc[t] = from /\ mutex_ = Nobody
    /\ mutex_' = t
    /\ GoTo(t, to)
    /\ UNCHANGED <<guarded, cv_, task, calls, ready>>

\* The end of the lock's scope.
Release(t, to) == mutex_' = Nobody /\ GoTo(t, to)

NotifyNobody == UNCHANGED cv_  \* fault: no worker is woken

\* cv_.notify_one(): some sleeper, if there is one.
NotifyOne == IF cv_ = {} THEN UNCHANGED cv_ ELSE \E w \in cv_ : cv_' = cv_ \ {w}

\* Fault: one worker is woken, not all.
NotifyOnlyOne == NotifyOne

\* cv_.notify_all()
NotifyAll == cv_' = {}

-----------------------------------------------------------------------------
\* submit()

SubmitBegin(s) ==
    /\ pc[s] = "idle" /\ pc[Owner] # "destroyed" /\ calls < MaxTasks
    /\ calls' = calls + 1
    /\ task' = [task EXCEPT ![s] = calls + 1]
    /\ GoTo(s, "submit")
    /\ UNCHANGED <<guarded, mutex_, cv_, ready>>

SubmitLock(s) == Acquire(s, "submit", "enqueue")

\* stop_: throw.
SubmitThrow(s) ==
    /\ pc[s] = "enqueue" /\ stop_
    /\ task' = [task EXCEPT ![s] = 0]
    /\ Release(s, "idle")
    /\ UNCHANGED <<guarded, cv_, calls, ready>>

\* tasks_.emplace_back(...)
SubmitEnqueue(s) ==
    /\ pc[s] = "enqueue" /\ ~stop_
    /\ tasks_' = Append(tasks_, task[s])
    /\ Release(s, "notify")
    /\ UNCHANGED <<stop_, cv_, task, calls, ready>>

\* Without the lock; return the future.
SubmitNotify(s) ==
    /\ pc[s] = "notify"
    /\ NotifyOne
    /\ task' = [task EXCEPT ![s] = 0]
    /\ GoTo(s, "idle")
    /\ UNCHANGED <<guarded, mutex_, calls, ready>>

-----------------------------------------------------------------------------
\* worker_loop()

WorkerLock(w) == Acquire(w, "loop", "test")

\* The predicate of cv_.wait is false: wait, ...
WorkerMustWait(w) ==
    /\ pc[w] = "test" /\ ~stop_ /\ tasks_ = <<>>
    /\ GoTo(w, "wait")
    /\ UNCHANGED <<guarded, mutex_, cv_, task, calls, ready>>

\* ... which unlocks the mutex and falls asleep in one step.
WorkerSleep(w) ==
    /\ pc[w] = "wait"
    /\ cv_' = cv_ \union {w}
    /\ Release(w, "asleep")
    /\ UNCHANGED <<guarded, task, calls, ready>>

\* Woken: wait() reacquires the mutex and evaluates the predicate again.
WorkerWoken(w) == w \notin cv_ /\ Acquire(w, "asleep", "test")

\* A wait may also end for no reason.
SpuriousWakeup(w) ==
    /\ w \in cv_
    /\ cv_' = cv_ \ {w}
    /\ UNCHANGED <<guarded, mutex_, pc, task, calls, ready>>

MayExitAtOnce == stop_  \* fault: the tasks still queued are abandoned

\* stop_ && tasks_.empty(): clean exit.
MayExit == stop_ /\ tasks_ = <<>>

WorkerExit(w) ==
    /\ pc[w] = "test" /\ MayExit
    /\ Release(w, "exited")
    /\ UNCHANGED <<guarded, cv_, task, calls, ready>>

Unpopped == tasks_        \* fault: the front is copied and not popped
Popped == Tail(tasks_)

\* task = std::move(tasks_.front()); tasks_.pop_front()
WorkerTake(w) ==
    /\ pc[w] = "test" /\ tasks_ # <<>>
    /\ task' = [task EXCEPT ![w] = Head(tasks_)]
    /\ tasks_' = Popped
    /\ Release(w, "run")
    /\ UNCHANGED <<stop_, cv_, calls, ready>>

\* task(), outside the lock; its future is ready.
WorkerRun(w) ==
    /\ pc[w] = "run"
    /\ ready' = ready \union {task[w]}
    /\ task' = [task EXCEPT ![w] = 0]
    /\ GoTo(w, "loop")
    /\ UNCHANGED <<guarded, mutex_, cv_, calls>>

-----------------------------------------------------------------------------
\* ~ThreadPool()

StopLock == Acquire(Owner, "alive", "stop")

Stop ==
    /\ pc[Owner] = "stop"
    /\ stop_' = TRUE
    /\ Release(Owner, "notify")
    /\ UNCHANGED <<tasks_, cv_, task, calls, ready>>

StopNotify ==
    /\ pc[Owner] = "notify"
    /\ NotifyAll
    /\ GoTo(Owner, "join")
    /\ UNCHANGED <<guarded, mutex_, task, calls, ready>>

\* Every join() returns and the members are destroyed.  That no call of submit() is
\* in progress then is up to the callers.
Join ==
    /\ pc[Owner] = "join"
    /\ \A w \in Workers : pc[w] = "exited"
    /\ \A s \in Submitters : pc[s] = "idle"
    /\ GoTo(Owner, "destroyed")
    /\ UNCHANGED <<guarded, mutex_, cv_, task, calls, ready>>

-----------------------------------------------------------------------------
submit(s) == SubmitBegin(s) \/ SubmitLock(s) \/ SubmitThrow(s) \/ SubmitEnqueue(s)
                \/ SubmitNotify(s)

worker_loop(w) == WorkerLock(w) \/ WorkerMustWait(w) \/ WorkerSleep(w) \/ WorkerWoken(w)
                     \/ WorkerExit(w) \/ WorkerTake(w) \/ WorkerRun(w)

Destructor == StopLock \/ Stop \/ StopNotify \/ Join

Next ==
    \/ \E s \in Submitters : submit(s)
    \/ \E w \in Workers : worker_loop(w) \/ SpuriousWakeup(w)
    \/ Destructor

Spec == Init /\ [][Next]_vars

(* Every thread keeps running, a task ends, and a thread that keeps asking    *)
(* for the mutex gets it.  Nobody has to call submit() or to destroy the      *)
(* pool, and no wakeup is spurious by necessity.                              *)
Fairness ==
    /\ \A s \in Submitters : WF_vars(SubmitThrow(s) \/ SubmitEnqueue(s) \/ SubmitNotify(s))
                             /\ SF_vars(SubmitLock(s))
    /\ \A w \in Workers : WF_vars(worker_loop(w)) /\ SF_vars(WorkerLock(w))
                          /\ SF_vars(WorkerWoken(w))
    /\ WF_vars(Stop \/ StopNotify \/ Join)

FairSpec == Spec /\ Fairness

-----------------------------------------------------------------------------
\* Every variable has the type of the member or local it stands for.
TypeOK ==
    /\ tasks_ \in Seq(Task) /\ stop_ \in BOOLEAN
    /\ mutex_ \in Thread \union {Nobody} /\ cv_ \subseteq Workers
    /\ pc \in [Thread -> {"loop", "test", "wait", "asleep", "run", "exited", "idle",
                          "submit", "enqueue", "notify", "alive", "stop", "join",
                          "destroyed"}]
    /\ task \in [Thread -> Task \union {0}]
    /\ calls \in 0 .. MaxTasks /\ ready \subseteq Task

(* The pool implements the executor its users rely on: a task that submit()   *)
(* accepted is never lost, run twice or started out of order, none is         *)
(* accepted once the destructor has set stop_, and when the destructor has    *)
(* returned every accepted task has run: main destroys what the tasks use     *)
(* only then (main.cpp:66-72).                                                *)
Executor == INSTANCE TaskExecutor WITH
    Tasks <- Task, NoTask <- 0,
    waiting <- tasks_, running <- [w \in Workers |-> task[w]],
    pool <- IF pc[Owner] = "destroyed" THEN "destroyed"
             ELSE IF stop_ THEN "closing" ELSE "open"
ImplementsExecutor == Executor!Spec

(* No wakeup is lost: an accepted task runs in the end, even if nobody        *)
(* submits another.                                                           *)
EveryTaskRuns == \A t \in Task : (\E i \in 1 .. Len(tasks_) : tasks_[i] = t) ~> t \in ready

(* The destructor returns: no worker sleeps through it, and it waits for no   *)
(* one for ever.                                                              *)
DestructorReturns == pc[Owner] = "notify" ~> pc[Owner] = "destroyed"

=============================================================================
