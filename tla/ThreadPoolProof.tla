---------------------------- MODULE ThreadPoolProof ----------------------------
(***************************************************************************)
(* Proofs about ThreadPool for every set of workers and submitters and any  *)
(* number of tasks: the pool implements TaskExecutor.                       *)
(***************************************************************************)
EXTENDS ThreadPool, TLAPS

\* The submitters whose task is numbered and not yet in the deque.
Submitting == {s \in Submitters : pc[s] \in {"submit", "enqueue"}}

\* Nothing outside a call of submit() has a number that has not been given.
NumbersInv ==
    /\ \A t \in ready : t <= calls
    /\ \A th \in Thread : task[th] <= calls
    /\ \A i \in 1 .. Len(tasks_) : tasks_[i] <= calls

\* The task a submitter is about to enqueue is nowhere else.
FreshInv ==
    \A s \in Submitting :
      /\ task[s] # 0 /\ task[s] \notin ready
      /\ \A w \in Workers : task[w] # task[s]
      /\ \A i \in 1 .. Len(tasks_) : tasks_[i] # task[s]
      /\ \A r \in Submitting : task[r] = task[s] => r = s

\* A worker holds a task while it runs it, and leaves only a stopped, empty pool.
WorkerInv ==
    \A w \in Workers :
      /\ pc[w] = "run" <=> task[w] # 0
      /\ pc[w] = "exited" => stop_ /\ tasks_ = <<>>

\* stop_ is set when the destructor is past its critical section.
OwnerInv == stop_ <=> pc[Owner] \in {"notify", "join", "destroyed"}

PoolInv == TypeOK /\ NumbersInv /\ FreshInv /\ WorkerInv /\ OwnerInv

-----------------------------------------------------------------------------
\* An action of one group leaves the threads of the others alone.
LEMMA Apart ==
    /\ Workers \subseteq Thread /\ Submitters \subseteq Thread /\ Owner \in Thread
    /\ \A w \in Workers : w \notin Submitters /\ w # Owner
    /\ \A s \in Submitters : s \notin Workers /\ s # Owner
BY ThreadPoolAssumption DEF Thread

\* The order of the deque: what Append and Tail leave in it.
LEMMA Deque ==
    ASSUME NEW S, NEW q \in Seq(S)
    PROVE  /\ \A x \in S : /\ Append(q, x) \in Seq(S) /\ Append(q, x) # <<>>
                           /\ \A i \in 1 .. Len(Append(q, x)) :
                                Append(q, x)[i] = x \/ \E j \in 1 .. Len(q) : Append(q, x)[i] = q[j]
           /\ q # <<>> => /\ Head(q) \in S /\ Tail(q) \in Seq(S)
                          /\ 1 \in 1 .. Len(q) /\ Head(q) = q[1]
                          /\ \A i \in 1 .. Len(Tail(q)) :
                               i + 1 \in 1 .. Len(q) /\ Tail(q)[i] = q[i + 1]
<1>1. ASSUME NEW x \in S
      PROVE  /\ Append(q, x) \in Seq(S) /\ Append(q, x) # <<>>
             /\ \A i \in 1 .. Len(Append(q, x)) :
                  Append(q, x)[i] = x \/ \E j \in 1 .. Len(q) : Append(q, x)[i] = q[j]
  OBVIOUS
<1>2. ASSUME q # <<>>
      PROVE  /\ Head(q) \in S /\ Tail(q) \in Seq(S)
             /\ 1 \in 1 .. Len(q) /\ Head(q) = q[1]
             /\ \A i \in 1 .. Len(Tail(q)) : i + 1 \in 1 .. Len(q) /\ Tail(q)[i] = q[i + 1]
  BY <1>2
<1>. QED BY <1>1, <1>2

-----------------------------------------------------------------------------
\* The pool starts open and empty.
LEMMA Initially == Init => PoolInv
<1>. SUFFICES ASSUME Init PROVE PoolInv
  OBVIOUS
<1>1. TypeOK
  <2>1. tasks_ \in Seq(Task) /\ calls \in 0 .. MaxTasks /\ task \in [Thread -> Task \union {0}]
    BY ThreadPoolAssumption DEF Init
  <2>2. pc \in [Thread -> {"loop", "alive", "idle"}]
    BY DEF Init
  <2>. QED BY <2>1, <2>2 DEF Init, TypeOK
<1>2. NumbersInv
  BY DEF Init, NumbersInv
<1>3. FreshInv
  BY Apart DEF Init, FreshInv, Submitting
<1>4. WorkerInv
  BY Apart DEF Init, WorkerInv
<1>5. OwnerInv
  BY Apart DEF Init, OwnerInv
<1>. QED BY <1>1, <1>2, <1>3, <1>4, <1>5 DEF PoolInv

\* A step that moves one thread from a place to another and touches neither the
\* tasks nor stop_.
LEMMA MoveStep ==
    ASSUME PoolInv, NEW th \in Thread, NEW to, GoTo(th, to),
           UNCHANGED <<guarded, task, calls, ready>>,
           mutex_' \in Thread \union {Nobody}, cv_' \subseteq Workers,
           to \in {"loop", "test", "wait", "asleep", "exited", "enqueue", "stop", "join",
                   "destroyed"},
           th \in Submitters => pc[th] = "submit" /\ to = "enqueue",
           th \in Workers => pc[th] # "run" /\ (to = "exited" => stop_ /\ tasks_ = <<>>),
           th = Owner => (stop_ <=> to \in {"join", "destroyed"})
    PROVE  PoolInv'
<1>. USE Apart DEF PoolInv, GoTo, guarded
<1>1. TypeOK'
  BY DEF TypeOK
<1>2. NumbersInv'
  BY DEF NumbersInv
<1>3. FreshInv'
  BY DEF FreshInv, Submitting, TypeOK
<1>4. WorkerInv'
  BY DEF WorkerInv, TypeOK
<1>5. OwnerInv'
  BY DEF OwnerInv, TypeOK
<1>. QED BY <1>1, <1>2, <1>3, <1>4, <1>5

\* submit(): a number not given before, an enqueue that keeps it unique.
LEMMA SubmitSteps ==
    ASSUME PoolInv, NEW s \in Submitters, submit(s) PROVE PoolInv'
<1>. USE Apart DEF PoolInv
<1>. s \in Thread
  OBVIOUS
<1>1. CASE SubmitBegin(s)
  <2>. /\ calls + 1 \in Task /\ calls' = calls + 1 /\ calls \in Nat
       /\ task' = [task EXCEPT ![s] = calls + 1] /\ pc' = [pc EXCEPT ![s] = "submit"]
       /\ pc[s] = "idle" /\ UNCHANGED <<tasks_, stop_, mutex_, cv_, ready>>
    BY <1>1, ThreadPoolAssumption DEF SubmitBegin, GoTo, TypeOK, Task, guarded
  <2>1. TypeOK'
    BY DEF TypeOK, Task
  <2>2. /\ \A r \in Thread : task[r] \in Nat /\ task[r] <= calls
        /\ \A t \in ready : t \in Nat /\ t <= calls
        /\ \A i \in 1 .. Len(tasks_) : tasks_[i] \in Nat /\ tasks_[i] <= calls
    <3>1. Task \subseteq Nat /\ \A i \in 1 .. Len(tasks_) : tasks_[i] \in Task
      BY ThreadPoolAssumption DEF TypeOK, Task
    <3>2. \A r \in Thread : task[r] \in Nat
      <4>1. \A r \in Thread : task[r] \in Task \union {0}
        BY DEF TypeOK
      <4>2. \A x \in Task \union {0} : x \in Nat
        BY <3>1
      <4>. QED BY <4>1, <4>2, Zenon
    <3>3. ready \subseteq Nat
      BY <3>1 DEF TypeOK
    <3>4. \A i \in 1 .. Len(tasks_) : tasks_[i] \in Nat
      BY <3>1
    <3>. QED BY <3>2, <3>3, <3>4, Zenon DEF NumbersInv
  <2>3. NumbersInv'
    BY <2>2 DEF NumbersInv, TypeOK
  <2>4. FreshInv'
    <3>. SUFFICES ASSUME NEW r \in Submitting'
                  PROVE  /\ task'[r] # 0 /\ task'[r] \notin ready
                         /\ \A w \in Workers : task'[w] # task'[r]
                         /\ \A i \in 1 .. Len(tasks_) : tasks_[i] # task'[r]
                         /\ \A q \in Submitting' : task'[q] = task'[r] => q = r
      BY DEF FreshInv
    <3>1. \A q \in Submitting' \ {s} : q \in Submitting /\ task'[q] = task[q] /\ q \in Thread
      BY DEF Submitting, TypeOK
    <3>2. task'[s] = calls + 1 /\ \A w \in Workers : task'[w] = task[w] /\ w \in Thread
      BY DEF TypeOK
    <3>3. CASE r = s
      BY <2>2, <3>1, <3>2, <3>3
    <3>4. CASE r # s
      BY <2>2, <3>1, <3>2, <3>4 DEF FreshInv
    <3>. QED BY <3>3, <3>4
  <2>5. WorkerInv' /\ OwnerInv'
    BY DEF WorkerInv, OwnerInv, TypeOK
  <2>. QED BY <2>1, <2>3, <2>4, <2>5
<1>2. CASE SubmitLock(s)
  BY <1>2, MoveStep DEF SubmitLock, Acquire, TypeOK
<1>3. CASE SubmitThrow(s)
  <2>. /\ task' = [task EXCEPT ![s] = 0] /\ pc' = [pc EXCEPT ![s] = "idle"]
       /\ mutex_' = Nobody /\ UNCHANGED <<tasks_, stop_, cv_, calls, ready>>
    BY <1>3 DEF SubmitThrow, Release, GoTo, guarded
  <2>1. TypeOK'
    BY DEF TypeOK
  <2>2. NumbersInv'
    BY DEF NumbersInv, TypeOK
  <2>3. FreshInv'
    BY DEF FreshInv, Submitting, TypeOK
  <2>4. WorkerInv' /\ OwnerInv'
    BY DEF WorkerInv, OwnerInv, TypeOK
  <2>. QED BY <2>1, <2>2, <2>3, <2>4
<1>4. CASE SubmitEnqueue(s)
  <2>. /\ pc[s] = "enqueue" /\ ~stop_ /\ tasks_' = Append(tasks_, task[s])
       /\ mutex_' = Nobody /\ pc' = [pc EXCEPT ![s] = "notify"]
       /\ UNCHANGED <<stop_, cv_, task, calls, ready>>
    BY <1>4 DEF SubmitEnqueue, Release, GoTo
  <2>1. task[s] \in Task
    BY DEF FreshInv, Submitting, TypeOK
  <2>2. /\ tasks_' \in Seq(Task)
        /\ \A i \in 1 .. Len(tasks_') :
             tasks_'[i] = task[s] \/ \E j \in 1 .. Len(tasks_) : tasks_'[i] = tasks_[j]
    BY <2>1, Deque DEF TypeOK
  <2>3. TypeOK'
    BY <2>2 DEF TypeOK
  <2>4. NumbersInv'
    BY <2>2 DEF NumbersInv
  <2>5. FreshInv'
    <3>1. \A r \in Submitting' : r \in Submitting /\ r # s
      BY DEF Submitting, TypeOK
    <3>2. s \in Submitting
      BY DEF Submitting
    <3>. QED BY <2>2, <3>1, <3>2 DEF FreshInv
  <2>6. WorkerInv' /\ OwnerInv'
    BY DEF WorkerInv, OwnerInv, TypeOK
  <2>. QED BY <2>3, <2>4, <2>5, <2>6
<1>5. CASE SubmitNotify(s)
  <2>. /\ task' = [task EXCEPT ![s] = 0] /\ pc' = [pc EXCEPT ![s] = "idle"]
       /\ cv_' \subseteq Workers /\ UNCHANGED <<tasks_, stop_, mutex_, calls, ready>>
    BY <1>5 DEF SubmitNotify, NotifyOne, GoTo, guarded, TypeOK
  <2>1. TypeOK'
    BY DEF TypeOK
  <2>2. NumbersInv'
    BY DEF NumbersInv, TypeOK
  <2>3. FreshInv'
    BY DEF FreshInv, Submitting, TypeOK
  <2>4. WorkerInv' /\ OwnerInv'
    BY DEF WorkerInv, OwnerInv, TypeOK
  <2>. QED BY <2>1, <2>2, <2>3, <2>4
<1>. QED BY <1>1, <1>2, <1>3, <1>4, <1>5 DEF submit

\* worker_loop(): the front of the deque moves to the worker, and on to the ready ones.
LEMMA WorkerSteps ==
    ASSUME PoolInv, NEW w \in Workers, worker_loop(w) \/ SpuriousWakeup(w) PROVE PoolInv'
<1>. USE Apart DEF PoolInv
<1>. w \in Thread
  OBVIOUS
<1>1. CASE WorkerLock(w) \/ WorkerWoken(w)
  BY <1>1, MoveStep DEF WorkerLock, WorkerWoken, Acquire, TypeOK
<1>2. CASE WorkerMustWait(w)
  BY <1>2, MoveStep DEF WorkerMustWait, TypeOK
<1>3. CASE WorkerSleep(w)
  BY <1>3, MoveStep DEF WorkerSleep, Release, TypeOK
<1>4. CASE WorkerExit(w)
  BY <1>4, MoveStep DEF WorkerExit, MayExit, Release, TypeOK
<1>5. CASE SpuriousWakeup(w)
  BY <1>5 DEF SpuriousWakeup, guarded, TypeOK, NumbersInv, FreshInv, Submitting, WorkerInv, OwnerInv
<1>6. CASE WorkerTake(w)
  <2>. /\ pc[w] = "test" /\ tasks_ # <<>> /\ tasks_' = Tail(tasks_)
       /\ task' = [task EXCEPT ![w] = Head(tasks_)] /\ pc' = [pc EXCEPT ![w] = "run"]
       /\ mutex_' = Nobody /\ UNCHANGED <<stop_, cv_, calls, ready>>
    BY <1>6 DEF WorkerTake, Popped, Release, GoTo
  <2>1. /\ Head(tasks_) \in Task /\ Tail(tasks_) \in Seq(Task)
        /\ 1 \in 1 .. Len(tasks_) /\ Head(tasks_) = tasks_[1]
        /\ \A i \in 1 .. Len(Tail(tasks_)) :
             \E j \in 1 .. Len(tasks_) : Tail(tasks_)[i] = tasks_[j]
    BY Deque DEF TypeOK
  <2>2. TypeOK'
    BY <2>1 DEF TypeOK
  <2>3. NumbersInv'
    BY <2>1 DEF NumbersInv, TypeOK
  <2>4. FreshInv'
    <3>1. Submitting' = Submitting /\ \A r \in Submitting : task'[r] = task[r]
      BY DEF Submitting, TypeOK
    <3>2. \A v \in Workers : task'[v] = task[v] \/ task'[v] = tasks_[1]
      BY <2>1 DEF TypeOK
    <3>. QED BY <2>1, <3>1, <3>2 DEF FreshInv
  <2>5. Head(tasks_) # 0
    BY <2>1 DEF Task
  <2>6. WorkerInv' /\ OwnerInv'
    BY <2>5 DEF WorkerInv, OwnerInv, TypeOK
  <2>. QED BY <2>2, <2>3, <2>4, <2>6
<1>7. CASE WorkerRun(w)
  <2>. /\ pc[w] = "run" /\ ready' = ready \union {task[w]}
       /\ task' = [task EXCEPT ![w] = 0] /\ pc' = [pc EXCEPT ![w] = "loop"]
       /\ UNCHANGED <<tasks_, stop_, mutex_, cv_, calls>>
    BY <1>7 DEF WorkerRun, GoTo, guarded
  <2>1. task[w] \in Task
    BY DEF WorkerInv, TypeOK
  <2>2. TypeOK'
    BY <2>1 DEF TypeOK
  <2>3. NumbersInv'
    BY DEF NumbersInv, TypeOK
  <2>4. FreshInv'
    <3>1. Submitting' = Submitting /\ \A r \in Submitting : task'[r] = task[r]
      BY DEF Submitting, TypeOK
    <3>2. \A v \in Workers : task'[v] = task[v] \/ task'[v] = 0
      BY DEF TypeOK
    <3>. QED BY <3>1, <3>2 DEF FreshInv
  <2>5. WorkerInv' /\ OwnerInv'
    BY DEF WorkerInv, OwnerInv, TypeOK
  <2>. QED BY <2>2, <2>3, <2>4, <2>5
<1>. QED BY <1>1, <1>2, <1>3, <1>4, <1>5, <1>6, <1>7 DEF worker_loop

\* ~ThreadPool(): stop_ is set on the way to the joins.
LEMMA DestructorSteps == ASSUME PoolInv, Destructor PROVE PoolInv'
<1>. USE Apart DEF PoolInv
<1>1. CASE StopLock
  BY <1>1, MoveStep DEF StopLock, Acquire, OwnerInv, TypeOK
<1>2. CASE Stop
  <2>. /\ pc[Owner] = "stop" /\ stop_' = TRUE /\ mutex_' = Nobody
       /\ pc' = [pc EXCEPT ![Owner] = "notify"] /\ UNCHANGED <<tasks_, cv_, task, calls, ready>>
    BY <1>2 DEF Stop, Release, GoTo
  <2>1. TypeOK' /\ NumbersInv' /\ OwnerInv'
    BY DEF TypeOK, NumbersInv, OwnerInv
  <2>2. FreshInv' /\ WorkerInv'
    BY DEF FreshInv, Submitting, WorkerInv, TypeOK
  <2>. QED BY <2>1, <2>2
<1>3. CASE StopNotify
  BY <1>3, MoveStep DEF StopNotify, NotifyAll, OwnerInv, TypeOK
<1>4. CASE Join
  BY <1>4, MoveStep DEF Join, OwnerInv, TypeOK
<1>. QED BY <1>1, <1>2, <1>3, <1>4 DEF Destructor

(* What every state of the pool satisfies: above all that the task a          *)
(* submitter is about to enqueue is nowhere else (thread_pool.h:62-69), and   *)
(* that a worker has left only if the deque was empty after stop_ was set     *)
(* (thread_pool.cpp:32-34) and nobody can fill it again.                      *)
THEOREM Invariance == Spec => []PoolInv
<1>1. PoolInv /\ [Next]_vars => PoolInv'
  <2>. SUFFICES ASSUME PoolInv, [Next]_vars PROVE PoolInv'
    OBVIOUS
  <2>1. CASE UNCHANGED vars
    BY <2>1 DEF vars, guarded, PoolInv, TypeOK, NumbersInv, FreshInv, Submitting, WorkerInv,
                OwnerInv
  <2>. QED BY <2>1, SubmitSteps, WorkerSteps, DestructorSteps DEF Next
<1>. QED BY Initially, <1>1, PTL DEF Spec

-----------------------------------------------------------------------------
(* The pool implements the executor: a task that submit() accepted is run     *)
(* once, tasks start in the order of acceptance, and when the destructor      *)
(* returns all of them have run.                                              *)
THEOREM Refinement == Spec => ImplementsExecutor
<1>1. Init => Executor!Init
  BY Apart DEF Init, Executor!Init
<1>2. PoolInv /\ [Next]_vars => [Executor!Next]_Executor!vars
  <2>. SUFFICES ASSUME PoolInv, [Next]_vars PROVE [Executor!Next]_Executor!vars
    OBVIOUS
  <2>. USE Apart DEF PoolInv
  <2>1. ASSUME NEW s \in Submitters, SubmitEnqueue(s) PROVE Executor!Next
    <3>. /\ pc[s] = "enqueue" /\ ~stop_ /\ tasks_' = Append(tasks_, task[s])
         /\ pc' = [pc EXCEPT ![s] = "notify"] /\ UNCHANGED <<stop_, task, ready>>
      BY <2>1 DEF SubmitEnqueue, Release, GoTo
    <3>1. pc'[Owner] = pc[Owner] /\ pc[Owner] # "destroyed"
      BY DEF OwnerInv, TypeOK
    <3>2. Executor!Fresh(task[s]) /\ task[s] \in Task
      BY DEF Executor!Fresh, FreshInv, Submitting, TypeOK
    <3>3. Executor!Submit(task[s])
      BY <3>1, <3>2 DEF Executor!Submit
    <3>. QED BY <3>2, <3>3 DEF Executor!Next
  <2>2. ASSUME NEW w \in Workers, WorkerTake(w) PROVE Executor!Start(w)
    <3>. /\ pc[w] = "test" /\ tasks_ # <<>> /\ tasks_' = Tail(tasks_)
         /\ task' = [task EXCEPT ![w] = Head(tasks_)] /\ pc' = [pc EXCEPT ![w] = "run"]
         /\ UNCHANGED <<stop_, ready>>
      BY <2>2 DEF WorkerTake, Popped, Release, GoTo
    <3>1. task[w] = 0 /\ pc'[Owner] = pc[Owner]
      BY DEF WorkerInv, TypeOK
    <3>2. [v \in Workers |-> task'[v]] = [[v \in Workers |-> task[v]] EXCEPT ![w] = Head(tasks_)]
      BY DEF TypeOK
    <3>. QED BY <3>1, <3>2 DEF Executor!Start
  <2>3. ASSUME NEW w \in Workers, WorkerRun(w) PROVE Executor!Finish(w)
    <3>. /\ pc[w] = "run" /\ ready' = ready \union {task[w]}
         /\ task' = [task EXCEPT ![w] = 0] /\ pc' = [pc EXCEPT ![w] = "loop"]
         /\ UNCHANGED <<tasks_, stop_>>
      BY <2>3 DEF WorkerRun, GoTo, guarded
    <3>1. task[w] # 0 /\ pc'[Owner] = pc[Owner]
      BY DEF WorkerInv, TypeOK
    <3>2. [v \in Workers |-> task'[v]] = [[v \in Workers |-> task[v]] EXCEPT ![w] = 0]
      BY DEF TypeOK
    <3>. QED BY <3>1, <3>2 DEF Executor!Finish
  <2>4. ASSUME Stop PROVE Executor!Close
    BY <2>4 DEF Stop, Release, GoTo, OwnerInv, TypeOK, Executor!Close
  <2>5. ASSUME Join PROVE Executor!Destroy
    <3>. /\ pc[Owner] = "join" /\ (\A w \in Workers : pc[w] = "exited")
         /\ pc' = [pc EXCEPT ![Owner] = "destroyed"] /\ UNCHANGED <<tasks_, stop_, task, ready>>
      BY <2>5 DEF Join, GoTo, guarded
    <3>1. PICK w \in Workers : TRUE
      BY ThreadPoolAssumption
    <3>2. tasks_ = <<>> /\ \A v \in Workers : task[v] = 0
      BY <3>1 DEF WorkerInv
    <3>3. stop_ /\ pc'[Owner] = "destroyed"
      BY DEF OwnerInv, TypeOK
    <3>. QED BY <3>2, <3>3 DEF Executor!Destroy
  <2>6. ASSUME UNCHANGED <<tasks_, stop_, ready>>, \A w \in Workers : task'[w] = task[w],
               pc'[Owner] = "destroyed" <=> pc[Owner] = "destroyed"
        PROVE  UNCHANGED Executor!vars
    BY <2>6 DEF Executor!vars
  <2>7. ASSUME NEW s \in Submitters, SubmitBegin(s) \/ SubmitLock(s) \/ SubmitThrow(s)
                                        \/ SubmitNotify(s)
        PROVE  UNCHANGED Executor!vars
    BY <2>6, <2>7 DEF SubmitBegin, SubmitLock, SubmitThrow, SubmitNotify, Acquire, Release, GoTo,
                      guarded, TypeOK
  <2>8. ASSUME NEW w \in Workers, WorkerLock(w) \/ WorkerMustWait(w) \/ WorkerSleep(w)
                                     \/ WorkerWoken(w) \/ WorkerExit(w) \/ SpuriousWakeup(w)
        PROVE  UNCHANGED Executor!vars
    BY <2>6, <2>8 DEF WorkerLock, WorkerMustWait, WorkerSleep, WorkerWoken, WorkerExit,
                      SpuriousWakeup, Acquire, Release, GoTo, guarded, TypeOK
  <2>9. CASE StopLock \/ StopNotify
    BY <2>6, <2>9 DEF StopLock, StopNotify, Acquire, GoTo, guarded, TypeOK
  <2>10. CASE UNCHANGED vars
    BY <2>6, <2>10 DEF vars, guarded
  <2>. QED
    BY <2>1, <2>2, <2>3, <2>4, <2>5, <2>7, <2>8, <2>9, <2>10
    DEF Next, submit, worker_loop, Destructor, Executor!Next
<1>. QED BY <1>1, <1>2, Invariance, PTL DEF Spec, ImplementsExecutor, Executor!Spec
=============================================================================
