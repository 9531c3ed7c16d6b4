----------------------------- MODULE TaskExecutor -----------------------------
(***************************************************************************)
(* What ThreadPool promises its users: a FIFO of tasks, each run once by    *)
(* one worker, a future that becomes ready when the task has run, and a     *)
(* destructor that returns when every task accepted has run.                *)
(***************************************************************************)
EXTENDS Naturals, Sequences

CONSTANTS Workers, Tasks, NoTask

VARIABLES
  waiting,  \* the tasks submitted and not started, oldest first
  running,  \* the task each worker runs, or NoTask
  ready,    \* the tasks that have run: their futures are ready
  pool      \* "open", "closing" (the destructor has been called) or "destroyed"

vars == <<waiting, running, ready, pool>>

Init ==
    /\ waiting = <<>> /\ running = [w \in Workers |-> NoTask]
    /\ ready = {} /\ pool = "open"

Fresh(t) ==
    /\ t \notin ready /\ \A w \in Workers : running[w] # t
    /\ \A i \in 1 .. Len(waiting) : waiting[i] # t

\* A submit() that does not throw.
Submit(t) ==
    /\ pool = "open" /\ Fresh(t)
    /\ waiting' = Append(waiting, t)
    /\ UNCHANGED <<running, ready, pool>>

Start(w) ==
    /\ running[w] = NoTask /\ waiting # <<>>
    /\ running' = [running EXCEPT ![w] = Head(waiting)]
    /\ waiting' = Tail(waiting)
    /\ UNCHANGED <<ready, pool>>

Finish(w) ==
    /\ running[w] # NoTask
    /\ running' = [running EXCEPT ![w] = NoTask]
    /\ ready' = ready \union {running[w]}
    /\ UNCHANGED <<waiting, pool>>

Close ==
    /\ pool = "open" /\ pool' = "closing"
    /\ UNCHANGED <<waiting, running, ready>>

Destroy ==
    /\ pool = "closing" /\ waiting = <<>> /\ \A w \in Workers : running[w] = NoTask
    /\ pool' = "destroyed"
    /\ UNCHANGED <<waiting, running, ready>>

Next ==
    \/ \E t \in Tasks : Submit(t)
    \/ \E w \in Workers : Start(w) \/ Finish(w)
    \/ Close \/ Destroy

Spec == Init /\ [][Next]_vars
=============================================================================
