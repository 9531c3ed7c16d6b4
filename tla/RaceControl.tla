----------------------------- MODULE RaceControl -----------------------------
(***************************************************************************)
(* What main() wires around the generator's tick: the on_tick callback, the *)
(* two jobs it submits to the pool (track limits check, weather update),    *)
(* the event queue between them and the penalty enforcer, the leaderboard,  *)
(* the lap counter and the weather with main's readings of them, and the    *)
(* order in which main() stops and destroys it all.                         *)
(*                                                                         *)
(* The generator thread is TickSource, the pool TaskExecutor: what their    *)
(* modules show of them.  A push onto the event queue is two steps; a call  *)
(* of process_events(), detailed in PenaltyEnforcer, is one.                *)
(***************************************************************************)
EXTENDS Naturals, Sequences, FiniteSets, SequencesExt

CONSTANTS
  Workers,      \* the threads of race_control_pool
  Drivers,      \* DRIVERS.size()
  Nobody,       \* no driver, no worker, no task
  CheckPeriod,  \* ticks between track limits checks
  WeatherGap,   \* laps between weather updates
  Warnings,     \* warnings for a penalty
  Pitting,      \* bound: the drivers who may make their stop in the behaviour
  Offenders,    \* bound: the drivers who may exceed the track limits in it
  MaxTicks      \* bound: ticks of the race

VARIABLES
  states_, tick, lap, lap_before, driver, pc, race_finished_, stop_requested,  \* TickSource
  waiting, running, ready, pool,  \* TaskExecutor
  callback,      \* where on_tick is
  standings_,    \* Leaderboard; with it the race lap and the stores its update knows
  current_lap,   \* the stores to RaceState::current_lap
  future,        \* track_limits_future, weather_future: the task, or Nobody if not valid
  at, seen,      \* how far each worker's task is, and the ticks it has seen (history)
  events,        \* race_control_queue: the entries not popped, and who has yet to link them
  cut,           \* has a drain ever left events behind (history)
  warnings_, penalty,         \* PenaltyEnforcer
  last_update_lap_, changes,  \* WeatherSystem; the laps of its changes
  main,          \* where main() is
  line,          \* what it has read in this round and will compare or print
  owed           \* had the driver a penalty pending when entering the pits (history)

cars == <<states_, driver>>
race == <<tick, lap, lap_before, race_finished_>>
source == <<cars, race, pc, stop_requested>>
executor == <<waiting, running, ready, pool>>
jobs == <<executor, future, at, seen>>
queue == <<events, cut>>
enforcer == <<warnings_, penalty>>
weather == <<last_update_lap_, changes>>
board == <<standings_, current_lap>>
screen == <<main, line>>
vars == <<source, callback, board, jobs, queue, enforcer, weather, screen, owed>>

Source == INSTANCE TickSource

Driver == 1 .. Drivers
Job == {"limits", "weather"}
Row == [tick : 0 .. MaxTicks, stop : Source!Stop]
Rows == [Driver -> Row] \union {<<>>}
Task == [job : Job, tick : 1 .. MaxTicks, lap : 1 .. MaxTicks + 1, rows : Rows]
Event == [type : {"TRACK_LIMITS", "WEATHER_CHANGE", "PENALTY_ISSUED"},
          driver : Driver \union {Nobody}, open : Workers \union {Nobody}]

ASSUME RaceControlAssumption ==
    /\ Drivers \in Nat \ {0} /\ Nobody \notin Driver \union Workers \union Task
    /\ Pitting \subseteq Driver /\ Offenders \subseteq Driver
    /\ {CheckPeriod, WeatherGap, Warnings} \subseteq Nat \ {0} /\ MaxTicks \in Nat

Pool == INSTANCE TaskExecutor WITH Tasks <- Task, NoTask <- Nobody

NoLine == [rows |-> <<>>, of |-> 0, knows |-> 1, lap |-> 0, weather |-> 0, grip |-> 0]

Init ==
    /\ Source!Init /\ Pool!Init
    /\ callback = "update"
    /\ standings_ = [rows |-> <<>>, lap |-> 0, knows |-> 1] /\ current_lap = <<1>>
    /\ future = [j \in Job |-> Nobody]
    /\ at = [w \in Workers |-> 1] /\ seen = [w \in Workers |-> {}]
    /\ events = <<>> /\ cut = FALSE
    /\ warnings_ = [d \in Driver |-> 0] /\ penalty = [d \in Driver |-> "NONE"]
    /\ last_update_lap_ = 0 /\ changes = <<>>
    /\ main = "render" /\ line = NoLine
    /\ owed = [d \in Driver |-> FALSE]

-----------------------------------------------------------------------------
\* The generator thread outside the callback.

Others == <<callback, board, jobs, queue, enforcer, weather, screen>>

BeginTick == Source!BeginTick /\ UNCHANGED <<Others, owed>>

Exit == Source!Exit /\ UNCHANGED <<Others, owed>>

\* Whether the tick began a race lap or finished the race is settled with its last
\* driver: nobody acts on it before.
Drive(stop, new_lap, finish) ==
    /\ (new_lap \/ finish) => driver = Drivers
    /\ stop # "before" => driver \in Pitting
    /\ Source!Drive(stop, new_lap, finish)
    /\ owed' = IF stop = "in" /\ states_[driver].stop = "before"
                 THEN [owed EXCEPT ![driver] = penalty[driver] = "PENDING"] ELSE owed
    /\ UNCHANGED Others

-----------------------------------------------------------------------------
\* on_tick

CallbackGoes(from, to) == pc = "on_tick" /\ callback = from /\ callback' = to

NoLock == TRUE  \* fault: the standings are replaced without the lock

\* The exclusive lock: no reader is inside.
NoReader == main # "rows"

\* leaderboard.update().  Who finds these standings knows the stores made before.
UpdateLeaderboard ==
    /\ CallbackGoes("update", "set_lap")
    /\ NoReader
    /\ standings_' = [rows |-> states_, lap |-> lap, knows |-> Len(current_lap)]
    /\ UNCHANGED <<source, current_lap, jobs, queue, enforcer, weather, screen, owed>>

SetLap ==
    /\ CallbackGoes("set_lap", "limits")
    /\ current_lap' = Append(current_lap, lap)
    /\ UNCHANGED <<source, standings_, jobs, queue, enforcer, weather, screen, owed>>

IdleAlways(job) == TRUE  \* fault: the job's last task may still run

\* The future is not valid, or ready: the job's last task has returned.
IsIdle(job) == future[job] = Nobody \/ future[job] \in ready

\* The task goes to the pool, its future replaces the last one.
Submit(job, rows) ==
    LET task == [job |-> job, tick |-> tick, lap |-> lap, rows |-> rows] IN
    /\ Pool!Submit(task)
    /\ future' = [future EXCEPT ![job] = task]
    /\ UNCHANGED <<at, seen>>

\* Every CheckPeriod-th tick; the states are copied into the task.
CheckLimits ==
    /\ CallbackGoes("limits", "weather")
    /\ IF tick % CheckPeriod = 0 /\ IsIdle("limits")
         THEN Submit("limits", states_) ELSE UNCHANGED jobs
    /\ UNCHANGED <<source, board, queue, enforcer, weather, screen, owed>>

UpdateWeather ==
    /\ CallbackGoes("weather", "process")
    /\ IF IsIdle("weather") THEN Submit("weather", <<>>) ELSE UNCHANGED jobs
    /\ UNCHANGED <<source, board, queue, enforcer, weather, screen, owed>>

WarningsIn(n, d) ==
    Cardinality({i \in 1 .. n : events[i].type = "TRACK_LIMITS" /\ events[i].driver = d})

Announcement(d) == [type |-> "PENALTY_ISSUED", driver |-> d, open |-> Nobody]

\* penalty.process_events(), and the callback returns.  The drain takes the first n
\* events: it ends before an unfinished push, or a link the load misses.
ProcessEvents(n) ==
    /\ CallbackGoes("process", "update") /\ Source!CallbackReturns
    /\ \A i \in 1 .. n : events[i].open = Nobody
    /\ warnings_' = [d \in Driver |-> warnings_[d] + WarningsIn(n, d)]
    /\ LET fined == {d \in Driver : penalty[d] = "NONE" /\ warnings_'[d] >= Warnings} IN
         /\ penalty' = [d \in Driver |-> IF d \in fined THEN "PENDING" ELSE penalty[d]]
         /\ events' = SubSeq(events, n + 1, Len(events))
                        \o SetToSeq({Announcement(d) : d \in fined})
    /\ cut' = (cut \/ n < Len(events))
    /\ UNCHANGED <<board, jobs, weather, screen, owed>>

-----------------------------------------------------------------------------
\* The pool's workers.

Runs(w, job) == running[w] # Nobody /\ running[w].job = job

Pushing(w) == \E i \in 1 .. Len(events) : events[i].open = w

Push(w, type, d) == events' = Append(events, [type |-> type, driver |-> d, open |-> w])

WorkerGoesOn(w) == at' = [at EXCEPT ![w] = @ + 1] /\ UNCHANGED <<executor, future>>

Take(w) ==
    /\ Pool!Start(w)
    /\ at' = [at EXCEPT ![w] = 1] /\ seen' = [seen EXCEPT ![w] = {}]
    /\ UNCHANGED <<source, callback, board, future, queue, enforcer, weather, screen, owed>>

\* The task returns: its future is ready.
Done(w) == Pool!Finish(w) /\ UNCHANGED <<future, at, seen>>

\* The link of a push.
Link(w) ==
    /\ \E i \in 1 .. Len(events) :
         events[i].open = w /\ events' = [events EXCEPT ![i].open = Nobody]
    /\ UNCHANGED <<source, callback, board, jobs, cut, enforcer, weather, screen, owed>>

SeenLive(w) == states_[at[w]]  \* fault: the states are captured by reference

\* The state of the driver that check() is at.
Seen(w) == running[w].rows[at[w]]

\* check(): one driver, who may exceed the track limits unless in the pits.
CheckDriver(w, exceeds) ==
    /\ Runs(w, "limits") /\ at[w] <= Drivers /\ ~Pushing(w)
    /\ exceeds => Seen(w).stop # "in" /\ at[w] \in Offenders
    /\ IF exceeds THEN Push(w, "TRACK_LIMITS", at[w]) ELSE UNCHANGED events
    /\ seen' = [seen EXCEPT ![w] = @ \union {Seen(w).tick}]
    /\ WorkerGoesOn(w)
    /\ UNCHANGED <<source, callback, board, cut, enforcer, weather, screen, owed>>

TaskEnds(w) ==
    /\ \/ Runs(w, "limits") /\ at[w] > Drivers
       \/ Runs(w, "weather") /\ at[w] = 4
    /\ ~Pushing(w) /\ Done(w)
    /\ UNCHANGED <<source, callback, board, queue, enforcer, weather, screen, owed>>

TooEarly(w) == running[w].lap < last_update_lap_ + WeatherGap

\* update(): too early, return.
WeatherTooEarly(w) ==
    /\ Runs(w, "weather") /\ at[w] = 1 /\ TooEarly(w)
    /\ Done(w)
    /\ UNCHANGED <<source, callback, board, queue, enforcer, weather, screen, owed>>

\* Fault: the lap is remembered only if the weather does not change.
Forgets(w, change) == IF change THEN last_update_lap_ ELSE running[w].lap

Remembers(w, change) == running[w].lap

\* The lap is remembered; the weather changes or the call returns.
WeatherRolls(w, change) ==
    /\ Runs(w, "weather") /\ at[w] = 1 /\ ~TooEarly(w)
    /\ last_update_lap_' = Remembers(w, change)
    /\ IF change THEN WorkerGoesOn(w) /\ UNCHANGED seen ELSE Done(w)
    /\ UNCHANGED <<source, callback, board, queue, enforcer, changes, screen, owed>>

\* state_ moves on, DRY to DAMP to WET to DRY, under the exclusive lock.
WeatherChanges(w) ==
    /\ Runs(w, "weather") /\ at[w] = 2
    /\ changes' = Append(changes, running[w].lap)
    /\ WorkerGoesOn(w)
    /\ UNCHANGED <<source, callback, board, seen, queue, enforcer, last_update_lap_, screen,
                   owed>>

WeatherPushes(w) ==
    /\ Runs(w, "weather") /\ at[w] = 3
    /\ Push(w, "WEATHER_CHANGE", Nobody)
    /\ WorkerGoesOn(w)
    /\ UNCHANGED <<source, callback, board, seen, cut, enforcer, weather, screen, owed>>

-----------------------------------------------------------------------------
\* main()

\* Faults: the lap is read before the standings; the grip before the weather.
ReadsLapFirst == [render |-> "lap", lap |-> "rows", rows |-> "weather", weather |-> "grip",
                  grip |-> "print"]
ReadsGripFirst == [render |-> "rows", rows |-> "lap", lap |-> "grip", grip |-> "weather",
                   weather |-> "print"]

\* The order in which main() reads what it prints in a round of its loop.
Reads == [render |-> "rows", rows |-> "lap", lap |-> "weather", weather |-> "grip",
          grip |-> "print"]

MainGoes(to) == main' = to /\ UNCHANGED <<callback, board, queue, enforcer, weather, owed>>

BeginRound == main = "render" /\ MainGoes(Reads[main]) /\ UNCHANGED <<line, source, jobs>>

\* leaderboard.snapshot(), row by row under the shared lock.
ReadRow ==
    /\ main = "rows" /\ Len(line.rows) < Len(standings_.rows)
    /\ line' = [line EXCEPT !.rows = Append(@, standings_.rows[Len(@) + 1])]
    /\ MainGoes("rows") /\ UNCHANGED <<source, jobs>>

\* The lock is released; if the first tick has not landed, continue.
RowsRead ==
    /\ main = "rows" /\ Len(line.rows) = Len(standings_.rows)
    /\ line' = [line EXCEPT !.of = standings_.lap, !.knows = standings_.knows]
    /\ MainGoes(IF line.rows = <<>> THEN "render" ELSE Reads[main])
    /\ UNCHANGED <<source, jobs>>

\* get_lap(): the i-th store, not one before a store main() knows.
ReadLap(i) ==
    /\ main = "lap" /\ i >= line.knows
    /\ line' = [line EXCEPT !.lap = current_lap[i]]
    /\ MainGoes(Reads[main]) /\ UNCHANGED <<source, jobs>>

\* weather.current() and weather.grip_factor(), each under its own shared lock: how
\* many changes have been made.
ReadWeather ==
    /\ main \in {"weather", "grip"}
    /\ line' = [line EXCEPT ![main] = Len(changes)]
    /\ MainGoes(Reads[main]) /\ UNCHANGED <<source, jobs>>

PrintRound ==
    /\ main = "print" /\ line' = NoLine
    /\ MainGoes("render") /\ UNCHANGED <<source, jobs>>

\* The race is finished, or 60 seconds are over: generator.stop().
LeaveLoop ==
    /\ main = "render" /\ Source!RequestStop
    /\ MainGoes("join") /\ UNCHANGED <<line, jobs>>

NotJoined == TRUE  \* fault: the generator is asked to stop and not waited for

Joined == pc = "exited"

Join == main = "join" /\ Joined /\ MainGoes("summary") /\ UNCHANGED <<line, source, jobs>>

\* main() returns: the pool, the local declared last, is destroyed first, ...
DestroyPool ==
    /\ main = "summary" /\ Pool!Close
    /\ MainGoes("draining") /\ UNCHANGED <<line, source, future, at, seen>>

\* ... then track_limits, penalty, weather and the queue.
PoolDestroyed ==
    /\ main = "draining" /\ Pool!Destroy
    /\ MainGoes("returned") /\ UNCHANGED <<line, source, future, at, seen>>

-----------------------------------------------------------------------------
on_tick ==
    \/ UpdateLeaderboard \/ SetLap \/ CheckLimits \/ UpdateWeather
    \/ \E n \in 0 .. Len(events) : ProcessEvents(n)

Generator ==
    \/ BeginTick \/ Exit \/ on_tick
    \/ \E stop \in Source!Stop, new_lap, finish \in BOOLEAN : Drive(stop, new_lap, finish)

Worker(w) ==
    \/ Take(w) \/ Link(w) \/ TaskEnds(w)
    \/ \E exceeds \in BOOLEAN : CheckDriver(w, exceeds)
    \/ WeatherTooEarly(w)
    \/ \E change \in BOOLEAN : WeatherRolls(w, change)
    \/ WeatherChanges(w) \/ WeatherPushes(w)

Main ==
    \/ BeginRound \/ ReadRow \/ RowsRead \/ ReadWeather \/ PrintRound
    \/ \E i \in 1 .. Len(current_lap) : ReadLap(i)
    \/ LeaveLoop \/ Join \/ DestroyPool \/ PoolDestroyed

Next == Generator \/ Main \/ \E w \in Workers : Worker(w)

Spec == Init /\ [][Next]_vars

-----------------------------------------------------------------------------
TypeOK ==
    /\ states_ \in [Driver -> Row]
    /\ tick \in 0 .. MaxTicks /\ {lap, lap_before} \subseteq 1 .. MaxTicks + 1
    /\ driver \in Driver /\ pc \in {"loop", "drive", "on_tick", "exited"}
    /\ {race_finished_, stop_requested, cut} \subseteq BOOLEAN
    /\ waiting \in Seq(Task) /\ ready \subseteq Task
    /\ running \in [Workers -> Task \union {Nobody}]
    /\ pool \in {"open", "closing", "destroyed"}
    /\ callback \in {"update", "set_lap", "limits", "weather", "process"}
    /\ standings_ \in [rows : Rows, lap : Nat, knows : Nat] /\ current_lap \in Seq(Nat)
    /\ future \in [Job -> Task \union {Nobody}]
    /\ at \in [Workers -> Nat \ {0}] /\ seen \in [Workers -> SUBSET (0 .. MaxTicks)]
    /\ events \in Seq(Event)
    /\ warnings_ \in [Driver -> Nat] /\ penalty \in [Driver -> {"NONE", "PENDING"}]
    /\ last_update_lap_ \in Nat /\ changes \in Seq(Nat)
    /\ main \in {"render", "rows", "lap", "weather", "grip", "print", "join", "summary",
                 "draining", "returned"}
    /\ line \in [rows : Seq(Row), of : Nat, knows : Nat, lap : Nat, weather : Nat, grip : Nat]
    /\ owed \in [Driver -> BOOLEAN]

(* Neither system's random generator is ever used by two workers, although    *)
(* either worker runs either job and neither system locks: of each job at     *)
(* most one task is queued or running (main.cpp:92-109; README.md:149).       *)
SingleFlight ==
    \A w1, w2 \in Workers, j \in Job :
      /\ Runs(w1, j) /\ Runs(w2, j) => w1 = w2
      /\ Runs(w1, j) => \A i \in 1 .. Len(waiting) : waiting[i].job # j

(* A check looks at the states of one tick, the one that submitted it,        *)
(* however far the generator has gone meanwhile (main.cpp:95).                *)
CheckSeesOneTick == \A w \in Workers : Runs(w, "limits") => seen[w] \subseteq {running[w].tick}

(* Two weather changes are at least WeatherGap laps apart, although updates   *)
(* are skipped while one runs and may run laps after they were submitted.     *)
WeatherChangesApart ==
    \A i, j \in 1 .. Len(changes) : i < j => changes[j] >= changes[i] + WeatherGap

(* What main() prints in a round belongs together although it is read piece   *)
(* by piece while the generator and a worker write: the rows are those of one *)
(* tick, the lap is at most one behind theirs although its load is relaxed    *)
(* (race_state.h:55-57), and the grip is not that of a weather older than the *)
(* one printed before it.                                                     *)
LineIsConsistent ==
    main = "print" =>
      /\ \A i, j \in 1 .. Len(line.rows) : line.rows[i].tick = line.rows[j].tick
      /\ line.lap >= line.of - 1
      /\ line.grip >= line.weather

(* Nothing is submitted to a pool that is being destroyed (submit() would     *)
(* throw on the generator thread), and when the systems are destroyed no task *)
(* that uses them is queued or runs (main.cpp:66-72, :176).                   *)
ShutdownInOrder ==
    /\ pool # "open" => pc = "exited"
    /\ main = "returned" => waiting = <<>> /\ \A w \in Workers : running[w] = Nobody

(* The summary is final although the pool still runs: the standings and the   *)
(* lap are those of the last tick begun, and neither they nor a penalty       *)
(* change while it is printed (main.cpp:176-188).                             *)
SummaryIsFinal ==
    [][main = "summary" =>
         /\ UNCHANGED <<board, enforcer>>
         /\ tick > 0 => /\ standings_.rows = states_ /\ Last(current_lap) = lap
                        /\ \A d \in Driver : states_[d].tick = tick]_vars

(* Events that come after the last process_events() are lost with the queue.  *)
(* Unless a drain was cut short by a push in flight, they are those of one    *)
(* check and one weather update.                                              *)
LateEventsOfOneCheck ==
    (main = "returned" /\ ~cut) =>
      \A i, j \in 1 .. Len(events) :
        (events[i].type = events[j].type /\ events[i].driver = events[j].driver) => i = j

(* penalty_enforcer.h:14-16 and :38: a driver who enters the pits with a      *)
(* penalty pending serves it there, and has served it on leaving.             *)
PenaltyServedInPits ==
    pc = "loop" => \A d \in Driver :
      (states_[d].stop = "after" /\ owed[d]) => penalty[d] = "SERVED"
=============================================================================
