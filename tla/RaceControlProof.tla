--------------------------- MODULE RaceControlProof ---------------------------
(***************************************************************************)
(* Proofs about RaceControl, for every number of drivers and workers, every *)
(* period and every length of the race: what the threads that main() wires  *)
(* together do to each other's data, and that they end in order.            *)
(***************************************************************************)
EXTENDS RaceControl, FiniteSetTheorems, SequenceTheorems, TLAPS

\* The callback is inside a tick; the lap and the drivers' states are the tick's.
TickOrder ==
    /\ pc # "on_tick" => callback = "update"
    /\ lap_before <= lap /\ lap <= lap_before + 1 /\ lap <= tick + 1
    /\ pc \in {"drive", "on_tick"} => lap_before <= tick
    /\ \A d \in Driver : (pc # "drive" \/ d < driver) => states_[d].tick = tick

\* A task of a job that has not returned is the one the job's future stands for.
TasksHaveFutures ==
    /\ \A i \in 1 .. Len(waiting) :
         /\ waiting[i] = future[waiting[i].job] /\ waiting[i] \notin ready
         /\ \A j \in 1 .. Len(waiting) : waiting[i] = waiting[j] => i = j
         /\ \A w \in Workers : running[w] # waiting[i]
    /\ \A w \in Workers : running[w] # Nobody =>
         /\ running[w] = future[running[w].job] /\ running[w] \notin ready
         /\ \A v \in Workers : running[v] = running[w] => v = w

\* A check was given the states of one tick.
IsCheckOfOneTick(t) ==
    t.job = "limits" => t.rows \in [Driver -> Row] /\ \A d \in Driver : t.rows[d].tick = t.tick

ChecksHaveOneTick ==
    /\ \A i \in 1 .. Len(waiting) : IsCheckOfOneTick(waiting[i])
    /\ \A w \in Workers : running[w] # Nobody => IsCheckOfOneTick(running[w])
    /\ CheckSeesOneTick

\* The lap remembered is that of the last change, or of a later roll.
ChangesAreRemembered ==
    /\ \A i \in 1 .. Len(changes) : changes[i] <= last_update_lap_
    /\ WeatherChangesApart
    /\ \A w \in Workers : Runs(w, "weather") /\ at[w] = 2 =>
         /\ last_update_lap_ = running[w].lap
         /\ \A i \in 1 .. Len(changes) : changes[i] + WeatherGap <= last_update_lap_

\* The stores to current_lap, and the standings with the stores they know, follow
\* the ticks.
LapsArePublished ==
    /\ Len(current_lap) > 0
    /\ \A i, j \in 1 .. Len(current_lap) : i <= j => current_lap[i] <= current_lap[j]
    /\ Last(current_lap) = IF pc \in {"drive", "on_tick"} /\ callback \in {"update", "set_lap"}
                             THEN lap_before ELSE lap
    /\ standings_.knows \in 1 .. Len(current_lap)
    /\ current_lap[standings_.knows] >= standings_.lap - 1

StandingsArePublished ==
    /\ \A i, j \in 1 .. Len(standings_.rows) : standings_.rows[i].tick = standings_.rows[j].tick
    /\ (tick > 0 /\ pc # "drive" /\ ~(pc = "on_tick" /\ callback = "update")) =>
         standings_.rows = states_

\* What main() has read so far in this round.
RoundIsConsistent ==
    /\ \A i, j \in 1 .. Len(line.rows) : line.rows[i].tick = line.rows[j].tick
    /\ main = "render" => line.rows = <<>>
    /\ main = "rows" =>
         /\ Len(line.rows) <= Len(standings_.rows)
         /\ \A i \in 1 .. Len(line.rows) : line.rows[i] = standings_.rows[i]
    /\ main \in {"lap", "weather", "grip", "print"} =>
         /\ line.knows \in 1 .. Len(current_lap)
         /\ current_lap[line.knows] >= line.of - 1
    /\ main \in {"weather", "grip", "print"} => line.lap >= line.of - 1
    /\ main = "grip" => line.weather <= Len(changes)
    /\ main = "print" => line.weather <= line.grip

\* main() waits for the generator before it destroys the pool, and for the pool
\* before it returns.
EndsInOrder ==
    /\ main \in {"summary", "draining", "returned"} => pc = "exited"
    /\ pool # "open" => main \in {"draining", "returned"}
    /\ main = "returned" => pool = "destroyed"
    /\ pool = "destroyed" => waiting = <<>> /\ \A w \in Workers : running[w] = Nobody

\* Between a drain that left nothing and the next submissions each job pushes what
\* one task of it does, each driver or the weather once.
Same(e, f) == e.type = f.type /\ e.driver = f.driver
IsIn(type, d) == \E i \in 1 .. Len(events) : events[i].type = type /\ events[i].driver = d

QueueIsFresh ==
    /\ \A i, j \in 1 .. Len(events) : Same(events[i], events[j]) => i = j
    /\ \A i \in 1 .. Len(waiting) :
         /\ waiting[i].job = "limits" => \A d \in Driver : ~IsIn("TRACK_LIMITS", d)
         /\ waiting[i].job = "weather" => ~IsIn("WEATHER_CHANGE", Nobody)
    /\ \A w \in Workers :
         /\ Runs(w, "limits") => \A d \in Driver : IsIn("TRACK_LIMITS", d) => d < at[w]
         /\ Runs(w, "weather") /\ at[w] <= 3 => ~IsIn("WEATHER_CHANGE", Nobody)

EventsOfOneCheck == (~cut /\ callback \in {"update", "set_lap", "limits"}) => QueueIsFresh

WiringInv ==
    /\ TypeOK /\ TickOrder
    /\ TasksHaveFutures /\ ChecksHaveOneTick /\ ChangesAreRemembered
    /\ LapsArePublished /\ StandingsArePublished /\ RoundIsConsistent
    /\ EndsInOrder /\ EventsOfOneCheck

USE RaceControlAssumption
-----------------------------------------------------------------------------
\* What the proofs take from the invariant, part by part.

\* The generator's clocks.
LEMMA TickFacts ==
    ASSUME WiringInv
    PROVE  /\ tick \in Nat /\ tick <= MaxTicks /\ MaxTicks \in Nat
           /\ lap \in 1 .. MaxTicks + 1 /\ lap_before \in 1 .. MaxTicks + 1
           /\ lap_before <= lap /\ lap <= lap_before + 1 /\ lap <= tick + 1
           /\ pc \in {"drive", "on_tick"} => lap_before <= tick
           /\ states_ \in [Driver -> Row] /\ states_ \in Rows
<1>1. TypeOK /\ TickOrder
  BY DEF WiringInv
<1>2. tick \in 0 .. MaxTicks /\ {lap, lap_before} \subseteq 1 .. MaxTicks + 1
  BY <1>1 DEF TypeOK
<1>3. states_ \in [Driver -> Row]
  BY <1>1 DEF TypeOK
<1>4. states_ \in Rows
  BY <1>3 DEF Rows
<1>5. /\ lap_before <= lap /\ lap <= lap_before + 1 /\ lap <= tick + 1
      /\ pc \in {"drive", "on_tick"} => lap_before <= tick
  BY <1>1 DEF TickOrder
<1>6. tick \in Nat /\ tick <= MaxTicks /\ MaxTicks \in Nat
  BY <1>2
<1> QED
  BY <1>2, <1>3, <1>4, <1>5, <1>6

\* The pool's queue, its workers and the futures.
LEMMA PoolFacts ==
    ASSUME WiringInv
    PROVE  /\ waiting \in Seq(Task) /\ Len(waiting) \in Nat /\ ready \subseteq Task
           /\ running \in [Workers -> Task \union {Nobody}] /\ Nobody \notin Task
           /\ future \in [Job -> Task \union {Nobody}]
           /\ at \in [Workers -> Nat \ {0}] /\ seen \in [Workers -> SUBSET (0 .. MaxTicks)]
<1>1. TypeOK
  BY DEF WiringInv
<1>2. waiting \in Seq(Task) /\ ready \subseteq Task
  BY <1>1 DEF TypeOK
<1>3. /\ running \in [Workers -> Task \union {Nobody}]
      /\ future \in [Job -> Task \union {Nobody}]
      /\ at \in [Workers -> Nat \ {0}] /\ seen \in [Workers -> SUBSET (0 .. MaxTicks)]
  BY <1>1 DEF TypeOK
<1>4. Len(waiting) \in Nat
  BY <1>2
<1>5. Nobody \notin Task
  OBVIOUS
<1> QED
  BY <1>2, <1>3, <1>4, <1>5

\* What main() wires to the callback and to the tasks.
LEMMA SharedFacts ==
    ASSUME WiringInv
    PROVE  /\ callback \in {"update", "set_lap", "limits", "weather", "process"}
           /\ standings_ \in [rows : Rows, lap : Nat, knows : Nat]
           /\ current_lap \in Seq(Nat) /\ Len(current_lap) \in Nat
           /\ events \in Seq(Event) /\ cut \in BOOLEAN
           /\ warnings_ \in [Driver -> Nat] /\ penalty \in [Driver -> {"NONE", "PENDING"}]
           /\ last_update_lap_ \in Nat /\ changes \in Seq(Nat) /\ Len(changes) \in Nat
<1>1. TypeOK
  BY DEF WiringInv
<1>2. /\ callback \in {"update", "set_lap", "limits", "weather", "process"}
      /\ standings_ \in [rows : Rows, lap : Nat, knows : Nat] /\ cut \in BOOLEAN
  BY <1>1 DEF TypeOK
<1>3. current_lap \in Seq(Nat) /\ changes \in Seq(Nat) /\ events \in Seq(Event)
  BY <1>1 DEF TypeOK
<1>4. /\ warnings_ \in [Driver -> Nat] /\ penalty \in [Driver -> {"NONE", "PENDING"}]
      /\ last_update_lap_ \in Nat
  BY <1>1 DEF TypeOK
<1>5. Len(current_lap) \in Nat /\ Len(changes) \in Nat
  BY <1>3
<1> QED
  BY <1>2, <1>3, <1>4, <1>5

\* What main() is reading.
LEMMA ScreenFacts ==
    ASSUME WiringInv
    PROVE  /\ main \in {"render", "rows", "lap", "weather", "grip", "print", "join", "summary",
                        "draining", "returned"}
           /\ line \in [rows : Seq(Row), of : Nat, knows : Nat, lap : Nat, weather : Nat,
                        grip : Nat]
<1>1. TypeOK
  BY DEF WiringInv
<1> QED
  BY <1>1 DEF TypeOK

-----------------------------------------------------------------------------
\* What a step of each thread leaves alone.

\* The generator outside the callback moves the cars and nothing main() wires to it.
LEMMA CarsStep ==
    ASSUME \/ BeginTick \/ Exit
           \/ \E stop \in Source!Stop, new_lap, finish \in BOOLEAN : Drive(stop, new_lap, finish)
    PROVE  UNCHANGED <<callback, standings_, current_lap, waiting, running, ready, pool,
                       future, at, seen, events, cut, warnings_, penalty,
                       last_update_lap_, changes, main, line>>
BY DEF BeginTick, Exit, Drive, Others, board, jobs, executor, queue, enforcer, weather, screen

\* The callback leaves the cars, the workers, the weather and main() alone.
LEMMA CallbackStep ==
    ASSUME on_tick
    PROVE  /\ UNCHANGED <<states_, tick, lap, lap_before, driver, race_finished_,
                          stop_requested, running, ready, pool, at, seen,
                          last_update_lap_, changes, main, line, owed>>
           /\ pc = "on_tick"
<1> USE DEF source, cars, race, CallbackGoes, jobs, executor, weather, screen
<1>1. CASE UpdateLeaderboard \/ SetLap
  BY <1>1 DEF UpdateLeaderboard, SetLap
<1>2. CASE CheckLimits \/ UpdateWeather
  BY <1>2 DEF CheckLimits, UpdateWeather, Submit, Pool!Submit
<1>3. ASSUME NEW n \in 0 .. Len(events), ProcessEvents(n)
      PROVE  /\ UNCHANGED <<states_, tick, lap, lap_before, driver, race_finished_,
                            stop_requested, running, ready, pool, at, seen,
                            last_update_lap_, changes, main, line, owed>>
             /\ pc = "on_tick"
  BY <1>3 DEF ProcessEvents, Source!CallbackReturns, Source!cars, Source!race
<1> QED
  BY <1>1, <1>2, <1>3 DEF on_tick

\* A worker leaves the generator, the callback, what it published and main() alone.
LEMMA WorkerStep ==
    ASSUME NEW w \in Workers, Worker(w)
    PROVE  UNCHANGED <<states_, tick, lap, lap_before, driver, pc, race_finished_,
                       stop_requested, callback, standings_, current_lap, pool, future,
                       cut, warnings_, penalty, main, line, owed>>
<1> USE DEF source, cars, race, board, jobs, executor, queue, enforcer, weather, screen
<1> USE DEF Done, WorkerGoesOn, Push, Pool!Start, Pool!Finish
<1>1. CASE Take(w) \/ Link(w) \/ TaskEnds(w)
  BY <1>1 DEF Take, Link, TaskEnds
<1>2. CASE \E exceeds \in BOOLEAN : CheckDriver(w, exceeds)
  BY <1>2 DEF CheckDriver
<1>3. CASE WeatherTooEarly(w) \/ WeatherChanges(w) \/ WeatherPushes(w)
  BY <1>3 DEF WeatherTooEarly, WeatherChanges, WeatherPushes
<1>4. CASE \E change \in BOOLEAN : WeatherRolls(w, change)
  BY <1>4 DEF WeatherRolls
<1> QED
  BY <1>1, <1>2, <1>3, <1>4 DEF Worker

\* main() reads; of what the others use it writes the stop request and the pool's phase.
LEMMA MainStep ==
    ASSUME Main
    PROVE  UNCHANGED <<states_, tick, lap, lap_before, driver, pc, race_finished_,
                       callback, standings_, current_lap, waiting, running, ready,
                       future, at, seen, events, cut, warnings_, penalty,
                       last_update_lap_, changes, owed>>
<1> USE DEF source, cars, race, board, jobs, executor, queue, enforcer, weather, MainGoes
<1>1. CASE BeginRound \/ ReadRow \/ RowsRead \/ ReadWeather \/ PrintRound
  BY <1>1 DEF BeginRound, ReadRow, RowsRead, ReadWeather, PrintRound
<1>2. CASE \E i \in 1 .. Len(current_lap) : ReadLap(i)
  BY <1>2 DEF ReadLap
<1>3. CASE LeaveLoop \/ Join
  BY <1>3 DEF LeaveLoop, Join, Source!RequestStop, Source!cars, Source!race
<1>4. CASE DestroyPool \/ PoolDestroyed
  BY <1>4 DEF DestroyPool, PoolDestroyed, Pool!Close, Pool!Destroy
<1> QED
  BY <1>1, <1>2, <1>3, <1>4 DEF Main

-----------------------------------------------------------------------------
\* Lemmas about the data.

\* The standings are one row for each driver, or nothing yet.
LEMMA RowsAreSeq ==
    ASSUME NEW r \in Rows
    PROVE  /\ r \in Seq(Row) /\ Len(r) \in Nat
           /\ r # <<>> => r \in [Driver -> Row] /\ Len(r) = Drivers
<1>1. CASE r = <<>>
  BY <1>1
<1>2. CASE r # <<>>
  <2>1. r \in [1 .. Drivers -> Row] /\ Drivers \in Nat
    BY <1>2 DEF Rows, Driver
  <2> HIDE DEF Row
  <2>2. r \in Seq(Row)
    BY <2>1, SeqDef
  <2>3. Len(r) = Drivers
    BY <2>1, <2>2, LenProperties
  <2> QED
    BY <2>1, <2>2, <2>3 DEF Driver
<1> QED
  BY <1>1, <1>2

\* SetToSeq lists a finite set, each element once: process_events() pushes one
\* announcement for each driver fined.
LEMMA SetToSeqLists ==
    ASSUME NEW S, IsFiniteSet(S)
    PROVE  /\ SetToSeq(S) \in Seq(S)
           /\ \A i, j \in 1 .. Len(SetToSeq(S)) : SetToSeq(S)[i] = SetToSeq(S)[j] => i = j
<1> DEFINE n == Cardinality(S)
           f == SetToSeq(S)
<1>1. n \in Nat /\ ExistsBijection(1 .. n, S)
  BY FS_CardinalityType
<1>2. \E g \in [1 .. n -> S] : IsInjective(g)
  BY <1>1 DEF ExistsBijection, Bijection, Injection
<1>3. f \in [1 .. n -> S] /\ IsInjective(f)
  BY <1>2 DEF SetToSeq
<1> HIDE DEF f, n
<1>4. f \in Seq(S)
  BY <1>1, <1>3, SeqDef
<1>5. Len(f) = n
  BY <1>1, <1>3, <1>4, LenProperties
<1>6. \A i, j \in 1 .. Len(f) : f[i] = f[j] => i = j
  BY <1>3, <1>5 DEF IsInjective
<1> QED
  BY <1>4, <1>6 DEF f

\* What a drain leaves in the queue are events.
LEMMA DrainLeavesEvents ==
    ASSUME events \in Seq(Event), NEW n \in 0 .. Len(events), NEW fined \in SUBSET Driver
    PROVE  /\ SubSeq(events, n + 1, Len(events)) \in Seq(Event)
           /\ n = Len(events) => SubSeq(events, n + 1, Len(events)) = <<>>
           /\ SetToSeq({Announcement(d) : d \in fined}) \in Seq(Event)
           /\ \A i, j \in 1 .. Len(SetToSeq({Announcement(d) : d \in fined})) :
                SetToSeq({Announcement(d) : d \in fined})[i]
                  = SetToSeq({Announcement(d) : d \in fined})[j] => i = j
<1> DEFINE A == {Announcement(d) : d \in fined}
<1>1. Len(events) \in Nat
  OBVIOUS
<1>2. \A i \in n + 1 .. Len(events) : events[i] \in Event
  BY <1>1
<1>3. /\ SubSeq(events, n + 1, Len(events)) \in Seq(Event)
      /\ n = Len(events) => SubSeq(events, n + 1, Len(events)) = <<>>
  <2>1. n + 1 \in Int /\ Len(events) \in Int
    BY <1>1
  <2>2. SubSeq(events, n + 1, Len(events)) \in Seq(Event)
    BY <1>2, <2>1, SubSeqProperties
  <2>3. n = Len(events) => Len(events) < n + 1
    BY <1>1
  <2> QED
    BY <2>1, <2>2, <2>3, SubSeqEmpty
<1>4. A \subseteq Event
  BY DEF Announcement, Event
<1>5. IsFiniteSet(A)
  <2>1. IsFiniteSet(Driver)
    BY FS_Interval DEF Driver
  <2>2. IsFiniteSet(fined)
    BY <2>1, FS_Subset
  <2> DEFINE g == [d \in fined |-> Announcement(d)]
  <2>3. g \in Surjection(fined, A)
    BY DEF Surjection
  <2> QED
    BY <2>2, <2>3, FS_Surjection
<1> HIDE DEF A
<1>6. SetToSeq(A) \in Seq(A)
  BY <1>5, SetToSeqLists
<1>7. SetToSeq(A) \in Seq(Event)
  BY <1>4, <1>6, SeqMonotonic
<1> QED
  BY <1>3, <1>5, <1>7, SetToSeqLists DEF A

-----------------------------------------------------------------------------

\* The invariant holds before anything is started.
LEMMA InitInv == Init => WiringInv
<1> SUFFICES ASSUME Init PROVE WiringInv
  OBVIOUS
<1> USE DEF Init, Source!Init, Pool!Init, Source!Driver
<1>1. TypeOK
  <2>1. /\ waiting \in Seq(Task) /\ events \in Seq(Event) /\ changes \in Seq(Nat)
        /\ current_lap \in Seq(Nat)
    OBVIOUS
  <2>2. states_ \in [Driver -> Row] /\ driver \in Driver /\ tick \in 0 .. MaxTicks
    BY DEF Driver, Row, Source!Stop
  <2>3. {lap, lap_before} \subseteq 1 .. MaxTicks + 1
    OBVIOUS
  <2>4. standings_ \in [rows : Rows, lap : Nat, knows : Nat]
    BY DEF Rows
  <2>5. line \in [rows : Seq(Row), of : Nat, knows : Nat, lap : Nat, weather : Nat, grip : Nat]
    BY DEF NoLine
  <2>6. /\ running \in [Workers -> Task \union {Nobody}] /\ future \in [Job -> Task \union {Nobody}]
        /\ at \in [Workers -> Nat \ {0}] /\ seen \in [Workers -> SUBSET (0 .. MaxTicks)]
    OBVIOUS
  <2>7. /\ warnings_ \in [Driver -> Nat] /\ penalty \in [Driver -> {"NONE", "PENDING"}]
        /\ owed \in [Driver -> BOOLEAN] /\ {race_finished_, stop_requested, cut} \subseteq BOOLEAN
    OBVIOUS
  <2> QED
    BY <2>1, <2>2, <2>3, <2>4, <2>5, <2>6, <2>7 DEF TypeOK
<1>2. TickOrder
  BY DEF TickOrder, Driver
<1>3. Len(waiting) = 0 /\ Len(events) = 0 /\ Len(changes) = 0 /\ \A w \in Workers : running[w] = Nobody
  OBVIOUS
<1>4. TasksHaveFutures
  BY <1>3 DEF TasksHaveFutures
<1>5. ChecksHaveOneTick /\ ChangesAreRemembered /\ EventsOfOneCheck
  BY <1>3 DEF ChecksHaveOneTick, CheckSeesOneTick, ChangesAreRemembered, WeatherChangesApart,
              EventsOfOneCheck, QueueIsFresh, Runs, IsIn
<1>6. LapsArePublished
  <2>1. Len(current_lap) = 1 /\ current_lap[1] = 1 /\ standings_.knows = 1 /\ standings_.lap = 0
    OBVIOUS
  <2>2. Last(current_lap) = 1
    BY <2>1 DEF Last
  <2> QED
    BY <2>1, <2>2 DEF LapsArePublished
<1>7. StandingsArePublished /\ RoundIsConsistent
  BY DEF StandingsArePublished, RoundIsConsistent, NoLine
<1>8. EndsInOrder
  BY DEF EndsInOrder
<1> QED
  BY <1>1, <1>2, <1>4, <1>5, <1>6, <1>7, <1>8 DEF WiringInv

-----------------------------------------------------------------------------
\* Every step keeps the types.

\* The cars of the generator, and the stop request.
LEMMA SourceTypeStep ==
    ASSUME WiringInv, [Next]_vars
    PROVE  /\ states_' \in [Driver -> Row] /\ tick' \in 0 .. MaxTicks
           /\ {lap', lap_before'} \subseteq 1 .. MaxTicks + 1
           /\ driver' \in Driver /\ pc' \in {"loop", "drive", "on_tick", "exited"}
           /\ race_finished_' \in BOOLEAN /\ stop_requested' \in BOOLEAN
           /\ owed' \in [Driver -> BOOLEAN]
           /\ TickOrder'
<1> USE DEF TickOrder
<1>0. /\ states_ \in [Driver -> Row] /\ tick \in Nat /\ tick <= MaxTicks
      /\ lap \in Nat /\ lap_before \in Nat /\ 1 <= lap /\ 1 <= lap_before
      /\ lap <= MaxTicks + 1 /\ lap_before <= MaxTicks + 1
      /\ driver \in Driver /\ pc \in {"loop", "drive", "on_tick", "exited"}
      /\ race_finished_ \in BOOLEAN /\ stop_requested \in BOOLEAN
      /\ owed \in [Driver -> BOOLEAN]
      /\ TickOrder
  <2>1. TypeOK /\ TickOrder
    BY DEF WiringInv
  <2>2. race_finished_ \in BOOLEAN /\ stop_requested \in BOOLEAN
    BY <2>1 DEF TypeOK
  <2>3. /\ driver \in Driver /\ pc \in {"loop", "drive", "on_tick", "exited"}
        /\ owed \in [Driver -> BOOLEAN]
    BY <2>1 DEF TypeOK
  <2> HIDE DEF TickOrder
  <2>4. /\ states_ \in [Driver -> Row] /\ tick \in Nat /\ tick <= MaxTicks /\ MaxTicks \in Nat
        /\ lap \in 1 .. MaxTicks + 1 /\ lap_before \in 1 .. MaxTicks + 1
    BY TickFacts
  <2>5. /\ lap \in Nat /\ lap_before \in Nat /\ 1 <= lap /\ 1 <= lap_before
        /\ lap <= MaxTicks + 1 /\ lap_before <= MaxTicks + 1
    BY <2>4
  <2> QED
    BY <2>1, <2>2, <2>3, <2>4, <2>5
<1>1. CASE BeginTick
  <2>1. /\ tick' = tick + 1 /\ tick < MaxTicks /\ lap_before' = lap /\ driver' = 1 /\ pc' = "drive"
        /\ UNCHANGED <<states_, lap, race_finished_, stop_requested, owed, callback>> /\ pc = "loop"
    BY <1>1, CarsStep DEF BeginTick, Source!BeginTick
  <2>2. driver' \in Driver /\ tick' \in 0 .. MaxTicks /\ \A d \in Driver : ~(d < driver')
    BY <1>0, <2>1 DEF Driver
  <2>3. TickOrder'
    BY <1>0, <2>1, <2>2
  <2> QED
    BY <1>0, <2>1, <2>2, <2>3
<1>2. CASE Exit
  BY <1>0, <1>2 DEF Exit, Source!Exit, Source!cars, Source!race, Others
<1>3. ASSUME NEW stop \in Source!Stop, NEW new_lap \in BOOLEAN, NEW finish \in BOOLEAN,
             Drive(stop, new_lap, finish)
      PROVE  /\ states_' \in [Driver -> Row] /\ tick' \in 0 .. MaxTicks
             /\ {lap', lap_before'} \subseteq 1 .. MaxTicks + 1
             /\ driver' \in Driver /\ pc' \in {"loop", "drive", "on_tick", "exited"}
             /\ race_finished_' \in BOOLEAN /\ stop_requested' \in BOOLEAN
             /\ owed' \in [Driver -> BOOLEAN]
             /\ TickOrder'
  <2>1. pc = "drive" /\ UNCHANGED <<tick, lap_before, stop_requested, callback>>
    BY <1>3, CarsStep DEF Drive, Source!Drive
  <2>2. /\ states_' = [states_ EXCEPT ![driver] = [tick |-> tick, stop |-> stop]]
        /\ race_finished_' \in BOOLEAN
    BY <1>0, <1>3 DEF Drive, Source!Drive
  <2>3. states_' \in [Driver -> Row]
    BY <1>0, <2>2 DEF Row
  <2>4. owed' \in [Driver -> BOOLEAN]
    BY <1>0, <1>3 DEF Drive
  <2>5. lap' \in Nat /\ lap_before' <= lap' /\ lap' <= lap_before' + 1 /\ lap' <= tick' + 1
    BY <1>0, <1>3, <2>1 DEF Drive, Source!Drive
  <2>6. {lap', lap_before'} \subseteq 1 .. MaxTicks + 1 /\ tick' \in 0 .. MaxTicks
    BY <1>0, <2>1, <2>5
  <2>7. IF driver < Drivers THEN driver' = driver + 1 /\ pc' = pc
                            ELSE driver' = driver /\ pc' = "on_tick"
    BY <1>3 DEF Drive, Source!Drive
  <2>8. driver' \in Driver /\ pc' \in {"drive", "on_tick"}
    BY <1>0, <2>1, <2>7 DEF Driver
  <2>9. ASSUME NEW d \in Driver, pc' # "drive" \/ d < driver' PROVE states_'[d].tick = tick
    <3>1. d = driver \/ d < driver
      BY <1>0, <2>1, <2>7, <2>9 DEF Driver
    <3> QED
      BY <1>0, <2>1, <2>2, <3>1
  <2>10. TickOrder'
    BY <1>0, <2>1, <2>5, <2>8, <2>9
  <2> QED
    BY <1>0, <2>1, <2>2, <2>3, <2>4, <2>6, <2>8, <2>10
<1>4. CASE on_tick
  <2>1. pc' # "on_tick" => callback' = "update"
    BY <1>4, CallbackStep DEF on_tick, UpdateLeaderboard, SetLap, CheckLimits, UpdateWeather,
                              ProcessEvents, CallbackGoes, source
  <2>2. pc' \in {"loop", "on_tick"}
    BY <1>4, CallbackStep DEF on_tick, UpdateLeaderboard, SetLap, CheckLimits, UpdateWeather,
                              ProcessEvents, source, Source!CallbackReturns
  <2> QED
    BY <1>0, <1>4, <2>1, <2>2, CallbackStep
<1>5. ASSUME NEW w \in Workers, Worker(w)
      PROVE  UNCHANGED <<states_, tick, lap, lap_before, driver, pc, race_finished_,
                         stop_requested, callback, owed>>
  BY <1>5, WorkerStep
<1>6. CASE Main
  <2>1. stop_requested' \in BOOLEAN
    BY <1>0, <1>6 DEF Main, BeginRound, ReadRow, RowsRead, ReadLap, ReadWeather, PrintRound,
         LeaveLoop, Join, DestroyPool, PoolDestroyed, source, Source!RequestStop
  <2> QED
    BY <1>0, <1>6, <2>1, MainStep
<1>7. CASE UNCHANGED vars
  BY <1>0, <1>7 DEF vars, source, cars, race
<1> QED
  BY <1>0, <1>1, <1>2, <1>3, <1>4, <1>5, <1>6, <1>7 DEF Next, Generator

\* The numbers that a task submitted in the callback carries.
LEMMA TaskType ==
    ASSUME WiringInv, pc = "on_tick", NEW job \in Job, NEW rows \in Rows
    PROVE  [job |-> job, tick |-> tick, lap |-> lap, rows |-> rows] \in Task
<1>1. lap_before <= tick /\ lap_before \in 1 .. MaxTicks + 1 /\ tick \in Nat /\ tick <= MaxTicks
  BY TickFacts
<1>2. tick \in 1 .. MaxTicks /\ lap \in 1 .. MaxTicks + 1
  BY <1>1, TickFacts
<1> QED
  BY <1>2 DEF Task

\* The tasks of the pool.
LEMMA PoolTypeStep ==
    ASSUME WiringInv, [Next]_vars
    PROVE  /\ waiting' \in Seq(Task) /\ ready' \subseteq Task
           /\ running' \in [Workers -> Task \union {Nobody}]
           /\ pool' \in {"open", "closing", "destroyed"}
           /\ future' \in [Job -> Task \union {Nobody}]
           /\ at' \in [Workers -> Nat \ {0}] /\ seen' \in [Workers -> SUBSET (0 .. MaxTicks)]
<1> DEFINE Goal ==
           /\ waiting' \in Seq(Task) /\ ready' \subseteq Task
           /\ running' \in [Workers -> Task \union {Nobody}]
           /\ pool' \in {"open", "closing", "destroyed"}
           /\ future' \in [Job -> Task \union {Nobody}]
           /\ at' \in [Workers -> Nat \ {0}] /\ seen' \in [Workers -> SUBSET (0 .. MaxTicks)]
<1> USE DEF jobs, executor
<1>0. /\ waiting \in Seq(Task) /\ ready \subseteq Task
      /\ running \in [Workers -> Task \union {Nobody}]
      /\ pool \in {"open", "closing", "destroyed"}
      /\ future \in [Job -> Task \union {Nobody}]
      /\ at \in [Workers -> Nat \ {0}] /\ seen \in [Workers -> SUBSET (0 .. MaxTicks)]
  <2>1. TypeOK
    BY DEF WiringInv
  <2>2. pool \in {"open", "closing", "destroyed"}
    BY <2>1 DEF TypeOK
  <2> QED
    BY <2>2, PoolFacts
<1>1. CASE \/ BeginTick \/ Exit
           \/ \E stop \in Source!Stop, new_lap, finish \in BOOLEAN : Drive(stop, new_lap, finish)
  BY <1>0, <1>1, CarsStep
<1>2. ASSUME NEW job \in Job, NEW rows \in Rows, pc = "on_tick", Submit(job, rows) PROVE Goal
  <2> DEFINE task == [job |-> job, tick |-> tick, lap |-> lap, rows |-> rows]
  <2>1. task \in Task
    BY <1>2, TaskType
  <2>2. /\ waiting' = Append(waiting, task) /\ future' = [future EXCEPT ![job] = task]
        /\ UNCHANGED <<running, ready, pool, at, seen>>
    BY <1>2 DEF Submit, Pool!Submit
  <2> HIDE DEF task
  <2> QED
    BY <1>0, <2>1, <2>2, AppendProperties
<1>3. CASE CheckLimits
  <2>1. states_ \in Rows /\ pc = "on_tick" /\ "limits" \in Job
    BY <1>3, TickFacts DEF CheckLimits, CallbackGoes, Job
  <2>2. CASE UNCHANGED jobs
    BY <1>0, <2>2
  <2>3. CASE Submit("limits", states_)
    BY <1>2, <2>1, <2>3
  <2> QED
    BY <1>3, <2>2, <2>3 DEF CheckLimits
<1>4. CASE UpdateWeather
  <2>1. <<>> \in Rows /\ pc = "on_tick" /\ "weather" \in Job
    BY <1>4 DEF UpdateWeather, CallbackGoes, Rows, Job
  <2>2. CASE UNCHANGED jobs
    BY <1>0, <2>2
  <2>3. CASE Submit("weather", <<>>)
    BY <1>2, <2>1, <2>3
  <2> QED
    BY <1>4, <2>2, <2>3 DEF UpdateWeather
<1>5. CASE UpdateLeaderboard \/ SetLap \/ \E n \in 0 .. Len(events) : ProcessEvents(n)
  BY <1>0, <1>5 DEF UpdateLeaderboard, SetLap, ProcessEvents
<1>6. ASSUME NEW w \in Workers, Worker(w) PROVE Goal
  <2>0. UNCHANGED <<pool, future>>
    BY <1>6, WorkerStep
  <2>1. CASE Take(w)
    <3>1. Head(waiting) \in Task /\ Tail(waiting) \in Seq(Task)
      BY <1>0, <2>1 DEF Take, Pool!Start
    <3> QED
      BY <1>0, <2>0, <2>1, <3>1 DEF Take, Pool!Start
  <2>2. CASE Link(w)
    BY <1>0, <2>2 DEF Link
  <2>3. CASE Done(w)
    BY <1>0, <2>0, <2>3 DEF Done, Pool!Finish
  <2>4. CASE WorkerGoesOn(w) /\ UNCHANGED seen
    BY <1>0, <2>4 DEF WorkerGoesOn
  <2>5. ASSUME NEW exceeds \in BOOLEAN, CheckDriver(w, exceeds) PROVE Goal
    <3>1. running[w] \in Task /\ running[w].job = "limits" /\ at[w] \in Driver
      BY <1>0, <2>5 DEF CheckDriver, Runs, Driver
    <3>2. running[w].rows \in [Driver -> Row]
      BY <1>0, <3>1 DEF WiringInv, ChecksHaveOneTick, IsCheckOfOneTick
    <3>3. Seen(w).tick \in 0 .. MaxTicks
      BY <3>1, <3>2 DEF Seen, Row
    <3> QED
      BY <1>0, <2>5, <3>3 DEF CheckDriver, WorkerGoesOn
  <2> QED
    BY <1>6, <2>1, <2>2, <2>3, <2>4, <2>5 DEF Worker, TaskEnds, WeatherTooEarly, WeatherRolls,
       WeatherChanges, WeatherPushes
<1>7. CASE Main
  <2>1. pool' \in {"open", "closing", "destroyed"}
    BY <1>0, <1>7 DEF Main, BeginRound, ReadRow, RowsRead, ReadLap, ReadWeather, PrintRound,
         LeaveLoop, Join, DestroyPool, PoolDestroyed, Pool!Close, Pool!Destroy
  <2> QED
    BY <1>0, <1>7, <2>1, MainStep
<1>8. CASE UNCHANGED vars
  BY <1>0, <1>8 DEF vars
<1> QED
  BY <1>1, <1>3, <1>4, <1>5, <1>6, <1>7, <1>8 DEF Next, Generator, on_tick

\* What the callback publishes, the events, the enforcer and the weather.
LEMMA SystemsTypeStep ==
    ASSUME WiringInv, [Next]_vars
    PROVE  /\ callback' \in {"update", "set_lap", "limits", "weather", "process"}
           /\ standings_' \in [rows : Rows, lap : Nat, knows : Nat] /\ current_lap' \in Seq(Nat)
           /\ events' \in Seq(Event) /\ cut' \in BOOLEAN
           /\ warnings_' \in [Driver -> Nat] /\ penalty' \in [Driver -> {"NONE", "PENDING"}]
           /\ last_update_lap_' \in Nat /\ changes' \in Seq(Nat)
<1> DEFINE Goal ==
           /\ callback' \in {"update", "set_lap", "limits", "weather", "process"}
           /\ standings_' \in [rows : Rows, lap : Nat, knows : Nat] /\ current_lap' \in Seq(Nat)
           /\ events' \in Seq(Event) /\ cut' \in BOOLEAN
           /\ warnings_' \in [Driver -> Nat] /\ penalty' \in [Driver -> {"NONE", "PENDING"}]
           /\ last_update_lap_' \in Nat /\ changes' \in Seq(Nat)
<1> USE DEF board, queue, enforcer, weather
<1>0. /\ callback \in {"update", "set_lap", "limits", "weather", "process"}
      /\ standings_ \in [rows : Rows, lap : Nat, knows : Nat] /\ current_lap \in Seq(Nat)
      /\ events \in Seq(Event) /\ cut \in BOOLEAN
      /\ warnings_ \in [Driver -> Nat] /\ penalty \in [Driver -> {"NONE", "PENDING"}]
      /\ last_update_lap_ \in Nat /\ changes \in Seq(Nat)
      /\ lap \in Nat /\ states_ \in Rows /\ Len(current_lap) \in Nat
      /\ running \in [Workers -> Task \union {Nobody}]
  <2>1. lap \in Nat /\ states_ \in Rows
    BY TickFacts
  <2> QED
    BY <2>1, SharedFacts, PoolFacts
<1>1. CASE \/ BeginTick \/ Exit
           \/ \E stop \in Source!Stop, new_lap, finish \in BOOLEAN : Drive(stop, new_lap, finish)
  BY <1>0, <1>1, CarsStep
<1>2. CASE UpdateLeaderboard
  BY <1>0, <1>2 DEF UpdateLeaderboard, CallbackGoes
<1>3. CASE SetLap
  BY <1>0, <1>3, AppendProperties DEF SetLap, CallbackGoes
<1>4. CASE CheckLimits \/ UpdateWeather
  BY <1>0, <1>4 DEF CheckLimits, UpdateWeather, CallbackGoes
<1>5. ASSUME NEW n \in 0 .. Len(events), ProcessEvents(n) PROVE Goal
  <2>1. PICK fined \in SUBSET Driver :
           /\ penalty' = [d \in Driver |-> IF d \in fined THEN "PENDING" ELSE penalty[d]]
           /\ events' = SubSeq(events, n + 1, Len(events))
                          \o SetToSeq({Announcement(d) : d \in fined})
    BY <1>5 DEF ProcessEvents
  <2>2. events' \in Seq(Event)
    BY <1>0, <2>1, DrainLeavesEvents, ConcatProperties
  <2>3. penalty' \in [Driver -> {"NONE", "PENDING"}]
    BY <1>0, <2>1
  <2>4. \A d \in Driver : WarningsIn(n, d) \in Nat
    <3> TAKE d \in Driver
    <3>0. 1 \in Int /\ n \in Int
      OBVIOUS
    <3>1. IsFiniteSet(1 .. n)
      BY <3>0, FS_Interval
    <3> DEFINE counted == {i \in 1 .. n : events[i].type = "TRACK_LIMITS" /\ events[i].driver = d}
    <3>2. counted \subseteq 1 .. n /\ WarningsIn(n, d) = Cardinality(counted)
      BY DEF WarningsIn
    <3> HIDE DEF counted
    <3> QED
      BY <3>1, <3>2, FS_Subset, FS_CardinalityType
  <2>5. warnings_' \in [Driver -> Nat]
    <3>1. warnings_' = [d \in Driver |-> warnings_[d] + WarningsIn(n, d)]
      BY <1>5 DEF ProcessEvents
    <3>2. \A d \in Driver : warnings_[d] + WarningsIn(n, d) \in Nat
      BY <1>0, <2>4
    <3> QED
      BY <3>1, <3>2
  <2>6. cut' \in BOOLEAN
    BY <1>5 DEF ProcessEvents
  <2> QED
    BY <1>0, <1>5, <2>2, <2>3, <2>5, <2>6 DEF ProcessEvents, CallbackGoes
<1>6. ASSUME NEW w \in Workers, Worker(w) PROVE Goal
  <2>0. UNCHANGED <<callback, standings_, current_lap, cut, warnings_, penalty>>
    BY <1>6, WorkerStep
  <2>1. ASSUME NEW type \in {"TRACK_LIMITS", "WEATHER_CHANGE"}, NEW d \in Driver \union {Nobody},
               Push(w, type, d)
        PROVE  events' \in Seq(Event)
    <3>1. [type |-> type, driver |-> d, open |-> w] \in Event
      BY DEF Event
    <3> QED
      BY <1>0, <2>1, <3>1, AppendProperties DEF Push
  <2>2. CASE Take(w) \/ TaskEnds(w) \/ WeatherTooEarly(w)
    BY <1>0, <2>0, <2>2 DEF Take, TaskEnds, WeatherTooEarly
  <2>3. CASE Link(w)
    <3>1. PICK i \in 1 .. Len(events) : events' = [events EXCEPT ![i].open = Nobody]
      BY <2>3 DEF Link
    <3>2. [events[i] EXCEPT !.open = Nobody] \in Event
      <4>1. events[i] \in Event
        BY <1>0
      <4> QED
        BY <4>1 DEF Event
    <3>3. events' \in Seq(Event)
      BY <1>0, <3>1, <3>2, ExceptSeq
    <3> QED
      BY <1>0, <2>0, <2>3, <3>3 DEF Link
  <2>4. ASSUME NEW exceeds \in BOOLEAN, CheckDriver(w, exceeds) PROVE Goal
    <3>1. at[w] \in Driver
      <4>1. at[w] \in Nat \ {0} /\ at[w] <= Drivers
        BY <2>4, PoolFacts DEF CheckDriver
      <4> QED
        BY <4>1 DEF Driver
    <3>2. events' \in Seq(Event)
      BY <1>0, <2>1, <2>4, <3>1 DEF CheckDriver
    <3> QED
      BY <1>0, <2>0, <2>4, <3>2 DEF CheckDriver
  <2>5. ASSUME NEW change \in BOOLEAN, WeatherRolls(w, change) PROVE Goal
    <3>1. running[w].lap \in Nat
      BY <1>0, <2>5 DEF WeatherRolls, Runs, Task
    <3> QED
      BY <1>0, <2>0, <2>5, <3>1 DEF WeatherRolls, Remembers
  <2>6. CASE WeatherChanges(w)
    <3>1. running[w].lap \in Nat
      BY <1>0, <2>6 DEF WeatherChanges, Runs, Task
    <3>2. changes' \in Seq(Nat)
      BY <1>0, <2>6, <3>1, AppendProperties DEF WeatherChanges
    <3> QED
      BY <1>0, <2>0, <2>6, <3>2 DEF WeatherChanges
  <2>7. CASE WeatherPushes(w)
    BY <1>0, <2>0, <2>1, <2>7 DEF WeatherPushes
  <2> QED
    BY <1>6, <2>2, <2>3, <2>4, <2>5, <2>6, <2>7 DEF Worker
<1>7. CASE Main
  BY <1>0, <1>7, MainStep
<1>8. CASE UNCHANGED vars
  BY <1>0, <1>8 DEF vars
<1> QED
  BY <1>1, <1>2, <1>3, <1>4, <1>5, <1>6, <1>7, <1>8 DEF Next, Generator, on_tick

\* What main() reads.
LEMMA ScreenTypeStep ==
    ASSUME WiringInv, [Next]_vars
    PROVE  /\ main' \in {"render", "rows", "lap", "weather", "grip", "print", "join", "summary",
                         "draining", "returned"}
           /\ line' \in [rows : Seq(Row), of : Nat, knows : Nat, lap : Nat, weather : Nat,
                         grip : Nat]
<1> DEFINE Labels == {"render", "rows", "lap", "weather", "grip", "print", "join", "summary",
                      "draining", "returned"}
           Lines == [rows : Seq(Row), of : Nat, knows : Nat, lap : Nat, weather : Nat, grip : Nat]
<1>0. /\ main \in Labels /\ line \in Lines
      /\ standings_ \in [rows : Rows, lap : Nat, knows : Nat] /\ current_lap \in Seq(Nat)
      /\ changes \in Seq(Nat) /\ Len(changes) \in Nat
  BY SharedFacts, ScreenFacts
<1>1. CASE Generator
  BY <1>0, <1>1, CarsStep, CallbackStep DEF Generator
<1>2. CASE \E w \in Workers : Worker(w)
  BY <1>0, <1>2, WorkerStep
<1>3. CASE BeginRound \/ LeaveLoop \/ Join \/ DestroyPool \/ PoolDestroyed
  BY <1>0, <1>3 DEF BeginRound, LeaveLoop, Join, DestroyPool, PoolDestroyed, MainGoes, Reads
<1>4. CASE ReadRow
  <2>1. line.rows \in Seq(Row) /\ Len(line.rows) \in Nat /\ standings_.rows \in Rows
    BY <1>0
  <2>2. standings_.rows \in Seq(Row) /\ Len(standings_.rows) \in Nat
    BY <2>1, RowsAreSeq
  <2>3. Len(line.rows) + 1 \in 1 .. Len(standings_.rows)
    BY <1>4, <2>1, <2>2 DEF ReadRow
  <2>4. standings_.rows[Len(line.rows) + 1] \in Row
    BY <2>2, <2>3, ElementOfSeq
  <2>5. Append(line.rows, standings_.rows[Len(line.rows) + 1]) \in Seq(Row)
    BY <2>1, <2>4, AppendProperties
  <2> HIDE DEF Row
  <2> QED
    BY <1>0, <1>4, <2>5 DEF ReadRow, MainGoes
<1>5. CASE RowsRead
  BY <1>0, <1>5 DEF RowsRead, MainGoes, Reads
<1>6. ASSUME NEW i \in 1 .. Len(current_lap), ReadLap(i) PROVE main' \in Labels /\ line' \in Lines
  <2>1. current_lap[i] \in Nat
    BY ElementOfSeq, SharedFacts
  <2> QED
    BY <1>0, <1>6, <2>1 DEF ReadLap, MainGoes, Reads
<1>7. CASE ReadWeather
  <2>1. CASE main = "weather"
    BY <1>0, <1>7, <2>1 DEF ReadWeather, MainGoes, Reads
  <2>2. CASE main = "grip"
    BY <1>0, <1>7, <2>2 DEF ReadWeather, MainGoes, Reads
  <2> QED
    BY <1>7, <2>1, <2>2 DEF ReadWeather
<1>8. CASE PrintRound
  BY <1>8 DEF PrintRound, MainGoes, NoLine
<1>9. CASE UNCHANGED vars
  BY <1>0, <1>9 DEF vars, screen
<1> QED
  BY <1>1, <1>2, <1>3, <1>4, <1>5, <1>6, <1>7, <1>8, <1>9 DEF Next, Main

\* Together.
LEMMA TypeStep == ASSUME WiringInv, [Next]_vars PROVE TypeOK'
BY SourceTypeStep, PoolTypeStep, SystemsTypeStep, ScreenTypeStep DEF TypeOK

-----------------------------------------------------------------------------
\* The tasks.

\* A job is submitted only when its last task has returned, so its future stands for
\* the only one of its tasks that may be queued or running.
LEMMA FuturesStep == ASSUME WiringInv, [Next]_vars PROVE TasksHaveFutures'
<1> USE DEF jobs, executor
<1>0. /\ TasksHaveFutures /\ waiting \in Seq(Task) /\ Len(waiting) \in Nat
      /\ running \in [Workers -> Task \union {Nobody}] /\ Nobody \notin Task
      /\ future \in [Job -> Task \union {Nobody}]
      /\ \A t \in Task : t.job \in Job
  <2>1. \A t \in Task : t.job \in Job
    BY DEF Task
  <2>2. TasksHaveFutures
    BY DEF WiringInv
  <2> QED
    BY <2>1, <2>2, PoolFacts
<1>u. ASSUME UNCHANGED <<waiting, running, ready, future>> PROVE TasksHaveFutures'
  BY <1>0, <1>u DEF TasksHaveFutures
<1>1. CASE \/ BeginTick \/ Exit
           \/ \E stop \in Source!Stop, new_lap, finish \in BOOLEAN : Drive(stop, new_lap, finish)
  BY <1>1, <1>u, CarsStep
<1>2. ASSUME NEW job \in Job, NEW rows \in Rows, pc = "on_tick", Submit(job, rows), IsIdle(job)
      PROVE  TasksHaveFutures'
  <2> DEFINE task == [job |-> job, tick |-> tick, lap |-> lap, rows |-> rows]
  <2>1. task \in Task /\ task.job = job
    BY <1>2, TaskType
  <2>2. /\ waiting' = Append(waiting, task) /\ future' = [future EXCEPT ![job] = task]
        /\ UNCHANGED <<running, ready>> /\ Pool!Fresh(task)
    BY <1>2 DEF Submit, Pool!Submit
  <2> HIDE DEF task
  <2>3. /\ Len(waiting') = Len(waiting) + 1 /\ waiting'[Len(waiting) + 1] = task
        /\ \A i \in 1 .. Len(waiting) : waiting'[i] = waiting[i]
    BY <1>0, <2>1, <2>2, AppendProperties
  <2>4. \A i \in 1 .. Len(waiting) :
           /\ waiting[i] \in Task /\ waiting[i].job # job /\ waiting[i] # task
           /\ future'[waiting[i].job] = waiting[i]
    <3> TAKE i \in 1 .. Len(waiting)
    <3>1. waiting[i] \in Task /\ waiting[i] = future[waiting[i].job] /\ waiting[i] \notin ready
      BY <1>0 DEF TasksHaveFutures
    <3>2. waiting[i].job # job
      BY <1>0, <1>2, <3>1 DEF IsIdle
    <3> QED
      BY <1>0, <2>1, <2>2, <3>1, <3>2
  <2>5. \A w \in Workers : running[w] # Nobody =>
           /\ running[w] # task /\ future'[running[w].job] = running[w]
    <3> TAKE w \in Workers
    <3> HAVE running[w] # Nobody
    <3>1. running[w] \in Task /\ running[w] = future[running[w].job] /\ running[w] \notin ready
      BY <1>0 DEF TasksHaveFutures
    <3>2. running[w].job # job
      BY <1>0, <1>2, <3>1 DEF IsIdle
    <3> QED
      BY <1>0, <2>1, <2>2, <3>1, <3>2
  <2>6. /\ task \notin ready /\ future'[task.job] = task
        /\ \A w \in Workers : running[w] # task
    BY <1>0, <2>1, <2>2 DEF Pool!Fresh
  <2>7. \A i \in 1 .. Len(waiting') : i \in 1 .. Len(waiting) \/ i = Len(waiting) + 1
    BY <1>0, <2>3
  <2>8. ASSUME NEW i \in 1 .. Len(waiting')
        PROVE  /\ waiting'[i] = future'[waiting'[i].job] /\ waiting'[i] \notin ready'
               /\ \A j \in 1 .. Len(waiting') : waiting'[i] = waiting'[j] => i = j
               /\ \A w \in Workers : running'[w] # waiting'[i]
    BY <1>0, <2>2, <2>3, <2>4, <2>6, <2>7 DEF TasksHaveFutures
  <2>9. ASSUME NEW w \in Workers, running'[w] # Nobody
        PROVE  /\ running'[w] = future'[running'[w].job] /\ running'[w] \notin ready'
               /\ \A v \in Workers : running'[v] = running'[w] => v = w
    BY <1>0, <2>2, <2>5, <2>9 DEF TasksHaveFutures
  <2> QED
    BY <2>8, <2>9 DEF TasksHaveFutures
<1>3. CASE CheckLimits
  <2>1. states_ \in Rows /\ pc = "on_tick" /\ "limits" \in Job
    BY <1>3, TickFacts DEF CheckLimits, CallbackGoes, Job
  <2> QED
    BY <1>2, <1>3, <1>u, <2>1 DEF CheckLimits
<1>4. CASE UpdateWeather
  <2>1. <<>> \in Rows /\ pc = "on_tick" /\ "weather" \in Job
    BY <1>4 DEF UpdateWeather, CallbackGoes, Rows, Job
  <2> QED
    BY <1>2, <1>4, <1>u, <2>1 DEF UpdateWeather
<1>5. CASE UpdateLeaderboard \/ SetLap \/ \E n \in 0 .. Len(events) : ProcessEvents(n)
  BY <1>5, <1>u DEF UpdateLeaderboard, SetLap, ProcessEvents
<1>6. ASSUME NEW w \in Workers, Worker(w) PROVE TasksHaveFutures'
  <2>0. UNCHANGED future
    BY <1>6, WorkerStep
  <2>1. CASE Take(w)
    <3>1. /\ waiting # <<>> /\ running[w] = Nobody /\ ready' = ready
          /\ running' = [running EXCEPT ![w] = Head(waiting)] /\ waiting' = Tail(waiting)
      BY <2>1 DEF Take, Pool!Start
    <3>2. /\ Len(waiting') = Len(waiting) - 1 /\ 1 \in 1 .. Len(waiting)
          /\ \A i \in 1 .. Len(waiting') : i + 1 \in 1 .. Len(waiting) /\ i \in Nat
          /\ \A i \in 1 .. Len(waiting') : waiting'[i] = waiting[i + 1]
          /\ Head(waiting) = waiting[1] /\ waiting[1] \in Task
      BY <1>0, <3>1, HeadTailProperties
    <3>3. \A v \in Workers : running'[v] = IF v = w THEN waiting[1] ELSE running[v]
      BY <1>0, <3>1, <3>2
    <3>4. ASSUME NEW i \in 1 .. Len(waiting')
          PROVE  /\ waiting'[i] = future'[waiting'[i].job] /\ waiting'[i] \notin ready'
                 /\ \A j \in 1 .. Len(waiting') : waiting'[i] = waiting'[j] => i = j
                 /\ \A v \in Workers : running'[v] # waiting'[i]
      <4>1. waiting'[i] = future'[waiting'[i].job] /\ waiting'[i] \notin ready'
        BY <1>0, <2>0, <3>1, <3>2 DEF TasksHaveFutures
      <4>2. \A j \in 1 .. Len(waiting') : waiting'[i] = waiting'[j] => i = j
        <5> TAKE j \in 1 .. Len(waiting')
        <5>1. waiting[i + 1] = waiting[j + 1] => i + 1 = j + 1
          BY <1>0, <3>2 DEF TasksHaveFutures
        <5>2. i \in Int /\ j \in Int
          OBVIOUS
        <5>3. waiting'[i] = waiting[i + 1] /\ waiting'[j] = waiting[j + 1]
          BY <3>2
        <5>4. i + 1 = j + 1 => i = j
          BY <5>2
        <5> QED
          BY <5>1, <5>3, <5>4
      <4>3. waiting[i + 1] # waiting[1]
        <5>1. i \in 1 .. Len(waiting') /\ i + 1 \in 1 .. Len(waiting)
          BY <3>2
        <5>2. i + 1 # 1
          BY <5>1
        <5> QED
          BY <1>0, <3>2, <5>1, <5>2 DEF TasksHaveFutures
      <4>4. waiting'[i] = waiting[i + 1] /\ i + 1 \in 1 .. Len(waiting)
        BY <3>2
      <4>5. \A v \in Workers : running[v] # waiting[i + 1]
        BY <1>0, <4>4 DEF TasksHaveFutures
      <4>6. \A v \in Workers : running'[v] # waiting'[i]
        BY <3>3, <4>3, <4>4, <4>5
      <4> QED
        BY <4>1, <4>2, <4>6
    <3>5. ASSUME NEW v \in Workers, running'[v] # Nobody
          PROVE  /\ running'[v] = future'[running'[v].job] /\ running'[v] \notin ready'
                 /\ \A u \in Workers : running'[u] = running'[v] => u = v
      BY <1>0, <2>0, <3>1, <3>2, <3>3, <3>5 DEF TasksHaveFutures
    <3> QED
      BY <3>4, <3>5 DEF TasksHaveFutures
  <2>2. CASE Done(w)
    <3>1. /\ running[w] # Nobody /\ running' = [running EXCEPT ![w] = Nobody]
          /\ ready' = ready \union {running[w]} /\ waiting' = waiting
      BY <2>2 DEF Done, Pool!Finish
    <3> QED
      BY <1>0, <2>0, <3>1 DEF TasksHaveFutures
  <2>3. CASE UNCHANGED executor
    BY <1>u, <2>0, <2>3
  <2> QED
    BY <1>6, <2>1, <2>2, <2>3 DEF Worker, Link, TaskEnds, CheckDriver, WeatherTooEarly, WeatherRolls,
       WeatherChanges, WeatherPushes, WorkerGoesOn
<1>7. CASE Main
  BY <1>7, <1>u, MainStep
<1>8. CASE UNCHANGED vars
  BY <1>8, <1>u DEF vars
<1> QED
  BY <1>1, <1>3, <1>4, <1>5, <1>6, <1>7, <1>8 DEF Next, Generator, on_tick

\* Of each job at most one task is queued or running.
LEMMA OneTaskPerJob == ASSUME TypeOK, TasksHaveFutures PROVE SingleFlight
<1> SUFFICES ASSUME NEW w1 \in Workers, NEW w2 \in Workers, NEW j \in Job
             PROVE  /\ Runs(w1, j) /\ Runs(w2, j) => w1 = w2
                    /\ Runs(w1, j) => \A i \in 1 .. Len(waiting) : waiting[i].job # j
  BY DEF SingleFlight
<1>1. Runs(w1, j) /\ Runs(w2, j) => w1 = w2
  BY DEF TasksHaveFutures, Runs
<1>2. ASSUME Runs(w1, j), NEW i \in 1 .. Len(waiting) PROVE waiting[i].job # j
  BY <1>2 DEF TasksHaveFutures, Runs
<1> QED
  BY <1>1, <1>2

\* The states copied into a check are those of the tick that submits it, and the
\* check looks at no others.
LEMMA ChecksStep == ASSUME WiringInv, [Next]_vars PROVE ChecksHaveOneTick'
<1> USE DEF jobs, executor
<1>0. /\ ChecksHaveOneTick /\ TickOrder /\ waiting \in Seq(Task) /\ Len(waiting) \in Nat
      /\ running \in [Workers -> Task \union {Nobody}] /\ Nobody \notin Task
      /\ seen \in [Workers -> SUBSET (0 .. MaxTicks)] /\ at \in [Workers -> Nat \ {0}]
      /\ states_ \in [Driver -> Row]
  <2>1. ChecksHaveOneTick /\ TickOrder
    BY DEF WiringInv
  <2> QED
    BY <2>1, PoolFacts, TickFacts
<1>u. ASSUME UNCHANGED <<waiting, running, seen>> PROVE ChecksHaveOneTick'
  BY <1>0, <1>u DEF ChecksHaveOneTick, CheckSeesOneTick, IsCheckOfOneTick, Runs
<1>1. CASE \/ BeginTick \/ Exit
           \/ \E stop \in Source!Stop, new_lap, finish \in BOOLEAN : Drive(stop, new_lap, finish)
  BY <1>1, <1>u, CarsStep
<1>2. ASSUME NEW job \in Job, NEW rows \in Rows, pc = "on_tick", Submit(job, rows),
             job = "limits" => rows = states_
      PROVE  ChecksHaveOneTick'
  <2> DEFINE task == [job |-> job, tick |-> tick, lap |-> lap, rows |-> rows]
  <2>1. task \in Task /\ task.job = job /\ task.rows = rows /\ task.tick = tick
    BY <1>2, TaskType
  <2>2. waiting' = Append(waiting, task) /\ UNCHANGED <<running, seen>>
    BY <1>2 DEF Submit, Pool!Submit
  <2>3. IsCheckOfOneTick(task)
    BY <1>0, <1>2, <2>1 DEF IsCheckOfOneTick, TickOrder
  <2> HIDE DEF task
  <2>4. /\ Len(waiting') = Len(waiting) + 1 /\ waiting'[Len(waiting) + 1] = task
        /\ \A i \in 1 .. Len(waiting) : waiting'[i] = waiting[i]
    BY <1>0, <2>1, <2>2, AppendProperties
  <2>5. \A i \in 1 .. Len(waiting') : i \in 1 .. Len(waiting) \/ i = Len(waiting) + 1
    BY <1>0, <2>4
  <2>6. \A i \in 1 .. Len(waiting') : IsCheckOfOneTick(waiting'[i])
    BY <1>0, <2>3, <2>4, <2>5 DEF ChecksHaveOneTick
  <2> QED
    BY <1>0, <2>2, <2>6 DEF ChecksHaveOneTick, CheckSeesOneTick, IsCheckOfOneTick, Runs
<1>3. CASE CheckLimits
  <2>1. states_ \in Rows /\ pc = "on_tick" /\ "limits" \in Job
    BY <1>3, <1>0 DEF CheckLimits, CallbackGoes, Rows, Job
  <2> QED
    BY <1>2, <1>3, <1>u, <2>1 DEF CheckLimits
<1>4. CASE UpdateWeather
  <2>1. <<>> \in Rows /\ pc = "on_tick" /\ "weather" \in Job /\ "weather" # "limits"
    BY <1>4 DEF UpdateWeather, CallbackGoes, Rows, Job
  <2> QED
    BY <1>2, <1>4, <1>u, <2>1 DEF UpdateWeather
<1>5. CASE UpdateLeaderboard \/ SetLap \/ \E n \in 0 .. Len(events) : ProcessEvents(n)
  BY <1>5, <1>u DEF UpdateLeaderboard, SetLap, ProcessEvents
<1>6. ASSUME NEW w \in Workers, Worker(w) PROVE ChecksHaveOneTick'
  <2>1. CASE Take(w)
    <3>1. /\ waiting # <<>> /\ running' = [running EXCEPT ![w] = Head(waiting)]
          /\ waiting' = Tail(waiting) /\ seen' = [seen EXCEPT ![w] = {}]
      BY <2>1 DEF Take, Pool!Start
    <3>2. /\ Len(waiting') = Len(waiting) - 1 /\ 1 \in 1 .. Len(waiting)
          /\ \A i \in 1 .. Len(waiting') : i + 1 \in 1 .. Len(waiting)
          /\ \A i \in 1 .. Len(waiting') : waiting'[i] = waiting[i + 1]
          /\ Head(waiting) = waiting[1]
      BY <1>0, <3>1, HeadTailProperties
    <3>3. \A i \in 1 .. Len(waiting') : IsCheckOfOneTick(waiting'[i])
      BY <1>0, <3>2 DEF ChecksHaveOneTick
    <3>4. /\ \A v \in Workers : running'[v] = IF v = w THEN waiting[1] ELSE running[v]
          /\ \A v \in Workers : seen'[v] = IF v = w THEN {} ELSE seen[v]
      BY <1>0, <3>1, <3>2
    <3>5. \A v \in Workers : running'[v] # Nobody => IsCheckOfOneTick(running'[v])
      BY <1>0, <3>2, <3>4 DEF ChecksHaveOneTick
    <3>6. CheckSeesOneTick'
      BY <1>0, <3>4 DEF ChecksHaveOneTick, CheckSeesOneTick, Runs
    <3> QED
      BY <3>3, <3>5, <3>6 DEF ChecksHaveOneTick, IsCheckOfOneTick
  <2>2. CASE Done(w)
    <3>1. running' = [running EXCEPT ![w] = Nobody] /\ UNCHANGED <<waiting, seen>>
      BY <2>2 DEF Done, Pool!Finish
    <3> QED
      BY <1>0, <3>1 DEF ChecksHaveOneTick, CheckSeesOneTick, IsCheckOfOneTick, Runs
  <2>3. ASSUME NEW exceeds \in BOOLEAN, CheckDriver(w, exceeds) PROVE ChecksHaveOneTick'
    <3>1. running[w] # Nobody /\ running[w].job = "limits"
      BY <2>3 DEF CheckDriver, Runs
    <3>2. at[w] \in Driver
      <4>1. at[w] \in Nat \ {0} /\ at[w] <= Drivers
        BY <1>0, <2>3 DEF CheckDriver
      <4> QED
        BY <4>1 DEF Driver
    <3>3. Seen(w).tick = running[w].tick
      BY <1>0, <3>1, <3>2 DEF ChecksHaveOneTick, IsCheckOfOneTick, Seen
    <3>4. seen' = [seen EXCEPT ![w] = @ \union {running[w].tick}] /\ UNCHANGED <<waiting, running>>
      BY <2>3, <3>3 DEF CheckDriver, WorkerGoesOn
    <3>5. CheckSeesOneTick'
      BY <1>0, <3>4 DEF ChecksHaveOneTick, CheckSeesOneTick, Runs
    <3> QED
      BY <1>0, <3>4, <3>5 DEF ChecksHaveOneTick, IsCheckOfOneTick
  <2>4. CASE UNCHANGED <<waiting, running, seen>>
    BY <1>u, <2>4
  <2> QED
    BY <1>6, <2>1, <2>2, <2>3, <2>4 DEF Worker, Link, TaskEnds, WeatherTooEarly, WeatherRolls,
       WeatherChanges, WeatherPushes, WorkerGoesOn
<1>7. CASE Main
  BY <1>7, <1>u, MainStep
<1>8. CASE UNCHANGED vars
  BY <1>8, <1>u DEF vars
<1> QED
  BY <1>1, <1>3, <1>4, <1>5, <1>6, <1>7, <1>8 DEF Next, Generator, on_tick

\* The weather changes at the lap just remembered, WeatherGap or more after the last
\* one remembered; no other update comes between, as it is the only one.
LEMMA ChangesStep == ASSUME WiringInv, [Next]_vars PROVE ChangesAreRemembered'
<1> USE DEF weather, jobs, executor
<1>0. /\ ChangesAreRemembered /\ changes \in Seq(Nat) /\ Len(changes) \in Nat
      /\ last_update_lap_ \in Nat /\ at \in [Workers -> Nat \ {0}]
      /\ running \in [Workers -> Task \union {Nobody}] /\ Nobody \notin Task
      /\ WeatherGap \in Nat
      /\ \A t \in Task : t.lap \in Nat
      /\ \A i \in 1 .. Len(changes) : changes[i] \in Nat
  <2>1. \A t \in Task : t.lap \in Nat
    BY DEF Task
  <2>2. changes \in Seq(Nat)
    BY SharedFacts
  <2>3. Len(changes) \in Nat /\ \A i \in 1 .. Len(changes) : changes[i] \in Nat
    BY <2>2
  <2>4. WeatherGap \in Nat
    OBVIOUS
  <2> QED
    BY <2>1, <2>2, <2>3, <2>4, SharedFacts, PoolFacts DEF WiringInv
<1>s. \A v, w \in Workers : Runs(v, "weather") /\ Runs(w, "weather") => v = w
  BY OneTaskPerJob DEF WiringInv, SingleFlight, Job
<1>u. ASSUME UNCHANGED <<changes, last_update_lap_, running, at>> PROVE ChangesAreRemembered'
  BY <1>0, <1>u DEF ChangesAreRemembered, WeatherChangesApart, Runs
<1>v. ASSUME UNCHANGED <<changes, last_update_lap_>>, NEW w \in Workers,
             \A v \in Workers \ {w} : running'[v] = running[v] /\ at'[v] = at[v],
             ~(Runs(w, "weather")' /\ at'[w] = 2)
      PROVE  ChangesAreRemembered'
  BY <1>0, <1>v DEF ChangesAreRemembered, WeatherChangesApart, Runs
<1>1. CASE Generator \/ Main
  BY <1>1, <1>u, CarsStep, CallbackStep, MainStep DEF Generator
<1>2. ASSUME NEW w \in Workers, Worker(w) PROVE ChangesAreRemembered'
  <2>1. CASE Take(w)
    BY <1>0, <1>v, <2>1 DEF Take, Pool!Start
  <2>2. CASE Link(w)
    BY <1>u, <2>2 DEF Link
  <2>3. CASE TaskEnds(w) \/ WeatherTooEarly(w)
    <3>1. running' = [running EXCEPT ![w] = Nobody] /\ UNCHANGED <<changes, last_update_lap_, at>>
      BY <2>3 DEF TaskEnds, WeatherTooEarly, Done, Pool!Finish
    <3>2. ~Runs(w, "weather")' /\ \A v \in Workers \ {w} : running'[v] = running[v]
      BY <1>0, <3>1 DEF Runs
    <3> QED
      BY <1>v, <3>1, <3>2
  <2>4. CASE \E exceeds \in BOOLEAN : CheckDriver(w, exceeds)
    <3>1. /\ UNCHANGED <<running, changes, last_update_lap_>> /\ Runs(w, "limits")
          /\ \A v \in Workers \ {w} : at'[v] = at[v]
      BY <1>0, <2>4 DEF CheckDriver, WorkerGoesOn
    <3> QED
      BY <1>v, <3>1 DEF Runs
  <2>5. ASSUME NEW change \in BOOLEAN, WeatherRolls(w, change) PROVE ChangesAreRemembered'
    <3>1. /\ Runs(w, "weather") /\ at[w] = 1 /\ last_update_lap_' = running[w].lap
          /\ running[w].lap \in Nat /\ last_update_lap_ + WeatherGap <= running[w].lap
          /\ UNCHANGED changes
      BY <1>0, <2>5 DEF WeatherRolls, Runs, TooEarly, Remembers
    <3>2. \A i \in 1 .. Len(changes) : changes[i] + WeatherGap <= running[w].lap
                                    /\ changes[i] <= running[w].lap
      BY <1>0, <3>1 DEF ChangesAreRemembered
    <3>3. WeatherChangesApart'
      BY <1>0, <3>1 DEF ChangesAreRemembered, WeatherChangesApart
    <3>4. CASE change
      <4>1. at' = [at EXCEPT ![w] = 2] /\ UNCHANGED running
        BY <1>0, <2>5, <3>1, <3>4 DEF WeatherRolls, WorkerGoesOn
      <4> QED
        BY <1>0, <1>s, <3>1, <3>2, <3>3, <4>1 DEF ChangesAreRemembered, Runs
    <3>5. CASE ~change
      <4>1. running' = [running EXCEPT ![w] = Nobody] /\ UNCHANGED at
        BY <2>5, <3>5 DEF WeatherRolls, Done, Pool!Finish
      <4> QED
        BY <1>0, <1>s, <3>1, <3>2, <3>3, <4>1 DEF ChangesAreRemembered, Runs
    <3> QED
      BY <3>4, <3>5
  <2>6. CASE WeatherChanges(w)
    <3>1. /\ Runs(w, "weather") /\ at[w] = 2 /\ running[w].lap \in Nat
          /\ changes' = Append(changes, running[w].lap) /\ at' = [at EXCEPT ![w] = 3]
          /\ UNCHANGED <<last_update_lap_, running>>
      BY <1>0, <2>6 DEF WeatherChanges, WorkerGoesOn, Runs
    <3>2. /\ last_update_lap_ = running[w].lap
          /\ \A i \in 1 .. Len(changes) : changes[i] + WeatherGap <= last_update_lap_
      BY <1>0, <3>1 DEF ChangesAreRemembered
    <3>3. /\ Len(changes') = Len(changes) + 1 /\ changes'[Len(changes) + 1] = running[w].lap
          /\ \A i \in 1 .. Len(changes) : changes'[i] = changes[i]
          /\ \A i \in 1 .. Len(changes') : i \in 1 .. Len(changes) \/ i = Len(changes) + 1
      BY <1>0, <3>1, AppendProperties
    <3>4. \A i \in 1 .. Len(changes') : changes'[i] <= last_update_lap_
      BY <1>0, <3>1, <3>2, <3>3 DEF ChangesAreRemembered
    <3>5. ASSUME NEW i \in 1 .. Len(changes'), NEW j \in 1 .. Len(changes'), i < j
          PROVE  changes'[j] >= changes'[i] + WeatherGap
      <4>1. i \in 1 .. Len(changes)
        BY <1>0, <3>3, <3>5
      <4> QED
        BY <1>0, <3>2, <3>3, <3>5, <4>1 DEF ChangesAreRemembered, WeatherChangesApart
    <3>6. \A v \in Workers : ~(Runs(v, "weather")' /\ at'[v] = 2)
      BY <1>0, <1>s, <3>1 DEF Runs
    <3> QED
      BY <3>1, <3>4, <3>5, <3>6 DEF ChangesAreRemembered, WeatherChangesApart
  <2>7. CASE WeatherPushes(w)
    BY <1>0, <1>v, <2>7 DEF WeatherPushes, WorkerGoesOn
  <2> QED
    BY <1>2, <2>1, <2>2, <2>3, <2>4, <2>5, <2>6, <2>7 DEF Worker
<1>3. CASE UNCHANGED vars
  BY <1>3, <1>u DEF vars
<1> QED
  BY <1>1, <1>2, <1>3 DEF Next

-----------------------------------------------------------------------------
\* What the callback publishes and main() reads.

\* The lap stored is that of the last tick, and the standings know the store before.
LEMMA LapsStep == ASSUME WiringInv, [Next]_vars PROVE LapsArePublished'
<1> USE DEF Last
<1>0. /\ LapsArePublished /\ TickOrder /\ current_lap \in Seq(Nat) /\ Len(current_lap) \in Nat
      /\ lap \in Nat /\ lap_before \in Nat
      /\ \A i \in 1 .. Len(current_lap) : current_lap[i] \in Nat
  <2>1. current_lap \in Seq(Nat) /\ lap \in 1 .. MaxTicks + 1 /\ lap_before \in 1 .. MaxTicks + 1
    BY SharedFacts, TickFacts
  <2>2. Len(current_lap) \in Nat /\ \A i \in 1 .. Len(current_lap) : current_lap[i] \in Nat
    BY <2>1
  <2> QED
    BY <2>1, <2>2 DEF WiringInv
<1>u. ASSUME UNCHANGED <<current_lap, standings_>>,
             (IF pc \in {"drive", "on_tick"} /\ callback \in {"update", "set_lap"}
                THEN lap_before ELSE lap)'
               = IF pc \in {"drive", "on_tick"} /\ callback \in {"update", "set_lap"}
                   THEN lap_before ELSE lap
      PROVE  LapsArePublished'
  BY <1>0, <1>u DEF LapsArePublished
<1>1. CASE BeginTick
  BY <1>0, <1>1, <1>u, CarsStep DEF BeginTick, Source!BeginTick, TickOrder
<1>2. CASE Exit
  BY <1>0, <1>2, <1>u, CarsStep DEF Exit, Source!Exit, Source!race, TickOrder
<1>3. CASE \E stop \in Source!Stop, new_lap, finish \in BOOLEAN : Drive(stop, new_lap, finish)
  <2>1. pc = "drive" /\ pc' \in {"drive", "on_tick"} /\ UNCHANGED lap_before
    BY <1>3 DEF Drive, Source!Drive
  <2> QED
    BY <1>0, <1>3, <1>u, <2>1, CarsStep DEF TickOrder
<1>4. CASE UpdateLeaderboard
  <2>1. /\ pc = "on_tick" /\ callback = "update" /\ callback' = "set_lap"
        /\ standings_'.lap = lap /\ standings_'.knows = Len(current_lap)
        /\ UNCHANGED <<pc, current_lap, lap, lap_before>>
    BY <1>4 DEF UpdateLeaderboard, CallbackGoes, source, race
  <2>2. current_lap[Len(current_lap)] = lap_before /\ lap_before >= lap - 1
    BY <1>0, <2>1 DEF LapsArePublished, TickOrder
  <2> QED
    BY <1>0, <2>1, <2>2 DEF LapsArePublished
<1>5. CASE SetLap
  <2>1. /\ pc = "on_tick" /\ callback = "set_lap" /\ callback' = "limits"
        /\ current_lap' = Append(current_lap, lap)
        /\ UNCHANGED <<pc, standings_, lap, lap_before>>
    BY <1>5 DEF SetLap, CallbackGoes, source, race
  <2>2. /\ Len(current_lap') = Len(current_lap) + 1 /\ current_lap'[Len(current_lap) + 1] = lap
        /\ \A i \in 1 .. Len(current_lap) : current_lap'[i] = current_lap[i]
    BY <1>0, <2>1, AppendProperties
  <2>3. \A i \in 1 .. Len(current_lap) : current_lap[i] <= lap
    <3>1. current_lap[Len(current_lap)] <= lap
      BY <1>0, <2>1 DEF LapsArePublished, TickOrder
    <3>2. \A i \in 1 .. Len(current_lap) :
             i <= Len(current_lap) /\ Len(current_lap) \in 1 .. Len(current_lap)
      BY <1>0
    <3>3. \A i \in 1 .. Len(current_lap) : current_lap[i] <= current_lap[Len(current_lap)]
      BY <1>0, <3>2 DEF LapsArePublished
    <3> QED
      BY <1>0, <3>1, <3>2, <3>3
  <2>4. ASSUME NEW i \in 1 .. Len(current_lap'), NEW j \in 1 .. Len(current_lap'), i <= j
        PROVE  current_lap'[i] <= current_lap'[j]
    <3>1. CASE j = Len(current_lap) + 1
      BY <1>0, <2>2, <2>3, <2>4, <3>1
    <3>2. CASE j # Len(current_lap) + 1
      <4>1. i \in 1 .. Len(current_lap) /\ j \in 1 .. Len(current_lap)
        BY <1>0, <2>2, <2>4, <3>2
      <4> QED
        BY <1>0, <2>2, <2>4, <4>1 DEF LapsArePublished
    <3> QED
      BY <3>1, <3>2
  <2>5. standings_.knows \in 1 .. Len(current_lap') /\ current_lap'[standings_.knows] >= standings_.lap - 1
    BY <1>0, <2>2 DEF LapsArePublished
  <2>6. Last(current_lap') = IF pc' \in {"drive", "on_tick"} /\ callback' \in {"update", "set_lap"}
                               THEN lap_before' ELSE lap'
    BY <1>0, <2>1, <2>2 DEF Last
  <2>7. Len(current_lap') > 0
    BY <1>0, <2>2
  <2>8. standings_' = standings_
    BY <2>1
  <2> QED
    BY <2>4, <2>5, <2>6, <2>7, <2>8, Zenon DEF LapsArePublished
<1>6. CASE CheckLimits \/ UpdateWeather
  BY <1>6, <1>u DEF CheckLimits, UpdateWeather, CallbackGoes, board, source, race
<1>7. CASE \E n \in 0 .. Len(events) : ProcessEvents(n)
  <2>1. /\ callback = "process" /\ pc' = "loop" /\ UNCHANGED <<lap, current_lap, standings_>>
    BY <1>7 DEF ProcessEvents, CallbackGoes, board, Source!CallbackReturns, Source!race
  <2> QED
    BY <1>u, <2>1
<1>8. CASE Main \/ \E w \in Workers : Worker(w)
  BY <1>8, <1>u, MainStep, WorkerStep
<1>9. CASE UNCHANGED vars
  BY <1>9, <1>u DEF vars, source, race, board
<1> QED
  BY <1>1, <1>2, <1>3, <1>4, <1>5, <1>6, <1>7, <1>8, <1>9 DEF Next, Generator, on_tick

\* The standings are the states of all drivers after the last tick published.
LEMMA StandingsStep == ASSUME WiringInv, [Next]_vars PROVE StandingsArePublished'
<1>0. StandingsArePublished /\ TickOrder /\ states_ \in [Driver -> Row]
  BY TickFacts DEF WiringInv
<1>1. CASE BeginTick
  <2>1. pc' = "drive" /\ UNCHANGED standings_
    BY <1>1, CarsStep DEF BeginTick, Source!BeginTick
  <2> QED
    BY <1>0, <2>1 DEF StandingsArePublished
<1>2. CASE Exit
  <2>1. /\ pc = "loop" /\ pc' = "exited" /\ UNCHANGED <<tick, states_, standings_>>
    BY <1>2, CarsStep DEF Exit, Source!Exit, Source!race, Source!cars
  <2> QED
    BY <1>0, <2>1 DEF StandingsArePublished
<1>3. CASE \E stop \in Source!Stop, new_lap, finish \in BOOLEAN : Drive(stop, new_lap, finish)
  <2>1. pc = "drive" /\ pc' \in {"drive", "on_tick"} /\ UNCHANGED <<callback, standings_>>
    BY <1>3, CarsStep DEF Drive, Source!Drive
  <2> QED
    BY <1>0, <2>1 DEF StandingsArePublished, TickOrder
<1>4. CASE UpdateLeaderboard
  <2>1. pc = "on_tick" /\ standings_'.rows = states_ /\ UNCHANGED <<states_, tick>>
    BY <1>4 DEF UpdateLeaderboard, CallbackGoes, source, race, cars
  <2>2. states_ \in Rows
    BY <1>0 DEF Rows
  <2>3. \A i \in 1 .. Len(states_) : i \in Driver
    BY <1>0, <2>2, RowsAreSeq DEF Driver
  <2>4. \A i \in 1 .. Len(states_) : states_[i].tick = tick
    BY <1>0, <2>1, <2>3 DEF TickOrder
  <2> QED
    BY <2>1, <2>4 DEF StandingsArePublished
<1>5. CASE SetLap \/ CheckLimits \/ UpdateWeather
  BY <1>0, <1>5 DEF SetLap, CheckLimits, UpdateWeather, CallbackGoes, board, source, race, cars,
                    StandingsArePublished
<1>6. CASE \E n \in 0 .. Len(events) : ProcessEvents(n)
  <2>1. /\ callback = "process" /\ pc = "on_tick" /\ UNCHANGED <<tick, states_, standings_>>
    BY <1>6 DEF ProcessEvents, CallbackGoes, board, Source!CallbackReturns, Source!race, Source!cars
  <2> QED
    BY <1>0, <2>1 DEF StandingsArePublished
<1>7. CASE Main \/ \E w \in Workers : Worker(w)
  BY <1>0, <1>7, MainStep, WorkerStep DEF StandingsArePublished
<1>8. CASE UNCHANGED vars
  BY <1>0, <1>8 DEF vars, source, race, cars, board, StandingsArePublished
<1> QED
  BY <1>1, <1>2, <1>3, <1>4, <1>5, <1>6, <1>7, <1>8 DEF Next, Generator, on_tick

\* Every piece main() reads is not older than what it has read before, and the rows
\* are those of one update().
LEMMA RoundStep == ASSUME WiringInv, [Next]_vars PROVE RoundIsConsistent'
<1> USE DEF MainGoes, board
<1>0. /\ RoundIsConsistent /\ StandingsArePublished /\ LapsArePublished
      /\ line \in [rows : Seq(Row), of : Nat, knows : Nat, lap : Nat, weather : Nat, grip : Nat]
      /\ standings_.rows \in Seq(Row) /\ standings_.lap \in Nat /\ standings_.knows \in Nat
      /\ Len(line.rows) \in Nat /\ Len(standings_.rows) \in Nat
      /\ current_lap \in Seq(Nat) /\ Len(current_lap) \in Nat
      /\ changes \in Seq(Nat) /\ Len(changes) \in Nat
  <2>1. standings_.rows \in Rows /\ line.rows \in Seq(Row) /\ changes \in Seq(Nat) /\ current_lap \in Seq(Nat)
    BY SharedFacts, ScreenFacts
  <2>2. standings_.rows \in Seq(Row) /\ Len(standings_.rows) \in Nat
    BY <2>1, RowsAreSeq
  <2>3. Len(line.rows) \in Nat /\ Len(changes) \in Nat /\ Len(current_lap) \in Nat
    BY <2>1
  <2>4. /\ line \in [rows : Seq(Row), of : Nat, knows : Nat, lap : Nat, weather : Nat, grip : Nat]
        /\ standings_.lap \in Nat /\ standings_.knows \in Nat
    BY SharedFacts, ScreenFacts
  <2>5. RoundIsConsistent /\ StandingsArePublished /\ LapsArePublished
    BY DEF WiringInv
  <2> QED
    BY <2>1, <2>2, <2>3, <2>4, <2>5
<1>a. \A i \in 1 .. Len(current_lap) : current_lap[i] \in Nat
  <2>1. current_lap \in Seq(Nat)
    BY <1>0
  <2> QED
    BY <2>1
<1>u. ASSUME UNCHANGED <<main, line, standings_, current_lap>>, Len(changes') \in Nat,
             Len(changes) <= Len(changes')
      PROVE  RoundIsConsistent'
  BY <1>0, <1>u DEF RoundIsConsistent
<1>1. CASE \/ BeginTick \/ Exit
           \/ \E stop \in Source!Stop, new_lap, finish \in BOOLEAN : Drive(stop, new_lap, finish)
  BY <1>0, <1>1, <1>u, CarsStep
<1>2. CASE UpdateLeaderboard
  <2>1. main # "rows" /\ UNCHANGED <<main, line, current_lap, changes>>
    BY <1>2 DEF UpdateLeaderboard, NoReader, screen, weather
  <2> QED
    BY <1>0, <2>1 DEF RoundIsConsistent
<1>3. CASE SetLap
  <2>1. current_lap' = Append(current_lap, lap) /\ lap \in Nat /\ UNCHANGED <<main, line, standings_, changes>>
    <3>1. lap \in Nat
      BY TickFacts
    <3> QED
      BY <1>3, <3>1 DEF SetLap, screen, weather
  <2>2. /\ Len(current_lap') = Len(current_lap) + 1
        /\ \A i \in 1 .. Len(current_lap) : current_lap'[i] = current_lap[i] /\ i \in 1 .. Len(current_lap')
    BY <1>0, <2>1, AppendProperties
  <2> QED
    BY <1>0, <2>1, <2>2 DEF RoundIsConsistent
<1>4. CASE CheckLimits \/ UpdateWeather \/ \E n \in 0 .. Len(events) : ProcessEvents(n)
  <2>1. UNCHANGED <<main, line, standings_, current_lap, changes>>
    BY <1>4 DEF CheckLimits, UpdateWeather, ProcessEvents, screen, weather
  <2>2. Len(changes) \in Nat
    BY <1>0
  <2> QED
    BY <1>u, <2>1, <2>2
<1>5. ASSUME NEW w \in Workers, Worker(w) PROVE RoundIsConsistent'
  <2>1. Len(changes') \in Nat /\ Len(changes) <= Len(changes')
    <3>1. CASE WeatherChanges(w)
      <4>1. running[w].lap \in Nat
        <5>1. running[w] \in Task
          BY <3>1, PoolFacts DEF WeatherChanges, Runs
        <5> QED
          BY <5>1 DEF Task
      <4>2. changes' = Append(changes, running[w].lap) /\ changes \in Seq(Nat)
        BY <1>0, <3>1 DEF WeatherChanges
      <4>3. Len(changes') = Len(changes) + 1 /\ Len(changes) \in Nat
        BY <4>1, <4>2, AppendProperties
      <4> QED
        BY <4>3
    <3>2. CASE UNCHANGED changes
      BY <1>0, <3>2
    <3> QED
      BY <1>5, <3>1, <3>2 DEF Worker, Take, Link, TaskEnds, CheckDriver, WeatherTooEarly,
         WeatherRolls, WeatherPushes, weather
  <2> QED
    BY <1>5, <1>u, <2>1, WorkerStep
<1>6. CASE Main
  <2>0. UNCHANGED <<standings_, current_lap, changes>>
    BY <1>6, MainStep
  <2>1. CASE BeginRound
    BY <1>0, <2>0, <2>1 DEF BeginRound, Reads, RoundIsConsistent
  <2>2. CASE ReadRow
    <3> DEFINE n == Len(line.rows)
    <3>1. /\ main = "rows" /\ main' = "rows" /\ n < Len(standings_.rows)
          /\ line'.rows = Append(line.rows, standings_.rows[n + 1])
          /\ UNCHANGED standings_
      BY <1>0, <2>2 DEF ReadRow
    <3>n. n \in Nat /\ Len(standings_.rows) \in Nat
      BY <1>0
    <3>2. n + 1 \in 1 .. Len(standings_.rows)
      BY <3>n, <3>1
    <3> HIDE DEF n
    <3>3. standings_.rows[n + 1] \in Row
      BY <1>0, <3>2, ElementOfSeq
    <3>4. /\ Len(line'.rows) = n + 1 /\ line'.rows[n + 1] = standings_.rows[n + 1]
          /\ \A i \in 1 .. n : line'.rows[i] = line.rows[i]
      BY <1>0, <3>1, <3>3, AppendProperties DEF n
    <3>5. \A i \in 1 .. n + 1 : line'.rows[i] = standings_.rows[i] /\ i \in 1 .. Len(standings_.rows)
      <4>1. \A i \in 1 .. n : line.rows[i] = standings_.rows[i] /\ n \in Nat
        BY <1>0, <3>1 DEF RoundIsConsistent, n
      <4> SUFFICES ASSUME NEW i \in 1 .. n + 1
                   PROVE  line'.rows[i] = standings_.rows[i] /\ i \in 1 .. Len(standings_.rows)
        OBVIOUS
      <4>2. CASE i = n + 1
        BY <3>2, <3>4, <4>2
      <4>3. CASE i # n + 1
        <5>1. i \in 1 .. n /\ i \in 1 .. Len(standings_.rows)
          BY <3>n, <3>2, <4>3
        <5> QED
          BY <3>4, <4>1, <5>1
      <4> QED
        BY <4>2, <4>3
    <3>6. \A i, j \in 1 .. n + 1 : line'.rows[i].tick = line'.rows[j].tick
      <4>1. \A i, j \in 1 .. Len(standings_.rows) : standings_.rows[i].tick = standings_.rows[j].tick
        BY <1>0 DEF StandingsArePublished
      <4> QED
        BY <3>5, <4>1
    <3>7. Len(line'.rows) <= Len(standings_.rows)
      BY <3>2, <3>4, <3>n
    <3> QED
      BY <3>1, <3>4, <3>5, <3>6, <3>7 DEF RoundIsConsistent
  <2>3. CASE RowsRead
    <3>1. /\ main = "rows" /\ main' = IF line.rows = <<>> THEN "render" ELSE "lap"
          /\ line'.rows = line.rows /\ line'.of = standings_.lap /\ line'.knows = standings_.knows
      BY <1>0, <2>3 DEF RowsRead, Reads
    <3>2. \A i, j \in 1 .. Len(line.rows) : line.rows[i].tick = line.rows[j].tick
      BY <1>0 DEF RoundIsConsistent
    <3>3. standings_.knows \in 1 .. Len(current_lap) /\ current_lap[standings_.knows] >= standings_.lap - 1
      BY <1>0 DEF LapsArePublished
    <3>4. CASE line.rows = <<>>
      <4>1. main' = "render"
        BY <3>1, <3>4
      <4> QED
        BY <3>1, <3>2, <3>4, <4>1 DEF RoundIsConsistent
    <3>5. CASE line.rows # <<>>
      <4>1. main' = "lap" /\ current_lap' = current_lap
        BY <2>0, <3>1, <3>5
      <4>2. line'.knows \in 1 .. Len(current_lap') /\ current_lap'[line'.knows] >= line'.of - 1
        BY <3>1, <3>3, <4>1, Zenon
      <4> QED
        BY <3>1, <3>2, <4>1, <4>2 DEF RoundIsConsistent
    <3> QED
      BY <3>4, <3>5
  <2>4. ASSUME NEW i \in 1 .. Len(current_lap), ReadLap(i) PROVE RoundIsConsistent'
    <3>1. /\ main = "lap" /\ main' = "weather" /\ i >= line.knows
          /\ line' = [line EXCEPT !.lap = current_lap[i]]
      BY <2>4 DEF ReadLap, Reads
    <3>2. /\ line.knows \in 1 .. Len(current_lap) /\ current_lap[line.knows] >= line.of - 1
          /\ line.of \in Nat
      BY <1>0, <3>1 DEF RoundIsConsistent
    <3>3. current_lap[line.knows] <= current_lap[i]
      BY <1>0, <3>1, <3>2 DEF LapsArePublished
    <3>4. current_lap[i] >= line.of - 1
      BY <1>a, <3>2, <3>3
    <3> QED
      BY <1>0, <2>0, <3>1, <3>2, <3>4 DEF RoundIsConsistent
  <2>5. CASE ReadWeather
    <3>1. CASE main = "weather"
      BY <1>0, <2>0, <2>5, <3>1 DEF ReadWeather, Reads, RoundIsConsistent
    <3>2. CASE main = "grip"
      BY <1>0, <2>0, <2>5, <3>2 DEF ReadWeather, Reads, RoundIsConsistent
    <3> QED
      BY <2>5, <3>1, <3>2 DEF ReadWeather
  <2>6. CASE PrintRound
    BY <2>6 DEF PrintRound, NoLine, RoundIsConsistent
  <2>7. CASE LeaveLoop \/ Join \/ DestroyPool \/ PoolDestroyed
    <3>1. line' = line /\ main \in {"render", "join", "summary", "draining"}
          /\ main' \in {"join", "summary", "draining", "returned"}
      BY <2>7 DEF LeaveLoop, Join, DestroyPool, PoolDestroyed
    <3>2. /\ main' \notin {"render", "rows"}
          /\ main' \notin {"lap", "weather", "grip", "print"}
      BY <3>1
    <3>3. \A i, j \in 1 .. Len(line.rows) : line.rows[i].tick = line.rows[j].tick
      BY <1>0 DEF RoundIsConsistent
    <3> QED
      BY <3>1, <3>2, <3>3 DEF RoundIsConsistent
  <2> QED
    BY <1>6, <2>1, <2>2, <2>3, <2>4, <2>5, <2>6, <2>7 DEF Main
<1>7. CASE UNCHANGED vars
  BY <1>0, <1>7, <1>u DEF vars, screen, weather
<1> QED
  BY <1>1, <1>2, <1>3, <1>4, <1>5, <1>6, <1>7 DEF Next, Generator, on_tick

-----------------------------------------------------------------------------
\* The end.

\* The generator has returned when the pool is destroyed, and the pool is empty when
\* main() returns.
LEMMA EndsStep == ASSUME WiringInv, [Next]_vars PROVE EndsInOrder'
<1> USE DEF EndsInOrder
<1>0. EndsInOrder /\ running \in [Workers -> Task \union {Nobody}]
  BY PoolFacts DEF WiringInv
<1>1. CASE Generator
  <2>2. pc \in {"loop", "drive", "on_tick"}
    <3>1. CASE BeginTick \/ Exit
      BY <3>1 DEF BeginTick, Exit, Source!BeginTick, Source!Exit
    <3>2. CASE \E stop \in Source!Stop, new_lap, finish \in BOOLEAN : Drive(stop, new_lap, finish)
      BY <3>2 DEF Drive, Source!Drive
    <3> QED
      BY <1>1, <3>1, <3>2, CallbackStep DEF Generator
  <2>3. UNCHANGED <<main, pool>>
    BY <1>1, CarsStep, CallbackStep DEF Generator
  <2> QED
    BY <1>0, <2>2, <2>3
<1>2. ASSUME NEW w \in Workers, Worker(w) PROVE EndsInOrder'
  <2>1. UNCHANGED <<main, pool, pc>>
    BY <1>2, WorkerStep
  <2>2. pool = "destroyed" => UNCHANGED <<waiting, running>>
    BY <1>0, <1>2 DEF Worker, Take, Link, TaskEnds, CheckDriver, WeatherTooEarly, WeatherRolls,
       WeatherChanges, WeatherPushes, WorkerGoesOn, Done, Pool!Start, Pool!Finish, jobs, executor, Runs
  <2> QED
    BY <1>0, <2>1, <2>2
<1>3. CASE Main
  <2>0. UNCHANGED <<waiting, running, pc>>
    BY <1>3, MainStep
  <2>1. CASE BeginRound \/ ReadRow \/ RowsRead \/ ReadWeather \/ PrintRound
    BY <1>0, <2>0, <2>1 DEF BeginRound, ReadRow, RowsRead, ReadWeather, PrintRound, MainGoes,
                            Reads, jobs, executor
  <2>2. CASE \E i \in 1 .. Len(current_lap) : ReadLap(i)
    BY <1>0, <2>0, <2>2 DEF ReadLap, MainGoes, Reads, jobs, executor
  <2>3. CASE LeaveLoop \/ Join
    BY <1>0, <2>0, <2>3 DEF LeaveLoop, Join, Joined, MainGoes, jobs, executor
  <2>4. CASE DestroyPool \/ PoolDestroyed
    BY <1>0, <2>0, <2>4 DEF DestroyPool, PoolDestroyed, MainGoes, Pool!Close, Pool!Destroy
  <2> QED
    BY <1>3, <2>1, <2>2, <2>3, <2>4 DEF Main
<1>4. CASE UNCHANGED vars
  BY <1>0, <1>4 DEF vars, source, jobs, executor, screen
<1> QED
  BY <1>1, <1>2, <1>3, <1>4 DEF Next

-----------------------------------------------------------------------------
\* The events.

AllApart == \A i, j \in 1 .. Len(events) : Same(events[i], events[j]) => i = j

\* A push adds one event, which is apart from the others if none of them is the same.
LEMMA PushedEvent ==
    ASSUME NEW w \in Workers, NEW type, NEW d, Push(w, type, d), events \in Seq(Event),
           [type |-> type, driver |-> d, open |-> w] \in Event
    PROVE  /\ \A t, e : IsIn(t, e)' => (IsIn(t, e) \/ (t = type /\ e = d))
           /\ AllApart /\ ~IsIn(type, d) => AllApart'
<1> DEFINE n == Len(events)
           e0 == [type |-> type, driver |-> d, open |-> w]
<1>1. /\ n \in Nat /\ Len(events') = n + 1 /\ events'[n + 1] = e0
      /\ \A i \in 1 .. n : events'[i] = events[i]
  BY AppendProperties DEF Push
<1>2. e0.type = type /\ e0.driver = d
  OBVIOUS
<1> HIDE DEF n, e0
<1>3. \A i \in 1 .. n + 1 : i \in 1 .. n \/ i = n + 1
  BY <1>1
<1>4. \A t, e : IsIn(t, e)' => (IsIn(t, e) \/ (t = type /\ e = d))
  BY <1>1, <1>2, <1>3 DEF IsIn, n
<1>5. ASSUME AllApart, ~IsIn(type, d), NEW i \in 1 .. n + 1, NEW j \in 1 .. n + 1,
             Same(events'[i], events'[j])
      PROVE  i = j
  <2>1. CASE i \in 1 .. n /\ j \in 1 .. n
    BY <1>1, <1>5, <2>1 DEF AllApart, n
  <2>2. CASE i \in 1 .. n /\ j = n + 1
    BY <1>1, <1>2, <1>5, <2>2 DEF IsIn, Same, n
  <2>3. CASE i = n + 1 /\ j \in 1 .. n
    BY <1>1, <1>2, <1>5, <2>3 DEF IsIn, Same, n
  <2> QED
    BY <1>3, <2>1, <2>2, <2>3
<1> QED
  BY <1>1, <1>4, <1>5 DEF AllApart

\* The link of a push changes neither the type nor the driver of an event.
LEMMA LinkedEvent ==
    ASSUME NEW w \in Workers, Link(w), events \in Seq(Event)
    PROVE  (\A t, e : IsIn(t, e)' <=> IsIn(t, e)) /\ (AllApart => AllApart')
<1>1. PICK k \in 1 .. Len(events) : events' = [events EXCEPT ![k].open = Nobody]
  BY DEF Link
<1>2. Len(events') = Len(events) /\ Len(events) \in Nat
  BY <1>1
<1>3. \A i \in 1 .. Len(events) : events[i] \in Event
  OBVIOUS
<1>4. \A i \in 1 .. Len(events) : /\ events'[i].type = events[i].type
                                  /\ events'[i].driver = events[i].driver
  BY <1>1, <1>3 DEF Event
<1> QED
  BY <1>2, <1>4 DEF IsIn, AllApart, Same

\* A drain that leaves nothing, before the jobs are submitted: what is in the queue
\* then are the announcements of its penalties, one for each driver.
LEMMA DrainedEvents ==
    ASSUME WiringInv, NEW n \in 0 .. Len(events), ProcessEvents(n), ~cut'
    PROVE  /\ AllApart'
           /\ \A d : ~IsIn("TRACK_LIMITS", d)' /\ ~IsIn("WEATHER_CHANGE", d)'
<1>0. events \in Seq(Event) /\ Len(events) \in Nat
  <2>1. events \in Seq(Event)
    BY SharedFacts
  <2> QED
    BY <2>1
<1> DEFINE fined == {d \in Driver : penalty[d] = "NONE" /\ warnings_'[d] >= Warnings}
           A == {Announcement(d) : d \in fined}
<1>1. n = Len(events)
  <2>1. ~(n < Len(events))
    BY Zenon DEF ProcessEvents
  <2> QED
    BY <1>0, <2>1
<1>2. events' = SubSeq(events, n + 1, Len(events)) \o SetToSeq(A)
  BY DEF ProcessEvents
<1>3. fined \in SUBSET Driver
  OBVIOUS
<1> HIDE DEF fined
<1>4. /\ SubSeq(events, n + 1, Len(events)) = <<>>
      /\ SetToSeq(A) \in Seq(Event)
      /\ \A i, j \in 1 .. Len(SetToSeq(A)) : SetToSeq(A)[i] = SetToSeq(A)[j] => i = j
  BY <1>0, <1>1, <1>3, DrainLeavesEvents
<1>5. events' = SetToSeq(A)
  <2> HIDE DEF A
  <2> QED
    BY <1>2, <1>4, ConcatEmptySeq
<1>6. SetToSeq(A) \in Seq(A)
  <2>1. IsFiniteSet(fined)
    <3>1. IsFiniteSet(Driver)
      BY FS_Interval DEF Driver
    <3> QED
      BY <1>3, <3>1, FS_Subset
  <2> DEFINE g == [d \in fined |-> Announcement(d)]
  <2>2. g \in Surjection(fined, A)
    BY DEF Surjection
  <2>3. IsFiniteSet(A)
    BY <2>1, <2>2, FS_Surjection
  <2> HIDE DEF A
  <2> QED
    BY <2>3, SetToSeqLists
<1>7. \A a \in A : a = Announcement(a.driver) /\ a.type = "PENALTY_ISSUED"
  BY DEF Announcement
<1> HIDE DEF A
<1>8. \A i \in 1 .. Len(events') : events'[i] \in A
  BY <1>5, <1>6
<1>9. ASSUME NEW i \in 1 .. Len(events'), NEW j \in 1 .. Len(events'),
             events'[i].driver = events'[j].driver
      PROVE  i = j
  <2>1. events'[i] = events'[j]
    BY <1>7, <1>8, <1>9
  <2> QED
    BY <1>4, <1>5, <2>1
<1> QED
  BY <1>7, <1>8, <1>9 DEF AllApart, IsIn, Same

\* Each job's one task pushes each of its events once, and after a drain that left
\* nothing no task of the job is submitted before the next.
LEMMA EventsStep == ASSUME WiringInv, [Next]_vars PROVE EventsOfOneCheck'
<1> USE DEF queue, jobs, executor
<1>0. /\ EventsOfOneCheck /\ TickOrder /\ waiting \in Seq(Task) /\ Len(waiting) \in Nat
      /\ running \in [Workers -> Task \union {Nobody}] /\ Nobody \notin Task
      /\ at \in [Workers -> Nat \ {0}] /\ events \in Seq(Event)
      /\ Drivers \in Nat
  <2>1. EventsOfOneCheck /\ TickOrder
    BY DEF WiringInv
  <2> QED
    BY <2>1, PoolFacts, SharedFacts
<1>s. \A v, w \in Workers, j \in Job :
         /\ Runs(v, j) /\ Runs(w, j) => v = w
         /\ Runs(w, j) => \A i \in 1 .. Len(waiting) : waiting[i].job # j
  BY OneTaskPerJob DEF WiringInv, SingleFlight
<1>f. QueueIsFresh <=>
         /\ AllApart
         /\ \A i \in 1 .. Len(waiting) :
              /\ waiting[i].job = "limits" => \A d \in Driver : ~IsIn("TRACK_LIMITS", d)
              /\ waiting[i].job = "weather" => ~IsIn("WEATHER_CHANGE", Nobody)
         /\ \A w \in Workers :
              /\ Runs(w, "limits") => \A d \in Driver : IsIn("TRACK_LIMITS", d) => d < at[w]
              /\ Runs(w, "weather") /\ at[w] <= 3 => ~IsIn("WEATHER_CHANGE", Nobody)
  BY DEF QueueIsFresh, AllApart
<1>g. QueueIsFresh' <=>
         /\ AllApart'
         /\ \A i \in 1 .. Len(waiting') :
              /\ waiting'[i].job = "limits" => \A d \in Driver : ~IsIn("TRACK_LIMITS", d)'
              /\ waiting'[i].job = "weather" => ~IsIn("WEATHER_CHANGE", Nobody)'
         /\ \A w \in Workers :
              /\ Runs(w, "limits")' => \A d \in Driver : IsIn("TRACK_LIMITS", d)' => d < at'[w]
              /\ Runs(w, "weather")' /\ at'[w] <= 3 => ~IsIn("WEATHER_CHANGE", Nobody)'
  BY DEF QueueIsFresh, AllApart
<1>u. ASSUME UNCHANGED <<events, cut, waiting, running, at>>,
             callback' \in {"update", "set_lap", "limits"} =>
               callback \in {"update", "set_lap", "limits"}
      PROVE  EventsOfOneCheck'
  BY <1>0, <1>u DEF EventsOfOneCheck, QueueIsFresh, IsIn, Runs
<1>1. CASE \/ BeginTick \/ Exit
           \/ \E stop \in Source!Stop, new_lap, finish \in BOOLEAN : Drive(stop, new_lap, finish)
  BY <1>1, <1>u, CarsStep
<1>2. CASE UpdateLeaderboard \/ SetLap
  <2>1. on_tick
    BY <1>2 DEF on_tick
  <2>2. callback \in {"update", "set_lap"} /\ UNCHANGED <<events, cut, waiting, running, at>>
    BY <1>2 DEF UpdateLeaderboard, SetLap, CallbackGoes
  <2> QED
    BY <1>u, <2>2
<1>3. CASE CheckLimits \/ UpdateWeather
  <2>1. callback' \in {"weather", "process"}
    BY <1>3 DEF CheckLimits, UpdateWeather, CallbackGoes
  <2> QED
    BY <2>1 DEF EventsOfOneCheck
<1>4. ASSUME NEW n \in 0 .. Len(events), ProcessEvents(n) PROVE EventsOfOneCheck'
  <2>1. CASE cut'
    BY <2>1 DEF EventsOfOneCheck
  <2>2. CASE ~cut'
    BY <1>4, <1>g, <2>2, DrainedEvents DEF EventsOfOneCheck
  <2> QED
    BY <2>1, <2>2
<1>5. ASSUME NEW w \in Workers, Worker(w) PROVE EventsOfOneCheck'
  <2>0. UNCHANGED <<callback, cut>>
    BY <1>5, WorkerStep
  <2> SUFFICES ASSUME QueueIsFresh PROVE QueueIsFresh'
    BY <1>0, <2>0 DEF EventsOfOneCheck
  <2>1. CASE Take(w)
    <3>1. /\ running[w] = Nobody /\ Len(waiting) > 0 /\ UNCHANGED events
          /\ running' = [running EXCEPT ![w] = waiting[1]] /\ at' = [at EXCEPT ![w] = 1]
          /\ waiting' = Tail(waiting)
      BY <1>0, <2>1 DEF Take, Pool!Start
    <3>2. /\ Len(waiting') = Len(waiting) - 1
          /\ \A i \in 1 .. Len(waiting') : waiting'[i] = waiting[i + 1] /\ i + 1 \in 1 .. Len(waiting)
      BY <1>0, <3>1
    <3>3. AllApart' /\ \A t, e : IsIn(t, e)' <=> IsIn(t, e)
      BY <1>f, <3>1 DEF AllApart, IsIn
    <3>4. 1 \in 1 .. Len(waiting) /\ running'[w] = waiting[1] /\ at'[w] = 1
      BY <1>0, <3>1
    <3>5. /\ Runs(w, "limits")' => \A d \in Driver : ~IsIn("TRACK_LIMITS", d)
          /\ Runs(w, "weather")' => ~IsIn("WEATHER_CHANGE", Nobody)
      BY <1>f, <3>4 DEF Runs
    <3>6. \A v \in Workers \ {w} : running'[v] = running[v] /\ at'[v] = at[v]
      BY <1>0, <3>1
    <3>7. ASSUME NEW i \in 1 .. Len(waiting')
          PROVE  /\ waiting'[i].job = "limits" => \A d \in Driver : ~IsIn("TRACK_LIMITS", d)'
                 /\ waiting'[i].job = "weather" => ~IsIn("WEATHER_CHANGE", Nobody)'
      <4>1. waiting'[i] = waiting[i + 1] /\ i + 1 \in 1 .. Len(waiting)
        BY <3>2
      <4> QED
        BY <1>f, <3>3, <4>1
    <3>8. ASSUME NEW v \in Workers
          PROVE  /\ Runs(v, "limits")' => \A d \in Driver : IsIn("TRACK_LIMITS", d)' => d < at'[v]
                 /\ Runs(v, "weather")' /\ at'[v] <= 3 => ~IsIn("WEATHER_CHANGE", Nobody)'
      <4>1. CASE v = w
        BY <3>3, <3>5, <4>1
      <4>2. CASE v # w
        <5>1. /\ Runs(v, "limits")' <=> Runs(v, "limits")
              /\ Runs(v, "weather")' <=> Runs(v, "weather")
              /\ at'[v] = at[v]
          BY <3>6, <4>2 DEF Runs
        <5> QED
          BY <1>f, <3>3, <5>1
      <4> QED
        BY <4>1, <4>2
    <3> QED
      BY <1>g, <3>3, <3>7, <3>8
  <2>2. CASE Link(w)
    BY <1>0, <1>f, <1>g, <2>2, LinkedEvent DEF Link, Runs
  <2>3. CASE TaskEnds(w) \/ WeatherTooEarly(w) \/ WeatherRolls(w, FALSE)
    <3>1. running' = [running EXCEPT ![w] = Nobody] /\ UNCHANGED <<events, waiting, at>>
      BY <2>3 DEF TaskEnds, WeatherTooEarly, WeatherRolls, Done, Pool!Finish
    <3>2. ~Runs(w, "weather")' /\ ~Runs(w, "limits")' /\ \A v \in Workers \ {w} : running'[v] = running[v]
      BY <1>0, <3>1 DEF Runs
    <3>3. AllApart' /\ \A t, e : IsIn(t, e)' <=> IsIn(t, e)
      BY <1>f, <3>1 DEF AllApart, IsIn
    <3> QED
      BY <1>f, <1>g, <3>1, <3>2, <3>3 DEF Runs
  <2>4. ASSUME NEW exceeds \in BOOLEAN, CheckDriver(w, exceeds) PROVE QueueIsFresh'
    <3>1. /\ Runs(w, "limits") /\ at[w] \in Nat \ {0} /\ at[w] <= Drivers
          /\ at' = [at EXCEPT ![w] = at[w] + 1] /\ UNCHANGED <<running, waiting>>
          /\ IF exceeds THEN Push(w, "TRACK_LIMITS", at[w]) ELSE UNCHANGED events
      BY <1>0, <2>4 DEF CheckDriver, WorkerGoesOn
    <3>2. at[w] \in Driver /\ ~(at[w] < at[w]) /\ at'[w] = at[w] + 1
      BY <1>0, <3>1 DEF Driver
    <3>3. ~IsIn("TRACK_LIMITS", at[w])
      BY <1>f, <3>1, <3>2
    <3>4. /\ AllApart'
          /\ \A t, e : IsIn(t, e)' => (IsIn(t, e) \/ (t = "TRACK_LIMITS" /\ e = at[w]))
      <4>1. CASE exceeds
        <5>1. [type |-> "TRACK_LIMITS", driver |-> at[w], open |-> w] \in Event
          BY <3>2 DEF Event
        <5>2. Push(w, "TRACK_LIMITS", at[w])
          BY <3>1, <4>1
        <5> QED
          BY <1>0, <1>f, <3>3, <5>1, <5>2, PushedEvent
      <4>2. CASE ~exceeds
        BY <1>f, <3>1, <4>2 DEF AllApart, IsIn
      <4> QED
        BY <4>1, <4>2
    <3>5. \A i \in 1 .. Len(waiting) : waiting[i].job # "limits"
      BY <1>s, <3>1 DEF Job
    <3>6. \A v \in Workers : Runs(v, "limits")' => v = w
      BY <1>s, <3>1 DEF Job, Runs
    <3>7. \A d \in Driver : IsIn("TRACK_LIMITS", d)' => d < at'[w]
      <4>1. \A d \in Driver : (d < at[w] \/ d = at[w]) => d < at[w] + 1
        BY <3>1 DEF Driver
      <4> QED
        BY <1>f, <3>1, <3>2, <3>4, <4>1
    <3>8. ~IsIn("WEATHER_CHANGE", Nobody) => ~IsIn("WEATHER_CHANGE", Nobody)'
      BY <3>4
    <3>9. \A v \in Workers : Runs(v, "weather")' /\ at'[v] <= 3 => ~IsIn("WEATHER_CHANGE", Nobody)
      <4>1. ~Runs(w, "weather")'
        BY <3>1 DEF Runs
      <4> QED
        BY <1>0, <1>f, <3>1, <4>1 DEF Runs
    <3> QED
      BY <1>f, <1>g, <3>1, <3>4, <3>5, <3>6, <3>7, <3>8, <3>9
  <2>5. CASE WeatherRolls(w, TRUE) \/ WeatherChanges(w)
    <3>1. /\ Runs(w, "weather") /\ at[w] \in Nat /\ at[w] <= 3
          /\ UNCHANGED <<events, waiting, running>>
          /\ at' = [at EXCEPT ![w] = at[w] + 1]
      <4>1. CASE WeatherRolls(w, TRUE)
        BY <1>0, <4>1 DEF WeatherRolls, WorkerGoesOn
      <4>2. CASE WeatherChanges(w)
        BY <1>0, <4>2 DEF WeatherChanges, WorkerGoesOn
      <4> QED
        BY <2>5, <4>1, <4>2
    <3>2. AllApart' /\ \A t, e : IsIn(t, e)' <=> IsIn(t, e)
      BY <1>f, <3>1 DEF AllApart, IsIn
    <3>3. ~Runs(w, "limits")' /\ ~IsIn("WEATHER_CHANGE", Nobody)
      BY <1>f, <3>1 DEF Runs
    <3>4. \A v \in Workers \ {w} : at'[v] = at[v]
      BY <1>0, <3>1
    <3> QED
      BY <1>f, <1>g, <3>1, <3>2, <3>3, <3>4 DEF Runs
  <2>6. CASE WeatherPushes(w)
    <3>1. /\ Runs(w, "weather") /\ at[w] = 3 /\ Push(w, "WEATHER_CHANGE", Nobody)
          /\ UNCHANGED <<waiting, running>> /\ at' = [at EXCEPT ![w] = 4]
      BY <1>0, <2>6 DEF WeatherPushes, WorkerGoesOn
    <3>2. ~IsIn("WEATHER_CHANGE", Nobody)
      BY <1>f, <3>1
    <3>3. [type |-> "WEATHER_CHANGE", driver |-> Nobody, open |-> w] \in Event
      BY DEF Event
    <3>4. /\ AllApart'
          /\ \A t, e : IsIn(t, e)' => (IsIn(t, e) \/ (t = "WEATHER_CHANGE" /\ e = Nobody))
      BY <1>0, <1>f, <3>1, <3>2, <3>3, PushedEvent
    <3>5. \A i \in 1 .. Len(waiting) : waiting[i].job # "weather"
      BY <1>s, <3>1 DEF Job
    <3>6. \A v \in Workers : Runs(v, "weather")' => v = w
      BY <1>s, <3>1 DEF Job, Runs
    <3>7. at'[w] = 4 /\ ~(4 <= 3) /\ \A v \in Workers \ {w} : at'[v] = at[v]
      BY <1>0, <3>1
    <3>8. ~Runs(w, "limits")'
      BY <3>1 DEF Runs
    <3>9. \A d \in Driver : IsIn("TRACK_LIMITS", d)' => IsIn("TRACK_LIMITS", d)
      BY <3>4
    <3>10. \A v \in Workers : Runs(v, "limits")' =>
              \A d \in Driver : IsIn("TRACK_LIMITS", d)' => d < at'[v]
      BY <1>f, <3>1, <3>7, <3>8, <3>9 DEF Runs
    <3> QED
      BY <1>f, <1>g, <3>1, <3>4, <3>5, <3>6, <3>7, <3>9, <3>10
  <2> QED
    BY <1>5, <2>1, <2>2, <2>3, <2>4, <2>5, <2>6 DEF Worker
<1>6. CASE Main
  BY <1>6, <1>u, MainStep
<1>7. CASE UNCHANGED vars
  BY <1>7, <1>u DEF vars
<1> QED
  BY <1>1, <1>2, <1>3, <1>4, <1>5, <1>6, <1>7 DEF Next, Generator, on_tick

-----------------------------------------------------------------------------
\* The theorems.

\* The invariant holds throughout.
LEMMA Invariance == Spec => []WiringInv
<1>1. ASSUME WiringInv, [Next]_vars PROVE WiringInv'
  BY <1>1, TypeStep, SourceTypeStep, FuturesStep, ChecksStep, ChangesStep, LapsStep, StandingsStep,
     RoundStep, EndsStep, EventsStep DEF WiringInv
<1> QED
  BY <1>1, InitInv, PTL DEF Spec

\* Every variable keeps its type; in particular the queue holds events and the pool
\* tasks that on_tick submitted.
THEOREM TypeCorrect == Spec => []TypeOK
<1>1. WiringInv => TypeOK
  BY DEF WiringInv
<1> QED
  BY <1>1, Invariance, PTL

\* Of each job at most one task is queued or running, so neither system's random
\* generator is used by two workers (main.cpp:92-109).
THEOREM JobsDoNotOverlap == Spec => []SingleFlight
<1>1. WiringInv => SingleFlight
  BY OneTaskPerJob DEF WiringInv
<1> QED
  BY <1>1, Invariance, PTL

\* A check looks at the states of the tick that submitted it (main.cpp:95).
THEOREM ChecksSeeOneTick == Spec => []CheckSeesOneTick
<1>1. WiringInv => CheckSeesOneTick
  BY DEF WiringInv, ChecksHaveOneTick
<1> QED
  BY <1>1, Invariance, PTL

\* Weather changes keep their distance in laps, however late the updates run.
THEOREM WeatherKeepsItsGap == Spec => []WeatherChangesApart
<1>1. WiringInv => WeatherChangesApart
  BY DEF WiringInv, ChangesAreRemembered
<1> QED
  BY <1>1, Invariance, PTL

\* What main() prints in a round belongs together although it reads it piece by piece.
THEOREM PrintsConsistentLine == Spec => []LineIsConsistent
<1>1. WiringInv => LineIsConsistent
  BY DEF WiringInv, RoundIsConsistent, LineIsConsistent
<1> QED
  BY <1>1, Invariance, PTL

\* Nothing is submitted to a pool being destroyed, and no task is left when the
\* systems it uses are destroyed (main.cpp:66-72, :176).
THEOREM EndsInOrderOfUse == Spec => []ShutdownInOrder
<1>1. WiringInv => ShutdownInOrder
  BY DEF WiringInv, EndsInOrder, ShutdownInOrder
<1> QED
  BY <1>1, Invariance, PTL

\* The events that no process_events() takes any more are those of one check and one
\* weather update, unless a drain left some behind before.
THEOREM LosesEventsOfOneCheck == Spec => []LateEventsOfOneCheck
<1>1. ASSUME WiringInv PROVE LateEventsOfOneCheck
  <2>1. main = "returned" => callback = "update"
    BY <1>1 DEF WiringInv, EndsInOrder, TickOrder
  <2> QED
    BY <1>1, <2>1 DEF WiringInv, EventsOfOneCheck, QueueIsFresh, Same, LateEventsOfOneCheck
<1> QED
  BY <1>1, Invariance, PTL

\* While the summary is printed nobody writes the standings, the lap or a penalty, and
\* they are those of the last tick begun, although the pool still runs.
THEOREM SummaryStaysFinal == Spec => SummaryIsFinal
<1> DEFINE Final ==
      main = "summary" =>
        /\ UNCHANGED <<board, enforcer>>
        /\ tick > 0 => /\ standings_.rows = states_ /\ Last(current_lap) = lap
                       /\ \A d \in Driver : states_[d].tick = tick
<1>1. ASSUME WiringInv, [Next]_vars PROVE Final
  <2> SUFFICES ASSUME main = "summary" PROVE Final
    OBVIOUS
  <2>1. pc = "exited"
    BY <1>1 DEF WiringInv, EndsInOrder
  <2>2. ~Generator
    <3>1. ~BeginTick /\ ~Exit
      BY <2>1 DEF BeginTick, Exit, Source!BeginTick, Source!Exit
    <3>2. ~\E stop \in Source!Stop, new_lap, finish \in BOOLEAN : Drive(stop, new_lap, finish)
      BY <2>1 DEF Drive, Source!Drive
    <3> QED
      BY <2>1, <3>1, <3>2, CallbackStep DEF Generator
  <2>3. UNCHANGED <<board, enforcer>>
    BY <1>1, <2>2, MainStep, WorkerStep DEF Next, vars, board, enforcer
  <2>4. tick > 0 => standings_.rows = states_
    BY <1>1, <2>1 DEF WiringInv, StandingsArePublished
  <2>5. Last(current_lap) = lap
    BY <1>1, <2>1 DEF WiringInv, LapsArePublished
  <2>6. \A d \in Driver : states_[d].tick = tick
    BY <1>1, <2>1 DEF WiringInv, TickOrder
  <2> QED
    BY <2>3, <2>4, <2>5, <2>6
<1>2. WiringInv /\ [Next]_vars => [Final]_vars
  BY <1>1
<1> QED
  BY <1>2, Invariance, PTL DEF SummaryIsFinal, Spec

(* The pool is used as TaskExecutor, which ThreadPool is proved to implement: it sees the *)
(* tasks that the callback submits, its workers and main()'s destructor call.             *)
THEOREM UsesThePool == Spec => Pool!Spec
<1>1. Init => Pool!Init
  BY DEF Init
<1>2. ASSUME WiringInv, [Next]_vars PROVE [Pool!Next]_(Pool!vars)
  <2>1. ASSUME NEW job \in Job, NEW rows \in Rows, pc = "on_tick", Submit(job, rows)
        PROVE  Pool!Next
    <3>1. PICK task \in Task : task = [job |-> job, tick |-> tick, lap |-> lap, rows |-> rows]
      BY <1>2, <2>1, TaskType
    <3>2. Pool!Submit(task)
      BY <2>1, <3>1 DEF Submit, Pool!Submit, Pool!Fresh
    <3> QED
      BY <3>2 DEF Pool!Next
  <2>2. CASE CheckLimits
    <3>1. states_ \in Rows /\ pc = "on_tick" /\ "limits" \in Job
      BY <1>2, <2>2, TickFacts DEF CheckLimits, CallbackGoes, Job
    <3> QED
      BY <2>1, <2>2, <3>1 DEF CheckLimits, jobs, executor, Pool!vars
  <2>3. CASE UpdateWeather
    <3>1. <<>> \in Rows /\ pc = "on_tick" /\ "weather" \in Job
      BY <2>3 DEF UpdateWeather, CallbackGoes, Rows, Job
    <3> QED
      BY <2>1, <2>3, <3>1 DEF UpdateWeather, jobs, executor, Pool!vars
  <2>4. ASSUME NEW w \in Workers, Worker(w) PROVE [Pool!Next]_(Pool!vars)
    <3>1. CASE Take(w) \/ Done(w)
      BY <3>1 DEF Take, Done, Pool!Next
    <3>2. CASE UNCHANGED executor
      BY <3>2 DEF executor, Pool!vars
    <3> QED
      BY <2>4, <3>1, <3>2 DEF Worker, Link, TaskEnds, CheckDriver, WeatherTooEarly, WeatherRolls,
         WeatherChanges, WeatherPushes, WorkerGoesOn, jobs
  <2>5. CASE DestroyPool \/ PoolDestroyed
    BY <2>5 DEF DestroyPool, PoolDestroyed, Pool!Next
  <2>6. CASE UNCHANGED executor
    BY <2>6 DEF executor, Pool!vars
  <2> QED
    BY <1>2, <2>2, <2>3, <2>4, <2>5, <2>6
    DEF Next, Generator, on_tick, BeginTick, Exit, Drive, Others, ProcessEvents, UpdateLeaderboard,
        SetLap, Main, BeginRound, ReadRow, RowsRead, ReadLap, ReadWeather, PrintRound, LeaveLoop,
        Join, vars, jobs
<1> QED
  BY Invariance, <1>1, <1>2, PTL DEF Spec, Pool!Spec

-----------------------------------------------------------------------------
\* submit() is never refused.

\* Where the callback is before it comes to the submission of a job.
Before(job) == {"update", "set_lap", "limits"} \union (IF job = "weather" THEN {"weather"} ELSE {})

IsKnown(t) ==
    \/ t \in ready
    \/ \E i \in 1 .. Len(waiting) : waiting[i] = t
    \/ \E w \in Workers : running[w] = t

\* A task that the pool knows is one of this tick only if the callback has come to its job.
IsPast(t) ==
    /\ t.tick <= tick
    /\ pc = "drive" \/ (pc = "on_tick" /\ callback \in Before(t.job)) => t.tick < tick

TasksArePast == \A t \in Task : IsKnown(t) => IsPast(t)

\* A task the pool knows was known before, or the callback has just submitted it.
LEMMA KnownStep ==
    ASSUME WiringInv, [Next]_vars, NEW t \in Task, IsKnown(t)'
    PROVE  \/ IsKnown(t)
           \/ /\ pc = "on_tick" /\ t.tick = tick /\ t.job = callback
              /\ UNCHANGED <<pc, tick>> /\ callback' \notin Before(t.job)
<1> USE DEF jobs, executor
<1>0. waiting \in Seq(Task) /\ Nobody \notin Task /\ Len(waiting) \in Nat
  BY PoolFacts
<1>1. CASE UNCHANGED <<waiting, running, ready>>
  BY <1>1 DEF IsKnown
<1>2. ASSUME NEW job \in Job, NEW rows \in Rows, pc = "on_tick", Submit(job, rows), ~IsKnown(t)
      PROVE  t.tick = tick /\ t.job = job
  <2>1. PICK task \in Task : task = [job |-> job, tick |-> tick, lap |-> lap, rows |-> rows]
    BY <1>2, TaskType
  <2>2. waiting' = Append(waiting, task) /\ UNCHANGED <<running, ready>>
    BY <1>2, <2>1 DEF Submit, Pool!Submit
  <2>3. \A i \in 1 .. Len(waiting') :
           \/ waiting'[i] = task
           \/ i \in 1 .. Len(waiting) /\ waiting'[i] = waiting[i]
    BY <1>0, <2>1, <2>2
  <2>4. t = task
    BY <1>2, <2>2, <2>3 DEF IsKnown
  <2> QED
    BY <2>1, <2>4
<1>3. CASE CheckLimits
  <2>1. /\ states_ \in Rows /\ pc = "on_tick" /\ "limits" \in Job
        /\ callback = "limits" /\ callback' = "weather" /\ UNCHANGED <<pc, tick>>
    BY <1>3, TickFacts DEF CheckLimits, CallbackGoes, Job, source, race
  <2> QED
    BY <1>1, <1>2, <1>3, <2>1 DEF CheckLimits, Before
<1>4. CASE UpdateWeather
  <2>1. /\ <<>> \in Rows /\ pc = "on_tick" /\ "weather" \in Job
        /\ callback = "weather" /\ callback' = "process" /\ UNCHANGED <<pc, tick>>
    BY <1>4 DEF UpdateWeather, CallbackGoes, Rows, Job, source, race
  <2> QED
    BY <1>1, <1>2, <1>4, <2>1 DEF UpdateWeather, Before
<1>5. ASSUME NEW w \in Workers, Worker(w) PROVE IsKnown(t)
  <2>1. CASE Take(w)
    <3>1. /\ waiting # <<>> /\ ready' = ready
          /\ running' = [running EXCEPT ![w] = Head(waiting)] /\ waiting' = Tail(waiting)
      BY <2>1 DEF Take, Pool!Start
    <3>2. /\ 1 \in 1 .. Len(waiting) /\ Head(waiting) = waiting[1]
          /\ \A i \in 1 .. Len(waiting') : i + 1 \in 1 .. Len(waiting) /\ waiting'[i] = waiting[i + 1]
      BY <1>0, <3>1, HeadTailProperties
    <3>3. \A v \in Workers : running'[v] = waiting[1] \/ running'[v] = running[v]
      BY <3>1, <3>2, PoolFacts
    <3> QED
      BY <3>1, <3>2, <3>3 DEF IsKnown
  <2>2. CASE Done(w)
    <3>1. /\ running' = [running EXCEPT ![w] = Nobody]
          /\ ready' = ready \union {running[w]} /\ waiting' = waiting
      BY <2>2 DEF Done, Pool!Finish
    <3>2. \A v \in Workers : running'[v] = Nobody \/ running'[v] = running[v]
      BY <3>1, PoolFacts
    <3> QED
      BY <1>0, <3>1, <3>2 DEF IsKnown
  <2>3. CASE UNCHANGED executor
    BY <1>1, <2>3 DEF IsKnown
  <2> QED
    BY <1>5, <2>1, <2>2, <2>3 DEF Worker, Link, TaskEnds, CheckDriver, WeatherTooEarly, WeatherRolls,
       WeatherChanges, WeatherPushes, WorkerGoesOn
<1>6. CASE Main
  BY <1>1, <1>6, MainStep
<1> QED
  BY <1>1, <1>3, <1>4, <1>5, <1>6
  DEF Next, Generator, on_tick, BeginTick, Exit, Drive, Others, UpdateLeaderboard, SetLap,
      ProcessEvents, vars

\* A tick makes all tasks past, and the callback adds each job's task as it passes it.
LEMMA PastStep == WiringInv /\ TasksArePast /\ [Next]_vars => TasksArePast'
<1> SUFFICES ASSUME WiringInv, TasksArePast, [Next]_vars, NEW t \in Task, IsKnown(t)'
             PROVE  IsPast(t)'
  BY DEF TasksArePast
<1>0. tick \in Nat /\ t.tick \in Nat /\ t.job \in Job
  <2>1. t.tick \in 1 .. MaxTicks /\ t.job \in Job
    BY DEF Task
  <2> QED
    BY <2>1, TickFacts
<1>1. CASE ~IsKnown(t)
  BY <1>0, <1>1, KnownStep DEF IsPast
<1>2. CASE IsKnown(t)
  <2>0. IsPast(t)
    BY <1>2 DEF TasksArePast
  <2>1. CASE UNCHANGED <<pc, tick, callback>>
    BY <2>0, <2>1 DEF IsPast
  <2>2. CASE BeginTick
    <3>1. tick' = tick + 1
      BY <2>2 DEF BeginTick, Source!BeginTick
    <3> QED
      BY <1>0, <2>0, <3>1 DEF IsPast
  <2>3. CASE pc = "drive" /\ tick' = tick
    BY <2>0, <2>3 DEF IsPast
  <2>4. CASE Exit \/ \E n \in 0 .. Len(events) : ProcessEvents(n)
    <3>1. pc' \in {"exited", "loop"} /\ tick' = tick
      BY <2>4 DEF Exit, ProcessEvents, Source!Exit, Source!CallbackReturns, Source!race
    <3> QED
      BY <2>0, <3>1 DEF IsPast
  <2>5. CASE UpdateLeaderboard \/ SetLap \/ CheckLimits \/ UpdateWeather
    <3>1. /\ pc = "on_tick" /\ UNCHANGED <<pc, tick>>
          /\ <<callback, callback'>> \in {<<"update", "set_lap">>, <<"set_lap", "limits">>,
                                          <<"limits", "weather">>, <<"weather", "process">>}
      BY <2>5 DEF UpdateLeaderboard, SetLap, CheckLimits, UpdateWeather, CallbackGoes, source, race
    <3>2. callback' \in Before(t.job) => callback \in Before(t.job)
      BY <3>1 DEF Before
    <3> QED
      BY <2>0, <3>1, <3>2 DEF IsPast
  <2>6. CASE \E stop \in Source!Stop, new_lap, finish \in BOOLEAN : Drive(stop, new_lap, finish)
    BY <2>3, <2>6 DEF Drive, Source!Drive
  <2>7. CASE Main \/ \E w \in Workers : Worker(w)
    BY <2>1, <2>7, MainStep, WorkerStep
  <2>8. CASE UNCHANGED vars
    BY <2>1, <2>8 DEF vars, source, race
  <2> QED
    BY <2>2, <2>4, <2>5, <2>6, <2>7, <2>8 DEF Next, Generator, on_tick
<1> QED
  BY <1>1, <1>2

\* When the callback comes to a job the pool is open and knows no task like the one it
\* would submit, whatever rows it is given.
NothingIsRefused ==
    pc = "on_tick" =>
      /\ pool = "open"
      /\ callback \in Job => \A rows \in Rows :
           Pool!Fresh([job |-> callback, tick |-> tick, lap |-> lap, rows |-> rows])

\* submit() neither throws, for the pool is open while the generator runs (main.cpp:176),
\* nor is it given the same task twice: the guards of the executor hold back no step that
\* on_tick would take.
THEOREM SubmitsSucceed == Spec => []NothingIsRefused
<1>1. Init => TasksArePast
  <2> SUFFICES ASSUME Init, NEW t \in Task PROVE ~IsKnown(t)
    BY DEF TasksArePast
  <2>1. waiting = <<>> /\ ready = {} /\ running = [w \in Workers |-> Nobody] /\ Nobody \notin Task
    BY DEF Init, Pool!Init
  <2> QED
    BY <2>1 DEF IsKnown
<1>2. WiringInv /\ TasksArePast => NothingIsRefused
  <2> SUFFICES ASSUME WiringInv, TasksArePast, pc = "on_tick" PROVE NothingIsRefused
    BY DEF NothingIsRefused
  <2>1. pool = "open"
    BY DEF WiringInv, EndsInOrder
  <2>2. ASSUME callback \in Job, NEW rows \in Rows
        PROVE  Pool!Fresh([job |-> callback, tick |-> tick, lap |-> lap, rows |-> rows])
    <3>1. PICK task \in Task : task = [job |-> callback, tick |-> tick, lap |-> lap, rows |-> rows]
      BY <2>2, TaskType
    <3>2. task.tick = tick /\ tick \in Nat /\ callback \in Before(task.job)
      BY <2>2, <3>1, TickFacts DEF Before, Job
    <3>3. ~IsKnown(task)
      BY <3>2 DEF TasksArePast, IsPast
    <3>4. Pool!Fresh(task)
      BY <3>3 DEF IsKnown, Pool!Fresh
    <3> QED
      BY <3>1, <3>4 DEF Pool!Fresh
  <2> QED
    BY <2>1, <2>2 DEF NothingIsRefused
<1> QED
  BY Invariance, PastStep, <1>1, <1>2, PTL DEF Spec
=============================================================================
