# TLA+ specification of the race simulator

This directory specifies the concurrent core of the F1 telemetry simulator (`src/src/`, C++23)
in TLA+: its two lock-free queues, its thread pool, its CAS-claimed fastest lap, its penalty
state machine, the race that drives them and the way `main()` starts, couples and stops them.
TLC checks the modules on small instances. TLAPS proves, for every value of the parameters, all of
the safety properties that the runs check and every refinement; liveness is checked by TLC alone.

Contents: 1 the system, 2 the modules, 3 how the code is modelled, 4 the runs, 5 fairness,
6 the proofs, 7 what was found, 8 what is not modelled, 9 how it was built.

## 1. The system

Five threads run in the simulator: **main** (renders, waits for the end, shuts down), the
**generator** (`TelemetryGenerator::run`, 50 ticks a second), the **lap time consumer**
(`LapTimeConsumer::run`), and the **two workers** of `race_control_pool`.

| Part | State | Operations | Talks to |
|---|---|---|---|
| `SpscQueue` | ring `buffer_`, atomics `head_`, `tail_`, plain caches of them | `push` (generator), `pop` (consumer) | generator -> lap consumer |
| `MpscQueue` | linked nodes, atomic `tail_`, plain `head_` | `push` (workers, generator), `pop` (generator), destructor | workers -> enforcer |
| `ThreadPool` | `tasks_`, `stop_` under `mutex_`, `cv_` | `submit`, `worker_loop`, destructor | generator -> workers |
| `RaceState` | atomics `fastest_lap_ms`, `fastest_lap_holder`, `current_lap`, flags | `try_claim_fastest_lap`, `set_lap`, getters | consumer and generator write, main reads |
| `TelemetryGenerator` | `states_`, frames, `race_lap_`, `race_finished_` | `tick`, `handle_pit`, `should_pit`, `update_positions_and_drs`, `run`, `stop` | pushes frames, calls `on_tick` |
| `LapTimeConsumer` | its thread | `run`, drain, `stop` | pops frames, claims laps |
| `PenaltyEnforcer` | atomics `warnings_`, `states_`, `extra_pit_time_` | `process_events`, `driver_entered_pits`, `driver_exited_pits` | pops and pushes events |
| `TrackLimitsMonitor` | a random generator | `check`, on a worker | pushes events |
| `WeatherSystem` | state under a `shared_mutex`, `last_update_lap_` | `update`, on a worker; `current`, `grip_factor` | pushes events, main reads |
| `Leaderboard` | `standings_` under a `shared_mutex` | `update` (generator), `snapshot` (main), `fastest_lap_holder` (unused) | generator -> main |
| `main` | the futures of the two jobs, the local objects | `on_tick`, rendering loop, shutdown | everything |

What is hard here, and hardly reachable by a test:

* **Weak memory.** Both queues and the fastest lap rely on acquire and release. On x86, or in
  a short stress test, a weaker order goes unnoticed.
* **Interrupted operations.** A producer of the linked queue that is preempted between the
  exchange of `tail_` and the store of its link hides every later push; a winner of the fastest
  lap that is preempted between the exchange of the time and the store of the holder lets a
  later winner overtake.
* **Stale copies.** The cached indices of the ring buffer, `current_best` in the claim loop,
  positions a tick old, the states a track limits check has copied, a lap counter read relaxed.
* **The same fact kept twice.** The fastest lap in `RaceState` and in the best laps of the
  standings; the race lap in the counter and in the rows that are printed beside it.
* **A queue that its consumer writes to.** `process_events()` pushes onto what it drains.
* **Shutdown.** The consumer must drain after its stop request and be stopped after the
  generator; the pool must be drained before the objects its tasks use are destroyed.
* **Liveness.** Lost wakeups in the pool, weak exchanges that fail for no reason, the end of
  the race itself.

PROJECT.json lists these as `hazards`, each at its line with the properties that cover it.

Per component, what "correct" means: the *ring buffer* is race free, FIFO, and refuses only for
a reason; the *linked queue* loses, leaks and reorders nothing and never touches freed memory;
the *pool* runs every accepted task once, in order, and its destructor returns after the last;
the *fastest lap* improves strictly and loses no claim; the *enforcer* counts exactly and
penalises once; the *generator* reports each lap once, ranks the cars and calls `on_tick` only
between complete ticks; the *pipeline* announces the best of the laps that got into the queue, and misses
of the others only what the full queue refused; *main* never lets two
workers into one system, prints what belongs together and tears nothing down that is in use.

## 2. The modules

```
MemoryOrder                     release/acquire: what a load learns
SpscQueue           --implements-->  SpscChannel   <--instance--  LapPipeline
MpscQueue           --implements-->  MpscChannel   <--instance--  PenaltyEnforcer
ThreadPool          --implements-->  TaskExecutor  <--instance--  RaceControl
TelemetryGenerator  --implements-->  TickSource    <--instance--  RaceControl
FastestLap                      (with one claimer: one step of LapPipeline)
LapPipeline                     generator, SPSC channel, lap consumer, RaceState, main
PenaltyEnforcer                 enforcer, workers, MPSC channel
RaceControl                     tick source, on_tick, executor, systems, leaderboard, main
```

| Module | Code | Actions |
|---|---|---|
| `SpscQueue` | `concurrency/spsc_queue.h` | each atomic access and each slot access of `push`/`pop` is a step |
| `SpscChannel` | its promise | bounded FIFO; each side sees how far the other has come, possibly late |
| `MpscQueue` | `concurrency/mpsc_queue.h` | `new`, exchange, link; load of `next`, move and delete; destructor |
| `MpscChannel` | its promise | a push enters and is linked later; nothing passes an unlinked place |
| `ThreadPool` | `concurrency/thread_pool.{h,cpp}` | lock, test, wait, sleep, wake (spuriously too), take, run, stop, join |
| `TaskExecutor` | its promise | submit, start the oldest, finish, close, destroy when all have run |
| `FastestLap` | `common/race_state.h:77-110` | load, exchange, failed exchange, store of the holder; reader |
| `PenaltyEnforcer` | `race_control/penalty_enforcer.{h,cpp}` | drain, warn, exchange of the state, announce; pit entry and exit |
| `TelemetryGenerator` | `simulation/telemetry_generator.{h,cpp}` | one step per car and tick, one for positions, gaps and DRS |
| `TickSource` | its promise to the callback | begin a tick, drive a car, return from the callback, stop between ticks |
| `LapPipeline` | `lap_time_consumer.*`, `tick()`, `main.cpp` | start of both threads, frames, drops, claims, stop and join |
| `RaceControl` | `main.cpp:60-200`, `track_limits.*`, `weather.*`, `leaderboard.h`, `race_state.h` | the five parts of `on_tick`, the steps of both jobs, the reads of the rendering loop, shutdown |

Each module with a proof has it in a module of its own, `<Module>Proof`; these are the eight from
`SpscQueue` on. An `MC<Module>` module and its `.cfg` files instantiate a module for TLC.

The four components that others are built on are used through their abstract specifications.
That the code's queue, pool or generator implements its abstraction is a property of its run
(`ImplementsChannel`, `ImplementsExecutor`, `ImplementsTickSource`) and the theorem `Refinement` of its proof
module. `LapPipeline`, `PenaltyEnforcer` and `RaceControl` then instantiate the
abstraction, so what they show does not depend on how the part is built and their state spaces
stay small. `RaceControl` is one level further up in one respect: it keeps a push of an event in
its two steps, but a call of `process_events()` is one step.

Some definitions are preceded by a comment that begins with *Fault*. They are wrong on purpose: a
plausible slip in the code (a dropped guard, an off-by-one, a weaker order, a missing drain). They
are not part of any specification; PROJECT.json pairs each property with the fault that violates it.

## 3. How the code is modelled

**Names.** Variables are named as members and locals, actions as functions or as what the line
does. `pc` says where a thread is inside a function. Variables marked *history* record what has
happened so that a property can speak of it; no guard reads them.

**Atomics.** `SpscQueue` and `FastestLap` keep every store to an atomic in a sequence. A load may
return any store not older than the last one its thread has seen of that atomic (coherence); what an acquire load
learns from a release store is given by `MemoryOrder`, and only what is learned counts as ordered.
`MpscQueue` keeps for each atomic the last store and the knowledge it carries; a load of `next`
that returns null though a link was stored behaves as the load made before the store, so a pop may
always come first. A data race is an access without knowledge of the last conflicting one, and
is checked as a property rather than assumed absent.

**Mutexes.** A critical section is as many steps as there are points at which another thread can tell the
difference; in `ThreadPool` the mutex is explicit, in `RaceControl` the exclusive lock of
`update()` is the guard that no reader is inside, and a snapshot is one step per row. The lap
counter is a sequence of stores: its relaxed load may return any store not older than one the
reader knows of, and the reader knows those that precede the standings it has locked.

**Data.** An item, a driver and an event payload is a model value or a small record. Lap times are
small integers. In `TelemetryGenerator` distance is an integer and a speed the distance of a
tick; what a car drives on its own (engine, fuel, tyres, variation) is *any* of `Speeds`, to which
DRS is added and which is clamped, and worn tyres are a free choice: every outcome the physics could
have for laps, pits and positions is included. Gaps are compared as fractions, multiplied out.
The clock counts ticks, so lap times are whole ticks. `RaceControl`
represents what a tick writes into a driver's state by the number of the tick, which is what
tearing and stale reads would mix up; a driver's violation and a weather change are free choices.

**Bounds.** Every counter that the code leaves unbounded has a bound constant, named in the
module: `MaxItems`, `MaxPushes`, `MaxTasks`, `MaxClaims`/`MaxTime`, `MaxEvents`, `MaxTicks`,
`Pitting` and `Offenders` (which drivers may stop, or exceed the track limits, in a behaviour). Bounds appear only as conjuncts of the guards that begin a new item, push, task, claim,
event or tick, `Pitting` and `Offenders` of those that choose a stop or a violation. Indices of the ring buffer wrap by the same mask as in the code.

## 4. The runs

Eight runs pass; four show a disagreement (section 7). `CHECK_DEADLOCK FALSE` is set where
the modelled program ends (its bound is reached, or it has been shut down).

| Run | Instance | Question and answer |
|---|---|---|
| `spsc_queue` | Capacity 4, 2 items, 6 pushes | The indices wrap one and a half times, the caches go stale, full and empty are both met. `NoDataRace`, `FifoOrder`, `RefusalIsJustified` hold under every stale load; the queue implements `SpscChannel`; a retrying producer and a polling consumer deliver everything. The same is proved for all capacities. |
| `mpsc_queue` | 2 workers and the consumer push, 4 pushes | Three pushes can be between exchange and link at once, which is all the simulator has, with a fourth behind or before them. No use after free, race or leak (destructor included), real-time order, implements `MpscChannel`, every push is popped. |
| `thread_pool` | 2 workers, 2 submitters, 3 tasks | More tasks than workers, both idle or both busy when the pool stops, spurious wakeups, a `submit()` that throws. The pool implements `TaskExecutor` (no accepted task lost, repeated or out of order, all run before the destructor returns); no wakeup is lost; the destructor returns. |
| `fastest_lap` | 2 claimers, 2 drivers, 3 times, 2 claims each, a reader | Stale loads, lost and spuriously failed exchanges, equal times. Strict improvement, no claim lost, a reader never pairs a holder with an older time, every claim returns. |
| `fastest_lap_holder` | the same, 1 claim each | **Violated**: the holder may be the slower driver. |
| `penalties` | 2 workers, 2 drivers, 4 events | Three warnings of one driver and one of another, weather events and announcements between them, pushes in flight at the drain, pit visits at any moment. Warnings counted, one penalty per driver, announcements left in the queue, all that was surely queued is processed up to the first gap, and a penalty follows three events. |
| `lap_pipeline` | 2 cars, 2 times, queue of 2, 2 ticks | Four frames through a queue of two: a generator that is ticks ahead before the consumer starts, drops, a full queue at the end, laps pushed in the last tick, a race that finishes or times out at any moment. The summary is the first best lap of all laps queued, it differs from the drivers' best laps only by refused frames (which happens: without that clause TLC refutes the property), and it is reached. |
| `generator` | 3 cars, lap of 6, speeds 2 and 4 with DRS 1, 2 laps, 7 ticks | Cars lap at different speeds, get and lose DRS, stop, overtake in the pits and at the line, are level, and finish. Laps reported once, stops of the right length, positions a ranking, no early finish, and the generator implements `TickSource`. |
| `generator_laps` | the same, 2 cars | **Violated**: the race lap ends at TOTAL_LAPS + 1. |
| `generator_drs` | the same, 3 cars | **Violated**: DRS far behind a car in the pits. |
| `race_control` | 2 workers, 2 drivers (one offends, none stops), a check every tick, a weather update each lap, a penalty at the first warning, 2 ticks | Checks and updates in flight across ticks, pushes in flight at the drain, main's reads at any moment, the race ended by finish or timeout with tasks queued and running. Single flight, copied states, lines that belong together, throttled weather, orderly shutdown, a final summary, no more than one round of events lost. Workers are interchangeable (symmetry; the run has no liveness property). |
| `race_control_pits` | 1 worker, 1 driver who offends and stops, 3 ticks | **Violated**: nobody tells the enforcer of a pit stop. |

The constants of the program are scaled so that the interesting cases happen within these bounds:
`Capacity` 65536, `TOTAL_LAPS` 50, `PIT_STOP_TICKS`, the check period of nine ticks, the five laps
between weather updates and, in `RaceControl`, the three warnings are constants of the modules (in
`PenaltyEnforcer` the three warnings are three). Two actors of a kind suffice for races between
actors of that kind, a third (the consumer as a producer) is in the MPSC run because the code has
it, and a third car in the generator's because DRS relates a car, the one ahead and the leader. Two ticks are
the least in which a job of one tick meets the next tick; whoever offends or stops in `race_control` is fixed
because drivers differ only by that, and a second driver is needed to tear a snapshot. Every
violation found in development needed no more actors than these.

Some limits of what the properties say are worth knowing. `SummaryCountsQueuedLaps` is about laps
that got *into* the queue: `tick()` ignores a refused push by design. `SummaryAgreesWithBestLaps` then says that the
refused frames are all that is missing: the drivers' best laps, which `tick()` keeps of every lap, are compared with what went the
way of the queue, the consumer and `RaceState`. `EveryLapReportedOnce` counts the frames the generator *offers* to the
queue. `AnnouncementsLeft` is about the call that pushes them; the next call pops and skips them. In
`StandingsRankTheCars` the sort is modelled by what it does, so that the positions are a permutation holds by the definition of
`Position`; what can go wrong is the order, and the lap of the first car against the race lap. `ShutdownInOrder` takes the order of main()'s declarations as it
is. The destructor of `MpscQueue` starts when nobody is inside `push()`, which is main()'s duty and is shown by
`ShutdownInOrder`. `SurePrefixProcessed` is
about events whose push happens before the call, in the sense of the memory model: `sure` in
`PenaltyEnforcer` is the set of those, and other loads may still read null. `WinnerHasDoneAllLaps`
says the finish is never early; it may be late (section 7). `LineIsConsistent` is what the code guarantees of a printed
line, not that the line is of one instant: the lap may be one behind the rows or any number ahead, and the grip
newer than the weather (section 7).

## 5. Fairness

`FairSpec` of each module assumes only what the platform and the code's loops give.

* `SpscQueue`: both threads run (weak fairness), and a refresh that is made again and again sooner or later
  reads the newest index (strong fairness of that choice): a store becomes visible in finite time.
* `MpscQueue`: a push that has begun goes on; the consumer keeps polling, as `process_events()` does every tick.
* `ThreadPool`: each thread goes on; a thread that asks for the mutex again and again gets it
  (strong fairness of the lock); tasks end. Nothing makes anybody submit or destroy, and no
  wakeup is spurious by necessity: if a wakeup were lost, `EveryTaskRuns` would fail.
* `FastestLap`: a claimer goes on; `compare_exchange_weak` does not fail spuriously for ever; a failed exchange
  sooner or later returns the newest value.
* `PenaltyEnforcer`: `process_events()` is called again (every tick), a begun push finishes, and a link that has been stored
  becomes visible. Nobody has to push, and nobody has to pit.
* `LapPipeline`: the three threads run and time passes. The race need not finish: the timeout alone
  leads to the summary.

`TelemetryGenerator` and `RaceControl` are checked for safety only. In particular it is not
claimed that a race finishes.

## 6. The proofs

Eight modules hold theorems, one per component. Every safety property of a passing run, invariant, action property
or refinement, is stated by a theorem, from no more than the named assumption on the constants of its module, which TLC
evaluates on its run. Each proof has the same plan: an inductive invariant, a conjunction of named parts that TLC has
confirmed on the instance of the run; a lemma that the initial states satisfy it; lemmas for the steps, by action or by part; and the theorems, which the
invariant implies. The bounds (`MaxItems`, `MaxPushes`, `MaxTicks`, ...) are arbitrary natural numbers in the proofs.

`SpscQueueProof` proves, from `SpscAssumption` (the capacity is a power of two of at least 2, as the code's
`static_assert` demands) and for every item set and every number of pushes:

| Theorem | Statement |
|---|---|
| `TypeCorrect` | `Spec => []TypeOK` |
| `FifoCorrect` | `Spec => []FifoOrder` |
| `RaceFree` | `Spec => []NoDataRace` |
| `RefusalsJustified` | `Spec => RefusalIsJustified` (an action property) |
| `Refinement` | `Spec => ImplementsChannel`: each step is a step of `SpscChannel` or a stutter |

None of these is inductive. `IndInv` turns the indices into counters: `Sent` and `Got` count the items that
went through, `SentSeen` and `GotSeen` how much of it the other side has seen. `StoresInv` says the
n-th store of an index is (n - 1) modulo the capacity and carries n - 1 slot accesses; `CacheInv` that a
cache holds what its thread has seen; `WindowInv` that GotSeen <= Got <= SentSeen <= Sent <= GotSeen + Capacity - 1, the
reason why a stale cache is safe; `StageInv` what a thread has tested; `BufferInv` that the slots of
the window hold its items and were last touched by accesses the window orders. The full and empty
tests are then exact (`FullTest`, `EmptyTest`), which needs modular arithmetic that the SMT solver does not find:
the arithmetic lemmas at the start of the module prove it from division with remainder. There is one lemma per action.

`FastestLapProof` proves, from `FastestLapAssumption` and for any number of claimers, drivers, times and claims:

| Theorem | Statement |
|---|---|
| `Invariance` | `Spec => []IInv`, which includes `TypeOK` |
| `OneWinner` | `Spec => []OneWinnerPerTime` |
| `ClaimsKept` | `Spec => []NoClaimLost` |
| `ReaderConsistent` | `Spec => []TimeCoversHolder` |
| `SoleClaimerAgrees` | with one claimer, `Spec => []HolderSetTheTime` |
| `SoleClaimIsOneStep` | with one claimer, `Spec => [][ClaimAtOnce]_vars` |

`IInv` adds to the properties where each thread is in the history of the time: a claimer at the exchange
beats the time it expects, so if the exchange succeeds the history stays decreasing, and since it decreases any
stale store that refuses a claim proves the newest one refuses it too; a claimer about to store the
holder owns the store it made; each holder carries its win, which is what release and acquire are for.
`SoleClaimIsOneStep` is the reason why `LapPipeline` may take a claim as one step, and `ClaimAtOnce` is what that step does: what is recorded, the
time and the holder together, changes when a claim returns that beats it, to the arguments of that claim, and never otherwise. Between the
exchange and the store of the holder, what is recorded is the time before the last (`RecordedTime`). It rests on `AgreementInv`: a sole claimer has always
read its own last store. The simulator has one consumer; the hypothesis cannot be dropped, as `fastest_lap_holder` shows.

`ThreadPoolProof` proves, from `ThreadPoolAssumption` (there is a worker: `ThreadPool{0}` would run nothing) and for any
workers, submitters and number of tasks:

| Theorem | Statement |
|---|---|
| `Invariance` | `Spec => []PoolInv`, which includes `TypeOK` |
| `Refinement` | `Spec => ImplementsExecutor` |

`PoolInv` says what the steps of the executor presuppose: `NumbersInv` and `FreshInv`, that the task a submitter is about
to enqueue is nowhere else; `WorkerInv`, that a worker holds a task exactly while it runs it, and that one that has left
has left a stopped and empty pool; `OwnerInv`, that `stop_` tells where the destructor is. `WorkerInv` is
inductive because `submit()` refuses under the same lock under which the worker tested: this is what makes
`Join` the abstract `Destroy`, and it needs one worker to have left.

`MpscQueueProof` proves, from `MpscAssumption` (the nodes, the dummy and null are different things) and for any number of
threads that push and of pushes:

| Theorem | Statement |
|---|---|
| `TypeCorrect` | `Spec => []TypeOK`; no null pointer is followed |
| `MemorySafe` | `Spec => []NoUseAfterFree` |
| `RaceFree` | `Spec => []NoDataRace` |
| `QueueOrder` | `Spec => []RealTimeOrder` |
| `AllFreed` | `Spec => []NoLeak` |
| `Refinement` | `Spec => ImplementsChannel` |

The nodes exchanged so far form a chain (`ChainInv`): the dummy, then one node per exchange, each pusher between its exchange and its link knowing
its predecessor. The memory agrees with the chain: `NextInv`, that a node's `next` is its successor or, exactly while that push has
not linked, null; `PoppedInv`, that the consumer is as far along as it has popped; `HeapInv`, that it has freed just the nodes behind it.
Memory safety follows because the predecessor a pusher will write to is not behind the consumer: the link that would let the consumer pass
it is the one still to be written. `KnownInv` carries the happens-before knowledge: whoever can reach a node by
its next load learns of its construction, and the consumer learns of the link before it deletes. It names what the acq_rel exchange, the
release store and the acquire load are each needed for.

`TelemetryGeneratorProof` proves, from `TelemetryGeneratorAssumption` (the grid fits into a lap, no car drives more than a lap per tick, a
stop takes a tick at least) and for any number of cars, laps and ticks and any speeds:

| Theorem | Statement |
|---|---|
| `TypeCorrect` | `Spec => []TypeOK` |
| `LapsReportedOnce` | `Spec => []EveryLapReportedOnce` |
| `StandingsAreRanking` | `Spec => []StandingsRankTheCars` |
| `WinnerHasFinished` | `Spec => []WinnerHasDoneAllLaps` |
| `StopsLast` | `Spec => StopLastsItsTicks` (an action property) |
| `Refinement` | `Spec => ImplementsTickSource` |

`RaceInv` says how far the tick has come (`Reached(c)` is the tick of car c's last move): what has been reported of each car
(`LapsAreReported`), the timer of a stop as a function of the tick it began in (`StopsAreTimed`), that the race lap is the
largest lap and grows once a tick (`RaceLapIsLast`, `RaceLapGrowsOnce`). The last needs that every car still to move is in a lap that had begun
before the tick, and is what lets `RaceControl` begin at most one lap a tick. The three actions of a car are one kind of step
(`CarMove`), which divides the number of cases. That positions are a permutation (`PositionsAreAll`) is a counting argument over a strict total
order of the cars: distance, then the order of the grid.

`LapPipelineProof` proves, from `LapPipelineAssumption` (the grid is not empty) and for any grid, lap times, queue size and
number of ticks:

| Theorem | Statement |
|---|---|
| `TypeCorrect` | `Spec => []TypeOK` |
| `SummaryIsComplete` | `Spec => []SummaryCountsQueuedLaps` |
| `SummaryMissesOnlyRefused` | `Spec => []SummaryAgreesWithBestLaps` |

`PipelineInv` says that what was popped is a prefix of what was pushed (`PopsArePrefix`), that the result is that of a sequential scan of the frames judged so
far (`ResultIsCurrent`), and why nothing is left at the end: the generator has exited when the consumer is asked to stop
(`StopsInOrder`), and a drain that begins after the request is sure of everything pushed before it (`DrainsAll`), so its last look at the
queue sees all there will ever be. Without the join of the generator `DrainsAll` would not be inductive.
`BestLapsAreReported` says that each driver's best lap is that of a frame pushed, refused or still in the generator's hands, and no worse than any of them.

`PenaltyEnforcerProof` proves, from `EnforcerAssumption` (the event about nobody names no driver) and for any workers, drivers and number of events:

| Theorem | Statement |
|---|---|
| `TypeCorrect` | `Spec => []TypeOK` |
| `WarningsAreCounted` | `Spec => []WarningsCounted` |
| `OnePenalty` | `Spec => []OnePenaltyForThreeWarnings` |
| `AnnouncementsStay` | `Spec => []AnnouncementsLeft` |
| `DrainProcessesSure` | `Spec => []SurePrefixProcessed` |
| `CallsAreSteps` | `Spec => [](Between(g, w, s, a) => []CallsSince(g, w, s, a))`, for any g, w, s, a |
| `UsesTheQueue` | `Spec => Queue!Spec`: workers and enforcer together use the queue as `MpscChannel` |

The checked properties speak of the moments between two calls. `EnforcerInv` says what they mean in the middle of one: the batch is the rest of what was popped
(`BatchIsRest`), the warnings are those of the events judged so far (`WarningsAreJudged`, counted with the head of the batch once its `fetch_add` is
done), a driver being fined has exactly three warnings (`HeadIsThird`), and every other driver with three has the penalty and its one announcement
(`PenaltiesFollowWarnings`). From `HeadIsThird` it follows that the exchange of NONE for PENDING never fails: the counter meets three once, so the
`compare_exchange` refuses nothing as long as one thread calls `process_events()`. `DrainIsComplete` and `IssuesComeLater` relate the drain to the places in the queue.

`CallsAreSteps` compares two moments between calls: g, w, s and a are what has been popped, the warnings, the states and the numbers of announcements at the first. At the second the
warnings have grown by the TRACK_LIMITS events popped since, and the drivers fined and announced once more are those without a penalty whose
warnings have come to three. This is what `ProcessEvents` of `RaceControl` does to the warnings and the penalties in its one step. Where the announcements stand among what
workers push during the call is not part of it: `RaceControl` puts them last.

`RaceControlProof` proves, from `RaceControlAssumption` (there is a driver, periods are positive, `Nobody` is no driver, worker or task) and for any number of
drivers, workers and ticks:

| Theorem | Statement |
|---|---|
| `TypeCorrect` | `Spec => []TypeOK` |
| `JobsDoNotOverlap` | `Spec => []SingleFlight` |
| `ChecksSeeOneTick` | `Spec => []CheckSeesOneTick` |
| `WeatherKeepsItsGap` | `Spec => []WeatherChangesApart` |
| `PrintsConsistentLine` | `Spec => []LineIsConsistent` |
| `EndsInOrderOfUse` | `Spec => []ShutdownInOrder` |
| `LosesEventsOfOneCheck` | `Spec => []LateEventsOfOneCheck` |
| `SummaryStaysFinal` | `Spec => SummaryIsFinal` (an action property) |
| `UsesThePool` | `Spec => Pool!Spec` |
| `SubmitsSucceed` | `Spec => []NothingIsRefused`: the pool is open and the task new whenever `on_tick` submits |

`WiringInv` has a part for each coupling that `main()` makes. `TasksHaveFutures`: a task queued or running is the one its job's future stands for, which gives
single flight. `ChecksHaveOneTick`: it carries the states of one tick. `ChangesAreRemembered`: an update that is about to change the weather has already moved
the throttle, which is why a task queued for long cannot undo it. `LapsArePublished` and `StandingsArePublished` relate the lap counter, the standings and
the stores that a reader of the standings knows; `RoundIsConsistent` says what main has read up to each point of its round. `EndsInOrder` orders the
end; `EventsOfOneCheck` says that after a drain that left nothing each job has pushed at most what one task of it pushes. That each part is preserved
by the steps of threads it does not mention follows from lemmas on what a step of the generator, the callback, a worker and main leaves alone.
`SubmitsSucceed` needs one fact more, `TasksArePast`: the pool knows tasks of the current tick only of jobs that the callback has passed. It shows
that the guards of the abstract `Submit` hold back no step that the code would take, so the runs and the other theorems do not hold because of them.

What the theorems say of the compositions is about the abstract queue, pool and generator. That a composition does nothing to such a part that its
abstraction does not allow is, for the frame queue of `LapPipeline` and the ticks of `RaceControl`, by the shape of the modules: each step is a conjunction with
an action of the abstraction or leaves its variables alone. For the event queue and the pool, whose arguments must be shown to be events and new tasks, it is
the theorems `UsesTheQueue` and `UsesThePool`. With the `Refinement` of the part these are the two halves of the argument that what is shown
holds of the composed code; the composition itself is not a theorem.

Model-checked only: the seven liveness properties (`EverythingDelivered`, `EveryPushDelivered`, `EveryTaskRuns`, `DestructorReturns`,
`ClaimReturns`, `PenaltyFollows`, `SummaryReached`), because they need fairness, that is ENABLED, which is beyond the prover, and the four disagreements of
section 7, which are counterexamples. `TypeOK` of `FastestLap`, `ThreadPool`, `PenaltyEnforcer`, `LapPipeline`, `TelemetryGenerator` and `RaceControl` is
proved but is not among the checked properties.

## 7. What was found

1. **Holder of the fastest lap** (`fastest_lap_holder`). `race_state.h:94` exchanges the time and `:100` stores
   the holder. Two claimers can do the first in one order and the second in the other: the
   slower driver is recorded with the faster time. The comments at `:79-80` and `:85` say otherwise. The simulator has
   one claimer, and is right; the tests run several.
2. **DRS behind a slow car** (`generator_drs`). `telemetry_generator.cpp:231` promises DRS "if within 1 second of the car
   directly ahead". The code subtracts two gaps to the leader, each a distance over the average of the leader's and that car's own
   speed. A car in the pits has a low speed and so a long gap: the car behind it may get DRS from several
   seconds back: leader at 350 kph, a car in the pits 1.0 km behind (17.6 s), a third at 350 kph 1.5 km behind (15.4 s) give a difference of -2.1 s where there are 5 s to drive.
3. **Pit stops and penalties** (`race_control_pits`). `driver_entered_pits()` and `driver_exited_pits()` are
   "called by the simulator" (`penalty_enforcer.h:38`), but no code calls them; a pending penalty stays pending.
4. **"RACE FINISHED after 51 laps"** (`generator_laps`). The race lap is the lap the leader is in, one more than the
   laps completed when he finishes.

Remarks that contradict nothing the repository says, or that no property is needed to see:

* The finish is decided with the positions of the tick before, so a car that takes the lead in the tick in
  which it completes the last lap does not end the race then.
* A refused frame loses its lap: the announced fastest lap is not one "across every completed lap" (`main.cpp:190-191`) if the frame of a faster one was
  refused. The drivers' best laps still have it (`SummaryAgreesWithBestLaps`).
* `process_events()` is to "process all pending" events (`penalty_enforcer.h:34`), but its drain stops at the first push that has not
  stored its link, so finished pushes behind it wait for the next tick: `SurePrefixProcessed` states what holds, and
  `PenaltyFollows` that nothing is lost while the race lasts.
* Events pushed after the last `process_events()` are never processed; `LateEventsOfOneCheck` bounds them.
* main reads the weather and the grip factor under two separate locks: a line may show the grip of a newer weather.
* `race_state.h:41` says that all threads read `race_active` every tick to decide whether to exit; no code in `src/src` reads it.
* `penalty_enforcer.cpp:66` speaks of "~13 ticks" for five seconds; `:67` stores 3 (2.1 would be five seconds), and nothing reads it.

## 8. What is not modelled

* Tyre wear, fuel, throttle, brake and sectors as numbers: abstracted to the speed they allow and to whether tyres are worn, or without
  influence on the control modelled. The probabilities of violations and weather changes: free choices.
* Floating point: distances, speeds and gaps are integers and fractions of them.
* `empty()` and `size_approx()` of the queues, `size()`, `at_position()` and `fastest_lap_holder()` of `Leaderboard`, `standings()` of the generator (unused, and documented
  as not thread-safe), the flags `race_active` and `safety_car` of `RaceState`: reads that decide nothing in the simulator.
* `Leaderboard`'s exception for a second writer thread: the simulator has one writer.
* An unknown driver in `LapTimeConsumer`: frames come from `DRIVERS`.
* The penalty column: `penalty_state()` is read row by row while printing, outside any lock; each row is right by itself.
* Exceptions of `new` and of tasks; what a task throws stays in a future that nobody reads.
* Printing, season data, tests, benchmarks.

## 9. How it was built

In this order: the ring buffer and its proof, the linked queue, the fastest lap and its proof, the enforcer, the pool,
the pipeline, the generator, race control; then the pool and the generator as abstract specifications under race control, the proof
of the first, DRS in the generator, the reads of the rendering loop and the end of the race in race control; then the
proofs of the linked queue, the pipeline, race control, the generator and the enforcer; last the theorems that a claim and a call of
`process_events()` are the single steps that the modules using them take, and the best laps
and refused frames of the pipeline.

Whoever changes the code finds its definitions by `map` in `PROJECT.json`. What could still be added: the composed specifications as
theorems (a `SpscQueue` in the place of the channel of `LapPipeline`, and so on), which needs both halves in one module.
