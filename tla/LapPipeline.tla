----------------------------- MODULE LapPipeline -----------------------------
(***************************************************************************)
(* The way of a lap time from the generator thread through the SPSC queue   *)
(* to the LapTimeConsumer thread and RaceState, and how main() starts and   *)
(* ends it.  The queue is the channel that SpscQueue implements; a frame    *)
(* carries a driver and the time of the lap just completed, 0 if none was.  *)
(* What else the generator does is the subject of TelemetryGenerator, the   *)
(* steps of try_claim_fastest_lap are those of FastestLap (there is one     *)
(* claimer here, so it is one step).                                        *)
(***************************************************************************)
EXTENDS Naturals, Sequences

CONSTANTS
  Grid,      \* DRIVERS: the drivers in the order tick() visits them
  LapTimes,  \* the lap times that can be measured
  Bound,     \* how many frames the queue holds
  MaxTicks,  \* bound: ticks of the generator thread
  None       \* no driver, no time yet

ASSUME LapPipelineAssumption ==
    /\ Grid \in Seq({Grid[i] : i \in 1 .. Len(Grid)}) /\ Grid # <<>>
    /\ LapTimes \subseteq Nat \ {0} /\ LapTimes # {} /\ None \notin LapTimes
    /\ Bound \in Nat \ {0} /\ MaxTicks \in Nat

Driver == {Grid[i] : i \in 1 .. Len(Grid)}
Frame == [driver : Driver, lap_time_ms : LapTimes \union {0}]

VARIABLES
  sent, got, got_seen, sent_seen,     \* the queue (SpscChannel)
  race_finished_,                     \* TelemetryGenerator
  best_lap,        \* best_lap_ms of each DriverState, 0 if there is none yet
  fastest_lap_ms, fastest_lap_holder, \* RaceState
  stop_requested,  \* the stop state of each jthread
  timed_out,       \* main()'s 60 seconds are over
  pc,              \* where each thread is
  car,             \* the generator's position in states_
  ticks,           \* ticks begun
  frame,           \* what each thread pushes or has popped
  sure,            \* pushes that happen before what the consumer does
  refused          \* the frames that found the queue full (history)

queue == <<sent, got, got_seen, sent_seen>>
result == <<fastest_lap_ms, fastest_lap_holder>>
clocks == <<stop_requested, timed_out>>
records == <<best_lap, refused>>
race == <<race_finished_, records, car, ticks>>
vars == <<queue, result, clocks, race, pc, frame, sure>>

Channel == INSTANCE SpscChannel WITH Items <- Frame

NoFrame == [driver |-> Grid[1], lap_time_ms |-> 0]

Init ==
    /\ Channel!Init
    /\ race_finished_ = FALSE /\ best_lap = [d \in Driver |-> 0] /\ refused = {}
    /\ fastest_lap_ms = None /\ fastest_lap_holder = None
    /\ stop_requested = [t \in {"generator", "consumer"} |-> FALSE]
    /\ timed_out = FALSE
    /\ pc = [generator |-> "new", consumer |-> "new", main |-> "start_generator"]
    /\ car = 1 /\ ticks = 0
    /\ frame = [t \in {"generator", "consumer"} |-> NoFrame]
    /\ sure = 0

GoTo(t, label) == pc' = [pc EXCEPT ![t] = label]

-----------------------------------------------------------------------------
\* The generator thread: run() and the part of tick() that concerns laps.

EndsWhenFinished == race_finished_  \* fault: a stop request is not looked at

Ends == stop_requested["generator"] \/ race_finished_

RunLoop ==
    /\ pc["generator"] = "loop"
    /\ IF Ends
         THEN GoTo("generator", "exited") /\ UNCHANGED <<car, ticks>>
         ELSE /\ ticks < MaxTicks
              /\ ticks' = ticks + 1 /\ car' = 1
              /\ GoTo("generator", "drive")
    /\ UNCHANGED <<queue, race_finished_, records, result, clocks, frame, sure>>

Reports(ms) ==
    /\ frame' = [frame EXCEPT !["generator"] = [driver |-> Grid[car], lap_time_ms |-> ms]]
    /\ GoTo("generator", "push")

\* The car drives on without completing a lap.
DriveOn ==
    /\ pc["generator"] = "drive"
    /\ Reports(0)
    /\ UNCHANGED <<queue, result, clocks, race, sure>>

\* Fault: the best lap has no initial value, and none is below it.
BetterThan(best, ms) == ms < best

\* The first lap, or a faster one.
Better(best, ms) == best < 1 \/ ms < best

\* The car completes a lap; the last lap of the leader ends the race.
CompleteLap(ms, last) ==
    /\ pc["generator"] = "drive"
    /\ Reports(ms)
    /\ best_lap' = [best_lap EXCEPT ![Grid[car]] = IF Better(@, ms) THEN ms ELSE @]
    /\ race_finished_' = (race_finished_ \/ last)
    /\ UNCHANGED <<queue, result, clocks, refused, car, ticks, sure>>

\* After the push: the next car, or the end of the tick.
NextCar ==
    IF car < Len(Grid) THEN car' = car + 1 /\ GoTo("generator", "drive")
                       ELSE car' = car /\ GoTo("generator", "loop")

\* push() finds room by its cached head, or by the one it has just loaded.
PushFrame ==
    /\ pc["generator"] \in {"push", "retry"}
    /\ Channel!Send(frame["generator"])
    /\ NextCar
    /\ UNCHANGED <<result, clocks, race_finished_, records, ticks, frame, sure>>

\* By its cached head the queue is full: push() loads head_.
PushLooks(n) ==
    /\ pc["generator"] = "push" /\ Channel!LooksFull
    /\ Channel!SeeGot(n)
    /\ GoTo("generator", "retry")
    /\ UNCHANGED <<result, clocks, race, frame, sure>>

\* push() returns false, which tick() ignores: the frame is dropped.
DropFrame ==
    /\ pc["generator"] = "retry" /\ Channel!LooksFull
    /\ refused' = refused \union {frame["generator"]}
    /\ NextCar
    /\ UNCHANGED <<queue, result, clocks, race_finished_, best_lap, ticks, frame, sure>>

-----------------------------------------------------------------------------
\* The LapTimeConsumer thread.

Draining == pc["consumer"] \in {"drain", "drain_retry", "drain_claim"}

ThenNothing == "exited"  \* fault: no drain after the loop
ThenDrain == "drain"

\* while (!st.stop_requested()): seeing the request synchronizes with it, so all
\* that was pushed before it happens before the drain.
ConsumerLoop ==
    /\ pc["consumer"] = "loop"
    /\ IF stop_requested["consumer"]
         THEN GoTo("consumer", ThenDrain) /\ sure' = Len(sent)
         ELSE GoTo("consumer", "pop") /\ UNCHANGED sure
    /\ UNCHANGED <<queue, result, clocks, race, frame>>

\* pop() finds a frame by its cached tail, or by the one it has just loaded.
PopFrame ==
    /\ pc["consumer"] \in {"pop", "retry", "drain", "drain_retry"}
    /\ Channel!Receive
    /\ frame' = [frame EXCEPT !["consumer"] = sent[Len(got) + 1]]
    /\ GoTo("consumer", IF Draining THEN "drain_claim" ELSE "claim")
    /\ UNCHANGED <<result, clocks, race, sure>>

\* By its cached tail the queue is empty: pop() loads tail_.
PopLooks(n) ==
    /\ pc["consumer"] \in {"pop", "drain"} /\ Channel!LooksEmpty
    /\ sure <= n
    /\ Channel!SeeSent(n)
    /\ GoTo("consumer", IF Draining THEN "drain_retry" ELSE "retry")
    /\ UNCHANGED <<result, clocks, race, frame, sure>>

\* pop() returns false: sleep and look again, or, drained, return from run().
PopNothing ==
    /\ pc["consumer"] \in {"retry", "drain_retry"} /\ Channel!LooksEmpty
    /\ GoTo("consumer", IF Draining THEN "exited" ELSE "loop")
    /\ UNCHANGED <<queue, result, clocks, race, frame, sure>>

\* A frame with a lap time claims the fastest lap if it beats the best one.
Beats(ms) == ms > 0 /\ (fastest_lap_ms = None \/ ms < fastest_lap_ms)

Claim ==
    /\ pc["consumer"] \in {"claim", "drain_claim"}
    /\ LET f == frame["consumer"] IN
         IF Beats(f.lap_time_ms)
           THEN fastest_lap_ms' = f.lap_time_ms /\ fastest_lap_holder' = f.driver
           ELSE UNCHANGED result
    /\ GoTo("consumer", IF Draining THEN "drain" ELSE "loop")
    /\ UNCHANGED <<queue, clocks, race, frame, sure>>

-----------------------------------------------------------------------------
\* main(), and the clock that ends its patience.

TimePasses ==
    /\ ~timed_out
    /\ timed_out' = TRUE
    /\ UNCHANGED <<queue, result, stop_requested, race, pc, frame, sure>>

MainGoes(from, to) == pc["main"] = from /\ GoTo("main", to)

\* start() of a thread: a new std::jthread enters run().
Start(t, from, to) ==
    /\ pc["main"] = from
    /\ pc' = [pc EXCEPT !["main"] = to, ![t] = "loop"]
    /\ UNCHANGED <<queue, result, clocks, race, frame, sure>>

\* The rendering loop is left; end_race() and then generator.stop().
LeaveLoop ==
    /\ race_finished_ \/ timed_out
    /\ MainGoes("render", "stop_generator")
    /\ UNCHANGED <<queue, result, clocks, race, frame, sure>>

\* stop() of a thread: request_stop(), then join().
RequestStop(t, from, to) ==
    /\ stop_requested' = [stop_requested EXCEPT ![t] = TRUE]
    /\ MainGoes(from, to)
    /\ UNCHANGED <<queue, result, timed_out, race, frame, sure>>

Join(t, from, to) ==
    /\ pc[t] = "exited"
    /\ MainGoes(from, to)
    /\ UNCHANGED <<queue, result, clocks, race, frame, sure>>

StartGenerator == Start("generator", "start_generator", "start_consumer")
StartConsumer == Start("consumer", "start_consumer", "render")
StopGenerator == RequestStop("generator", "stop_generator", "join_generator")
JoinGenerator == Join("generator", "join_generator", "stop_consumer")
StopConsumer == RequestStop("consumer", "stop_consumer", "join_consumer")
JoinConsumer == Join("consumer", "join_consumer", "summary")

-----------------------------------------------------------------------------
Generator ==
    \/ RunLoop
    \/ DriveOn
    \/ \E ms \in LapTimes, last \in BOOLEAN : CompleteLap(ms, last)
    \/ PushFrame
    \/ \E n \in got_seen .. Len(got) : PushLooks(n)
    \/ DropFrame

Consumer ==
    \/ ConsumerLoop
    \/ PopFrame
    \/ \E n \in sent_seen .. Len(sent) : PopLooks(n)
    \/ PopNothing
    \/ Claim

Main ==
    \/ StartGenerator \/ StartConsumer
    \/ LeaveLoop
    \/ StopGenerator \/ JoinGenerator \/ StopConsumer \/ JoinConsumer

Next == Generator \/ Consumer \/ Main \/ TimePasses

Spec == Init /\ [][Next]_vars

\* Every thread keeps running, and time passes.
Fairness == WF_vars(Generator) /\ WF_vars(Consumer) /\ WF_vars(Main) /\ WF_vars(TimePasses)

FairSpec == Spec /\ Fairness

-----------------------------------------------------------------------------
TypeOK ==
    /\ sent \in Seq(Frame) /\ got \in Seq(Frame)
    /\ got_seen \in Nat /\ sent_seen \in Nat /\ sure \in Nat
    /\ race_finished_ \in BOOLEAN /\ timed_out \in BOOLEAN
    /\ best_lap \in [Driver -> LapTimes \union {0}] /\ refused \subseteq Frame
    /\ fastest_lap_ms \in LapTimes \union {None}
    /\ fastest_lap_holder \in Driver \union {None}
    /\ stop_requested \in [{"generator", "consumer"} -> BOOLEAN]
    /\ pc \in [generator : {"new", "loop", "drive", "push", "retry", "exited"},
              consumer : {"new", "loop", "pop", "retry", "claim",
                          "drain", "drain_retry", "drain_claim", "exited"},
              main : {"start_generator", "start_consumer", "render", "stop_generator",
                      "join_generator", "stop_consumer", "join_consumer", "summary"}]
    /\ car \in 1 .. Len(Grid) /\ ticks \in 0 .. MaxTicks
    /\ frame \in [{"generator", "consumer"} -> Frame]

\* The (time, driver) a sequential scan of frames would announce: the first frame
\* with the best time.
IsFastestOf(frames, ms, driver) ==
    LET laps == {i \in 1 .. Len(frames) : frames[i].lap_time_ms > 0} IN
    IF laps = {} THEN ms = None /\ driver = None
    ELSE \E i \in laps :
           /\ \A j \in laps :
                \/ frames[i].lap_time_ms < frames[j].lap_time_ms
                \/ frames[i].lap_time_ms = frames[j].lap_time_ms /\ i <= j
           /\ ms = frames[i].lap_time_ms /\ driver = frames[i].driver

(* The summary that main() prints after both stop() calls announces the best  *)
(* of ALL the laps that got into the queue, those pushed in the last tick     *)
(* included, and the driver who drove it first (lap_time_consumer.cpp:33-34). *)
SummaryCountsQueuedLaps ==
    pc["main"] = "summary" => IsFastestOf(sent, fastest_lap_ms, fastest_lap_holder)

(* The program keeps the fastest lap twice: RaceState has it of the frames,   *)
(* the drivers' best laps, which the final standings carry, of all laps.      *)
(* When the summary is printed the two differ only by frames that the full    *)
(* queue refused (telemetry_generator.cpp:153): the driver announced has a    *)
(* best lap no worse than the time announced, and nobody else's best lap      *)
(* beats that time unless the frame that reported it was refused.             *)
SummaryAgreesWithBestLaps ==
    pc["main"] = "summary" =>
      /\ fastest_lap_ms # None => best_lap[fastest_lap_holder] \in 1 .. fastest_lap_ms
      /\ \A d \in Driver : best_lap[d] > 0 =>
           \/ fastest_lap_ms # None /\ fastest_lap_ms <= best_lap[d]
           \/ [driver |-> d, lap_time_ms |-> best_lap[d]] \in refused

(* Whether the race finishes or the 60 seconds run out, both threads stop and *)
(* main() gets to the summary.                                                *)
SummaryReached == <>(pc["main"] = "summary")
=============================================================================
