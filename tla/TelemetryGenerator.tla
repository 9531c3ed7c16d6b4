-------------------------- MODULE TelemetryGenerator --------------------------
(***************************************************************************)
(* The generator thread: run(), the laps, pit stops, best laps, positions,  *)
(* gaps, DRS and finish that tick() keeps for every car, and the lap marker *)
(* of the frames it pushes.  Cars are numbered in the order of DRIVERS.     *)
(* Distances and speeds are integers, a speed being the distance of a tick; *)
(* fuel and tyres are abstracted to the speed they allow and to whether the *)
(* tyres are worn; the clock counts ticks.                                  *)
(***************************************************************************)
EXTENDS Integers, FiniteSets, FiniteSetsExt

CONSTANTS
  Cars,           \* DRIVERS.size()
  LapLength,      \* track_.length_km
  Stagger,        \* distance between cars on the starting grid
  Speeds,         \* speeds of a car on its own: engine, fuel, tyres, variation
  DrsBoost,       \* what DRS adds
  MaxSpeed,       \* the upper clamp
  PitSpeed,       \* the pit lane speed limit, below every speed on the track
  SIM_S_PER_TICK, \* seconds a tick stands for
  TOTAL_LAPS,
  PIT_STOP_TICKS,
  FirstPitLap,    \* should_pit(): no stop before this lap
  MaxTicks        \* bound: ticks of the race

Car == 1 .. Cars

(* At 370 km/h a tick of 2.4 simulated seconds covers 0.25 of 5.4 km, and the *)
(* grid is 0.19 km long: no car starts beyond the line or laps twice a tick.  *)
ASSUME TelemetryGeneratorAssumption ==
    /\ Cars \in Nat \ {0} /\ LapLength \in Nat \ {0} /\ Stagger \in Nat
    /\ (Cars - 1) * Stagger < LapLength
    /\ Speeds \subseteq 1 .. MaxSpeed /\ MaxSpeed \in 1 .. LapLength
    /\ PitSpeed \in 1 .. MaxSpeed /\ SIM_S_PER_TICK \in Nat \ {0}
    /\ PIT_STOP_TICKS \in Nat \ {0}
    /\ {DrsBoost, TOTAL_LAPS, FirstPitLap, MaxTicks} \subseteq Nat

VARIABLES
  states_,         \* DriverState of each car
  race_lap_, race_finished_,
  stop_requested,  \* the thread's stop token
  pc, car,         \* where the thread is, and at which car
  ticks,           \* ticks begun, the clock
  reported,        \* lap times offered to the queue for each car: how many, and sum (history)
  pit_since,       \* the tick in which each car last entered the pits (history)
  lap_before       \* the race lap when the tick began (history)

race == <<race_lap_, race_finished_>>
at == <<pc, car, ticks>>
history == <<reported, pit_since, lap_before>>
vars == <<states_, race, stop_requested, at, history>>

Init ==
    /\ states_ = [c \in Car |->
         [position |-> c, distance_in_lap |-> (Cars - c) * Stagger, lap |-> 1,
          speed |-> 0, drs_active |-> FALSE,
          lap_time |-> 0, lap_start |-> 0, best_lap |-> 0,
          in_pit |-> FALSE, frame_in_pit |-> FALSE, pit_timer_ticks |-> 0,
          has_completed_pit |-> FALSE, pit_stops |-> 0]]
    /\ race_lap_ = 1 /\ race_finished_ = FALSE /\ stop_requested = FALSE
    /\ pc = "loop" /\ car = 1 /\ ticks = 0
    /\ reported = [c \in Car |-> [laps |-> 0, time |-> 0]]
    /\ pit_since = [c \in Car |-> 0] /\ lap_before = 1

-----------------------------------------------------------------------------
\* run()

BeginTick ==
    /\ pc = "loop" /\ ~stop_requested /\ ~race_finished_ /\ ticks < MaxTicks
    /\ ticks' = ticks + 1 /\ car' = 1 /\ pc' = "cars"
    /\ lap_before' = race_lap_
    /\ UNCHANGED <<states_, race, stop_requested, reported, pit_since>>

Exit ==
    /\ pc = "loop" /\ (stop_requested \/ race_finished_)
    /\ pc' = "exited"
    /\ UNCHANGED <<states_, race, stop_requested, car, ticks, history>>

\* stop(), by main()
Stop ==
    /\ ~stop_requested /\ stop_requested' = TRUE
    /\ UNCHANGED <<states_, race, at, history>>

-----------------------------------------------------------------------------
\* tick()

NextCar == IF car < Cars THEN car' = car + 1 /\ pc' = pc
                         ELSE car' = car /\ pc' = "positions"

\* The first lap, or a faster one.
Better(best, ms) == best < 1 \/ ms < best

\* The car's state becomes s and its frame is offered to the queue: the consumer takes a
\* frame with a lap time as a completed lap.  Whether the queue has room for it decides
\* nothing here; LapPipeline follows the frame.
PushFrame(s) ==
    /\ states_' = [states_ EXCEPT ![car] = s]
    /\ reported' = IF s.lap_time > 0
                     THEN [reported EXCEPT ![car] =
                             [laps |-> @.laps + 1, time |-> @.time + s.lap_time]]
                     ELSE reported

\* Fault: the lap marker of the tick of pit entry is pushed again in the pits.
InPitKeepsMarker(s) ==
    [s EXCEPT !.pit_timer_ticks = @ - 1, !.frame_in_pit = TRUE, !.speed = PitSpeed]

InPit(s) ==
    [s EXCEPT !.pit_timer_ticks = @ - 1, !.frame_in_pit = TRUE, !.speed = PitSpeed,
              !.lap_time = 0]

\* Fault: the car leaves a tick late.
StopOverLate(s) == s.pit_timer_ticks < 0

StopOver(s) == s.pit_timer_ticks <= 0

LeavePit(s) == [s EXCEPT !.in_pit = FALSE, !.frame_in_pit = FALSE, !.pit_stops = @ + 1]

\* handle_pit()
HandlePit ==
    /\ pc = "cars" /\ states_[car].in_pit
    /\ LET s == InPit(states_[car]) IN PushFrame(IF StopOver(s) THEN LeavePit(s) ELSE s)
    /\ NextCar
    /\ UNCHANGED <<race, stop_requested, ticks, pit_since, lap_before>>

\* The car's state after the speed calculation and the distance of the tick, the
\* previous lap marker cleared.
Moved(own) ==
    LET s == states_[car]
        speed == Min({own + (IF s.drs_active THEN DrsBoost ELSE 0), MaxSpeed})
    IN [s EXCEPT !.speed = speed, !.distance_in_lap = @ + speed, !.lap_time = 0]

\* The car drives without reaching the line.
Drive(own) ==
    /\ pc = "cars" /\ ~states_[car].in_pit
    /\ Moved(own).distance_in_lap < LapLength
    /\ PushFrame(Moved(own))
    /\ NextCar
    /\ UNCHANGED <<race, stop_requested, ticks, pit_since, lap_before>>

\* The state of a car that has crossed the line; its lap time is measured.
NewLap(s) ==
    LET ms == ticks - s.lap_start IN
    [s EXCEPT !.distance_in_lap = @ - LapLength, !.lap = @ + 1,
              !.lap_start = ticks, !.lap_time = ms,
              !.best_lap = IF Better(@, ms) THEN ms ELSE @]

\* Fault: the one stop is not remembered.
ShouldPitAgain(s, worn) == s.lap >= FirstPitLap /\ worn

ShouldPit(s, worn) == ~s.has_completed_pit /\ s.lap >= FirstPitLap /\ worn

EnterPit(s) == [s EXCEPT !.in_pit = TRUE, !.frame_in_pit = TRUE, !.has_completed_pit = TRUE,
                         !.pit_timer_ticks = PIT_STOP_TICKS]

RaceLap(s) == Max({s.lap, race_lap_})

\* Fault: the race ends as the last lap begins.
FinishesEarly(s) == s.lap >= TOTAL_LAPS /\ s.position = 1

\* position is the one the previous tick assigned.
Finishes(s) == s.lap > TOTAL_LAPS /\ s.position = 1

CompleteLap(own, worn) ==
    /\ pc = "cars" /\ ~states_[car].in_pit
    /\ Moved(own).distance_in_lap >= LapLength
    /\ LET s == NewLap(Moved(own)) IN
         /\ IF ShouldPit(s, worn)
              THEN PushFrame(EnterPit(s)) /\ pit_since' = [pit_since EXCEPT ![car] = ticks]
              ELSE PushFrame(s) /\ UNCHANGED pit_since
         /\ race_lap_' = RaceLap(s)
         /\ race_finished_' = (race_finished_ \/ Finishes(s))
    /\ NextCar
    /\ UNCHANGED <<stop_requested, ticks, lap_before>>

-----------------------------------------------------------------------------
\* update_positions_and_drs()

Travelled(c) == states_[c].lap * LapLength + states_[c].distance_in_lap

\* Fault: the laps are left out of the comparison.
AheadInLap(c, d) ==
    LET Distance(e) == states_[e].distance_in_lap
    IN Distance(c) > Distance(d) \/ (Distance(c) = Distance(d) /\ c < d)

\* stable_sort by the distance travelled: cars that are level stay in grid order.
Ahead(c, d) == Travelled(c) > Travelled(d) \/ (Travelled(c) = Travelled(d) /\ c < d)

Position(c) == 1 + Cardinality({d \in Car : Ahead(d, c)})

(* A car's gap to the leader is the distance over the average of their two    *)
(* speeds; DRS is given if the gap is less than a second more than the gap of *)
(* the car one position ahead.  Both fractions are multiplied out.            *)
WithinASecond(c, ahead, leader) ==
    LET Distance(d) == Travelled(leader) - Travelled(d)
        Speed(d) == states_[leader].speed + states_[d].speed
    IN 2 * SIM_S_PER_TICK * (Distance(c) * Speed(ahead) - Distance(ahead) * Speed(c))
         < Speed(c) * Speed(ahead)

Drs(c) ==
    \E ahead, leader \in Car :
      /\ Position(leader) = 1 /\ Position(c) = Position(ahead) + 1
      /\ WithinASecond(c, ahead, leader)

UpdatePositionsAndDrs ==
    /\ pc = "positions"
    /\ states_' = [c \in Car |-> [states_[c] EXCEPT !.position = Position(c),
                                                    !.drs_active = Drs(c)]]
    /\ pc' = "on_tick"
    /\ UNCHANGED <<race, stop_requested, car, ticks, history>>

\* on_tick_(states_), then the sleep
OnTick ==
    /\ pc = "on_tick"
    /\ pc' = "loop"
    /\ UNCHANGED <<states_, race, stop_requested, car, ticks, history>>

Next ==
    \/ BeginTick \/ Exit \/ Stop
    \/ HandlePit
    \/ \E own \in Speeds : Drive(own)
    \/ \E own \in Speeds, worn \in BOOLEAN : CompleteLap(own, worn)
    \/ UpdatePositionsAndDrs
    \/ OnTick

Spec == Init /\ [][Next]_vars

-----------------------------------------------------------------------------
DriverState ==
    [position : Car, distance_in_lap : 0 .. LapLength - 1, lap : Nat \ {0},
     speed : 0 .. MaxSpeed, drs_active : BOOLEAN,
     lap_time : Nat, lap_start : Nat, best_lap : Nat,
     in_pit : BOOLEAN, frame_in_pit : BOOLEAN, pit_timer_ticks : 0 .. PIT_STOP_TICKS,
     has_completed_pit : BOOLEAN, pit_stops : Nat]

TypeOK ==
    /\ states_ \in [Car -> DriverState]
    /\ race_lap_ \in Nat \ {0} /\ race_finished_ \in BOOLEAN /\ stop_requested \in BOOLEAN
    /\ pc \in {"loop", "cars", "positions", "on_tick", "exited"}
    /\ car \in Car /\ ticks \in 0 .. MaxTicks
    /\ reported \in [Car -> [laps : Nat, time : Nat]]
    /\ pit_since \in [Car -> Nat] /\ lap_before \in Nat \ {0}

(* Every completed lap is reported in exactly one of the frames offered to    *)
(* the queue (which may refuse it) although the frame is reused tick after    *)
(* tick and car in the pits or not, and the lap times add up to the time of   *)
(* the last crossing of the line (the marker is cleared at                    *)
(* telemetry_generator.cpp:74-76 and :171-173).                               *)
EveryLapReportedOnce ==
    \A c \in Car : /\ reported[c].laps = states_[c].lap - 1
                   /\ reported[c].time = states_[c].lap_start

(* A stop lasts PIT_STOP_TICKS ticks, during which the car does not move.     *)
StopLastsItsTicks ==
    [][\A c \in Car : states_[c].in_pit =>
         /\ Travelled(c)' = Travelled(c)
         /\ states_[c].in_pit # states_'[c].in_pit => ticks - pit_since[c] = PIT_STOP_TICKS]_vars

(* The standings given to on_tick: the positions are a permutation in which   *)
(* nobody is placed behind a car that has travelled less, and the race lap is *)
(* the lap the first car is in.                                               *)
StandingsRankTheCars ==
    pc = "on_tick" =>
      /\ {states_[c].position : c \in Car} = Car
      /\ \A c, d \in Car :
           states_[c].position < states_[d].position => Travelled(c) >= Travelled(d)
      /\ \A c \in Car : states_[c].position = 1 => states_[c].lap = race_lap_

(* A finished race has a first car that has completed all its laps, although  *)
(* the finish is decided with the positions of the tick before.               *)
WinnerHasDoneAllLaps ==
    (race_finished_ /\ pc \in {"on_tick", "loop", "exited"}) =>
      \A c \in Car : states_[c].position = 1 => states_[c].lap > TOTAL_LAPS

\* The last tick that has moved the car, and where it is with its stop.
Reached(c) == IF pc = "cars" /\ c >= car THEN ticks - 1 ELSE ticks
StopOf(c) == IF states_[c].in_pit THEN "in"
             ELSE IF states_[c].has_completed_pit THEN "after" ELSE "before"

(* The callback may rely on TickSource: every car is brought up to the tick   *)
(* before it is called, nothing moves while it runs, a car stops at most      *)
(* once, the race lap never skips one, and a stop request or the finish takes *)
(* effect between ticks.                                                      *)
Source == INSTANCE TickSource WITH
    Drivers <- Cars, tick <- ticks, lap <- race_lap_, driver <- car,
    pc <- CASE pc = "cars" -> "drive" [] pc = "positions" -> "on_tick" [] OTHER -> pc,
    states_ <- [c \in Car |-> [tick |-> Reached(c), stop |-> StopOf(c)]]
ImplementsTickSource == Source!Spec

(* The rendering and the summary in main.cpp:136 and :180 present the race    *)
(* lap as one of TOTAL_LAPS ("Lap n/TOTAL_LAPS", "FINISHED after n laps").    *)
RaceLapIsOneOfTheRace == pc = "on_tick" => race_lap_ <= TOTAL_LAPS

(* telemetry_generator.cpp:231: "DRS: enabled if within 1 second of the car   *)
(* directly ahead".  A car that could not cover its distance to that car in a *)
(* second, not even at MaxSpeed, is not within one.                           *)
DrsWithinOneSecond ==
    pc = "on_tick" =>
      \A c, d \in Car :
        (states_[c].drs_active /\ states_[c].position = states_[d].position + 1) =>
          SIM_S_PER_TICK * (Travelled(d) - Travelled(c)) <= MaxSpeed
=============================================================================
