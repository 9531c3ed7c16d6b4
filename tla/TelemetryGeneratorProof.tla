------------------------ MODULE TelemetryGeneratorProof ------------------------
(***************************************************************************)
(* Proofs about TelemetryGenerator for any number of cars and laps, any      *)
(* track, speeds and DRS.  The inductive invariant says what a tick has done *)
(* so far: to the cars before `car`, to the others, and to the race lap.     *)
(***************************************************************************)
EXTENDS TelemetryGenerator, FiniteSetTheorems, TLAPS

\* A car's laps and the time of its last crossing of the line are what its frames have
\* reported, and it crosses the line once a tick at most.
LapsAreReported ==
    \A c \in Car :
      /\ reported[c] = [laps |-> states_[c].lap - 1, time |-> states_[c].lap_start]
      /\ states_[c].lap_start <= Reached(c)

\* A car in the pits has been there since the tick that its timer tells.
StopsAreTimed ==
    \A c \in Car : states_[c].in_pit =>
      /\ states_[c].has_completed_pit
      /\ states_[c].pit_timer_ticks > 0
      /\ states_[c].pit_timer_ticks = PIT_STOP_TICKS - (Reached(c) - pit_since[c])

\* The race lap is the last lap that a car is in.
RaceLapIsLast ==
    /\ \A c \in Car : states_[c].lap <= race_lap_
    /\ \E c \in Car : states_[c].lap = race_lap_

\* Within a tick the race lap grows once at most: no car that is still to be moved is
\* further than the race was when the tick began.
RaceLapGrowsOnce ==
    pc = "cars" =>
      /\ race_lap_ \in {lap_before, lap_before + 1}
      /\ \A c \in car .. Cars : states_[c].lap <= lap_before

\* A race is finished by a car in a lap after the last.
FinishIsLate == race_finished_ => race_lap_ > TOTAL_LAPS

\* Outside tick() the positions are those of the distances travelled.
PositionsAreRanks ==
    pc \in {"loop", "on_tick", "exited"} => \A c \in Car : states_[c].position = Position(c)

RaceInv ==
    /\ TypeOK /\ LapsAreReported /\ StopsAreTimed
    /\ RaceLapIsLast /\ RaceLapGrowsOnce /\ FinishIsLate /\ PositionsAreRanks

(***************************************************************************)
(* HandlePit, Drive and CompleteLap are one kind of step: the car at which  *)
(* the tick is gets a new state.  s says which, o is the one before.        *)
(***************************************************************************)
KeepsLap(o, s) ==
    /\ s.lap = o.lap /\ s.lap_start = o.lap_start /\ s.lap_time = 0

CompletesLap(o, s) ==
    /\ ~o.in_pit
    /\ s.lap = o.lap + 1 /\ s.lap_start = ticks /\ s.lap_time = ticks - o.lap_start

StaysOut(o, s) ==
    ~o.in_pit /\ ~s.in_pit /\ s.has_completed_pit = o.has_completed_pit

GoesIn(o, s) ==
    /\ ~o.in_pit /\ s.in_pit
    /\ ~o.has_completed_pit /\ s.has_completed_pit
    /\ s.pit_timer_ticks = PIT_STOP_TICKS

IsServed(o, s) ==
    /\ o.in_pit
    /\ s.has_completed_pit = o.has_completed_pit
    /\ s.lap = o.lap /\ s.distance_in_lap = o.distance_in_lap
    /\ s.pit_timer_ticks = o.pit_timer_ticks - 1
    /\ s.in_pit <=> s.pit_timer_ticks > 0

CarMove(s) ==
    LET o == states_[car] IN
    /\ pc = "cars" /\ s \in DriverState
    /\ PushFrame(s) /\ NextCar
    /\ \/ KeepsLap(o, s) /\ UNCHANGED race
       \/ /\ CompletesLap(o, s)
          /\ race_lap_' = RaceLap(s)
          /\ race_finished_' = (race_finished_ \/ Finishes(s))
    /\ \/ (StaysOut(o, s) \/ IsServed(o, s)) /\ UNCHANGED pit_since
       \/ GoesIn(o, s) /\ pit_since' = [pit_since EXCEPT ![car] = ticks]
    /\ UNCHANGED <<stop_requested, ticks, lap_before>>

-----------------------------------------------------------------------------
\* The smaller and the larger of two numbers.
LEMMA MinMaxOfTwo ==
    ASSUME NEW a \in Int, NEW b \in Int
    PROVE  /\ Min({a, b}) = IF a <= b THEN a ELSE b
           /\ Max({a, b}) = IF a >= b THEN a ELSE b
<1>1. Min({a, b}) \in {a, b} /\ \A y \in {a, b} : Min({a, b}) =< y
  <2>1. \E x \in {a, b} : \A y \in {a, b} : x =< y
    OBVIOUS
  <2> QED
    BY <2>1 DEF Min
<1>2. Max({a, b}) \in {a, b} /\ \A y \in {a, b} : Max({a, b}) >= y
  <2>1. \E x \in {a, b} : \A y \in {a, b} : x >= y
    OBVIOUS
  <2> QED
    BY <2>1 DEF Max
<1> QED
  BY <1>1, <1>2

\* The race lap that a car in a new lap makes.
LEMMA RaceLapValue ==
    ASSUME TypeOK, NEW s \in DriverState
    PROVE  RaceLap(s) = IF s.lap >= race_lap_ THEN s.lap ELSE race_lap_
<1>1. s.lap \in Int /\ race_lap_ \in Int
  BY DEF TypeOK, DriverState
<1>2. Max({s.lap, race_lap_}) = IF s.lap >= race_lap_ THEN s.lap ELSE race_lap_
  BY <1>1, MinMaxOfTwo
<1> QED
  BY <1>2 DEF RaceLap

\* A product with a natural number is monotone.
LEMMA ProductMonotone ==
    ASSUME NEW a \in Nat, NEW b \in Nat, NEW s \in Nat, a <= b
    PROVE  /\ a * s \in Nat /\ b * s \in Nat
           /\ a * s <= b * s
<1>1. b * s = a * s + (b - a) * s
  OBVIOUS
<1>2. (b - a) * s \in Nat /\ a * s \in Nat
  OBVIOUS
<1> QED
  BY <1>1, <1>2

\* The constants as the steps use them.
LEMMA Constants ==
    /\ Cars \in Nat \ {0} /\ LapLength \in Nat \ {0} /\ Stagger \in Nat
    /\ MaxSpeed \in 1 .. LapLength /\ PitSpeed \in 1 .. MaxSpeed
    /\ PIT_STOP_TICKS \in Nat \ {0}
    /\ DrsBoost \in Nat /\ TOTAL_LAPS \in Nat /\ FirstPitLap \in Nat /\ MaxTicks \in Nat
    /\ \A own \in Speeds : own \in 1 .. MaxSpeed
BY TelemetryGeneratorAssumption

-----------------------------------------------------------------------------
\* What the operators of a car's part of the tick make of its state.

\* A tick in the pits.
LEMMA InPitState ==
    ASSUME NEW s \in DriverState, s.pit_timer_ticks > 0
    PROVE  /\ InPit(s) \in DriverState
           /\ InPit(s).pit_timer_ticks = s.pit_timer_ticks - 1
           /\ InPit(s).lap_time = 0 /\ InPit(s).in_pit = s.in_pit
           /\ InPit(s).lap = s.lap /\ InPit(s).lap_start = s.lap_start
           /\ InPit(s).distance_in_lap = s.distance_in_lap
           /\ InPit(s).has_completed_pit = s.has_completed_pit
<1>1. s.pit_timer_ticks - 1 \in 0 .. PIT_STOP_TICKS
  BY Constants DEF DriverState
<1>2. PitSpeed \in 0 .. MaxSpeed
  BY Constants
<1>3. InPit(s) \in DriverState
  BY <1>1, <1>2 DEF InPit, DriverState
<1>4. /\ InPit(s).pit_timer_ticks = s.pit_timer_ticks - 1
      /\ InPit(s).lap_time = 0 /\ InPit(s).in_pit = s.in_pit
      /\ InPit(s).lap = s.lap /\ InPit(s).lap_start = s.lap_start
      /\ InPit(s).distance_in_lap = s.distance_in_lap
      /\ InPit(s).has_completed_pit = s.has_completed_pit
  BY DEF InPit, DriverState
<1> QED
  BY <1>3, <1>4

\* The end of a stop.
LEMMA LeavePitState ==
    ASSUME NEW s \in DriverState
    PROVE  /\ LeavePit(s) \in DriverState
           /\ LeavePit(s).in_pit = FALSE
           /\ LeavePit(s).pit_timer_ticks = s.pit_timer_ticks /\ LeavePit(s).lap_time = s.lap_time
           /\ LeavePit(s).lap = s.lap /\ LeavePit(s).lap_start = s.lap_start
           /\ LeavePit(s).distance_in_lap = s.distance_in_lap
           /\ LeavePit(s).has_completed_pit = s.has_completed_pit
<1>1. s.pit_stops + 1 \in Nat
  BY DEF DriverState
<1>2. LeavePit(s) \in DriverState
  BY <1>1 DEF LeavePit, DriverState
<1>3. /\ LeavePit(s).in_pit = FALSE
      /\ LeavePit(s).pit_timer_ticks = s.pit_timer_ticks /\ LeavePit(s).lap_time = s.lap_time
      /\ LeavePit(s).lap = s.lap /\ LeavePit(s).lap_start = s.lap_start
      /\ LeavePit(s).distance_in_lap = s.distance_in_lap
      /\ LeavePit(s).has_completed_pit = s.has_completed_pit
  BY DEF LeavePit, DriverState
<1> QED
  BY <1>2, <1>3

\* The beginning of a stop.
LEMMA EnterPitState ==
    ASSUME NEW s \in DriverState
    PROVE  /\ EnterPit(s) \in DriverState
           /\ EnterPit(s).in_pit /\ EnterPit(s).has_completed_pit
           /\ EnterPit(s).pit_timer_ticks = PIT_STOP_TICKS
           /\ EnterPit(s).lap = s.lap /\ EnterPit(s).lap_start = s.lap_start
           /\ EnterPit(s).lap_time = s.lap_time
           /\ EnterPit(s).position = s.position
<1>1. PIT_STOP_TICKS \in 0 .. PIT_STOP_TICKS
  BY Constants
<1>2. EnterPit(s) \in DriverState
  BY <1>1 DEF EnterPit, DriverState
<1> QED
  BY <1>2 DEF EnterPit, DriverState

\* A tick on the track.
LEMMA MovedState ==
    ASSUME TypeOK, NEW own \in Speeds
    PROVE  LET o == states_[car]
               m == Moved(own) IN
           /\ m.speed \in 1 .. MaxSpeed
           /\ m.distance_in_lap = o.distance_in_lap + m.speed
           /\ m = [o EXCEPT !.speed = m.speed, !.distance_in_lap = m.distance_in_lap,
                            !.lap_time = 0]
<1> DEFINE o == states_[car]
           boosted == own + (IF o.drs_active THEN DrsBoost ELSE 0)
           speed == Min({boosted, MaxSpeed})
<1>1. o \in DriverState
  BY DEF TypeOK
<1>2. own \in 1 .. MaxSpeed /\ DrsBoost \in Nat /\ MaxSpeed \in Nat
  BY Constants
<1>3. boosted \in Int /\ boosted >= 1
  BY <1>2
<1> HIDE DEF boosted
<1>4. speed \in 1 .. MaxSpeed
  BY <1>2, <1>3, MinMaxOfTwo
<1>5. Moved(own) = [o EXCEPT !.speed = speed, !.distance_in_lap = @ + speed, !.lap_time = 0]
  BY DEF Moved, boosted
<1> HIDE DEF speed
<1> QED
  BY <1>1, <1>4, <1>5 DEF DriverState

\* A tick on the track before the line.
LEMMA DrivenState ==
    ASSUME NEW o \in DriverState, NEW s,
           s.speed \in 0 .. MaxSpeed, s.distance_in_lap \in 0 .. LapLength - 1,
           s = [o EXCEPT !.speed = s.speed, !.distance_in_lap = s.distance_in_lap, !.lap_time = 0]
    PROVE  s \in DriverState
<1> DEFINE v == s.speed
           d == s.distance_in_lap
<1>1. v \in 0 .. MaxSpeed /\ d \in 0 .. LapLength - 1
  OBVIOUS
<1>2. s = [o EXCEPT !.speed = v, !.distance_in_lap = d, !.lap_time = 0]
  OBVIOUS
<1> HIDE DEF v, d
<1>3. [o EXCEPT !.speed = v, !.distance_in_lap = d, !.lap_time = 0] \in DriverState
  BY <1>1 DEF DriverState
<1> QED
  BY <1>2, <1>3, Zenon

\* A tick that crosses the line.
LEMMA NewLapState ==
    ASSUME NEW o \in DriverState, ticks \in Nat, o.lap_start < ticks,
           NEW v \in 0 .. MaxSpeed, NEW d \in Int, d - LapLength \in 0 .. LapLength - 1
    PROVE  LET m == [o EXCEPT !.speed = v, !.distance_in_lap = d, !.lap_time = 0]
               n == NewLap(m) IN
           /\ n \in DriverState
           /\ n.lap = o.lap + 1 /\ n.lap_start = ticks /\ n.lap_time = ticks - o.lap_start
           /\ n.position = o.position
           /\ n.in_pit = o.in_pit /\ n.has_completed_pit = o.has_completed_pit
<1> DEFINE m == [o EXCEPT !.speed = v, !.distance_in_lap = d, !.lap_time = 0]
           ms == ticks - o.lap_start
           best == IF Better(o.best_lap, ms) THEN ms ELSE o.best_lap
<1>1. ms \in Nat /\ o.lap + 1 \in Nat \ {0}
  BY DEF DriverState
<1>2. best \in Nat
  BY <1>1 DEF DriverState
<1>3. /\ m.distance_in_lap = d /\ m.lap = o.lap /\ m.lap_start = o.lap_start
      /\ m.best_lap = o.best_lap
  BY DEF DriverState
<1>4. NewLap(m) = [o EXCEPT !.speed = v, !.distance_in_lap = d - LapLength,
                            !.lap_time = ms, !.lap = o.lap + 1, !.lap_start = ticks,
                            !.best_lap = best]
  BY <1>3 DEF NewLap, DriverState
<1> HIDE DEF m, ms, best
<1>5. ASSUME NEW k \in 0 .. LapLength - 1, NEW lap \in Nat \ {0}, NEW t \in Nat, NEW b \in Nat
      PROVE  [o EXCEPT !.speed = v, !.distance_in_lap = k, !.lap_time = t, !.lap = lap,
                       !.lap_start = ticks, !.best_lap = b] \in DriverState
  BY DEF DriverState
<1>6. NewLap(m) \in DriverState
  <2>1. d - LapLength \in 0 .. LapLength - 1 /\ o.lap + 1 \in Nat \ {0} /\ ms \in Nat /\ best \in Nat
    BY <1>1, <1>2 DEF DriverState
  <2>2. [o EXCEPT !.speed = v, !.distance_in_lap = d - LapLength, !.lap_time = ms,
                  !.lap = o.lap + 1, !.lap_start = ticks, !.best_lap = best] \in DriverState
    BY <2>1, <1>5, Zenon
  <2> QED
    BY <1>4, <2>2, Zenon
<1>7. /\ NewLap(m).lap = o.lap + 1 /\ NewLap(m).lap_start = ticks /\ NewLap(m).lap_time = ms
      /\ NewLap(m).position = o.position
      /\ NewLap(m).in_pit = o.in_pit /\ NewLap(m).has_completed_pit = o.has_completed_pit
  BY <1>4 DEF DriverState
<1> QED
  BY <1>6, <1>7 DEF m, ms, best

-----------------------------------------------------------------------------
\* A car's part of the tick (handle_pit(), or the rest of the loop's body).

\* In the pits, the timer runs and the lap does not.
LEMMA HandlePitMoves ==
    ASSUME RaceInv, HandlePit
    PROVE  \E s : CarMove(s)
<1> DEFINE o == states_[car]
           p == InPit(o)
           s == IF StopOver(p) THEN LeavePit(p) ELSE p
<1>1. o \in DriverState /\ o.in_pit /\ car \in Car /\ pc = "cars"
  BY DEF RaceInv, TypeOK, HandlePit
<1>2. o.has_completed_pit /\ o.pit_timer_ticks > 0 /\ o.pit_timer_ticks \in Nat
  BY <1>1 DEF RaceInv, StopsAreTimed, DriverState
<1>3. PushFrame(s) /\ NextCar /\ UNCHANGED <<race, stop_requested, ticks, pit_since, lap_before>>
  BY DEF HandlePit
<1>4. /\ p \in DriverState /\ p.pit_timer_ticks = o.pit_timer_ticks - 1
      /\ p.lap_time = 0 /\ p.in_pit
      /\ p.lap = o.lap /\ p.lap_start = o.lap_start
      /\ p.distance_in_lap = o.distance_in_lap /\ p.has_completed_pit = o.has_completed_pit
  BY <1>1, <1>2, InPitState
<1> HIDE DEF o, p
<1>5. /\ s \in DriverState /\ s.pit_timer_ticks = o.pit_timer_ticks - 1
      /\ s.lap_time = 0 /\ (s.in_pit <=> s.pit_timer_ticks > 0)
      /\ s.lap = o.lap /\ s.lap_start = o.lap_start
      /\ s.distance_in_lap = o.distance_in_lap /\ s.has_completed_pit = o.has_completed_pit
  <2>1. CASE StopOver(p)
    <3>1. s = LeavePit(p) /\ ~(p.pit_timer_ticks > 0)
      BY <2>1, <1>2, <1>4 DEF StopOver
    <3> QED
      BY <3>1, <1>4, LeavePitState
  <2>2. CASE ~StopOver(p)
    <3>1. s = p /\ p.pit_timer_ticks > 0
      BY <2>2, <1>2, <1>4 DEF StopOver
    <3> QED
      BY <3>1, <1>4
  <2> QED
    BY <2>1, <2>2
<1> HIDE DEF s
<1>6. KeepsLap(o, s) /\ IsServed(o, s)
  BY <1>1, <1>5 DEF KeepsLap, IsServed
<1>7. CarMove(s)
  BY <1>1, <1>3, <1>5, <1>6 DEF CarMove, race, o
<1> QED
  BY <1>7

\* A car that does not reach the line keeps its lap.
LEMMA DriveMoves ==
    ASSUME RaceInv, NEW own \in Speeds, Drive(own)
    PROVE  \E s : CarMove(s)
<1> DEFINE o == states_[car]
           s == Moved(own)
<1>1. o \in DriverState /\ ~o.in_pit /\ car \in Car /\ pc = "cars"
  BY DEF RaceInv, TypeOK, Drive
<1>2. /\ s.speed \in 1 .. MaxSpeed /\ s.distance_in_lap = o.distance_in_lap + s.speed
      /\ s = [o EXCEPT !.speed = s.speed, !.distance_in_lap = s.distance_in_lap, !.lap_time = 0]
  BY MovedState DEF RaceInv
<1>3. s.distance_in_lap < LapLength
  BY DEF Drive
<1>4. PushFrame(s) /\ NextCar /\ UNCHANGED <<race, stop_requested, ticks, pit_since, lap_before>>
  BY DEF Drive
<1> HIDE DEF s
<1>5. s.distance_in_lap \in 0 .. LapLength - 1 /\ s.speed \in 0 .. MaxSpeed
  BY <1>1, <1>2, <1>3, Constants DEF DriverState
<1>6. s \in DriverState
  <2> HIDE DEF o
  <2> QED
    BY <1>1, <1>2, <1>5, DrivenState, Zenon
<1>7. KeepsLap(o, s) /\ StaysOut(o, s)
  BY <1>1, <1>2 DEF KeepsLap, StaysOut, DriverState
<1>8. CarMove(s)
  BY <1>1, <1>4, <1>6, <1>7 DEF CarMove, race
<1> QED
  BY <1>8

\* A car that reaches the line completes its lap, and may turn into the pits once.
LEMMA CompleteLapMoves ==
    ASSUME RaceInv, NEW own \in Speeds, NEW worn \in BOOLEAN, CompleteLap(own, worn)
    PROVE  \E s : CarMove(s)
<1> DEFINE o == states_[car]
           m == Moved(own)
           n == NewLap(m)
<1>1. o \in DriverState /\ ~o.in_pit /\ car \in Car /\ pc = "cars" /\ ticks \in Nat
  BY DEF RaceInv, TypeOK, CompleteLap
<1>2. /\ m.speed \in 1 .. MaxSpeed /\ m.distance_in_lap = o.distance_in_lap + m.speed
      /\ m = [o EXCEPT !.speed = m.speed, !.distance_in_lap = m.distance_in_lap, !.lap_time = 0]
  BY MovedState DEF RaceInv
<1>3. m.distance_in_lap >= LapLength
  BY DEF CompleteLap
<1>4. o.lap_start < ticks
  <2>1. Reached(car) = ticks - 1
    BY <1>1 DEF Reached, Car
  <2>2. o.lap_start <= Reached(car)
    BY <1>1 DEF RaceInv, LapsAreReported
  <2>3. o.lap_start \in Nat
    BY <1>1 DEF DriverState
  <2> QED
    BY <2>1, <2>2, <2>3, <1>1
<1>5. NextCar /\ UNCHANGED <<stop_requested, ticks, lap_before>>
      /\ race_lap_' = RaceLap(n) /\ race_finished_' = (race_finished_ \/ Finishes(n))
  BY DEF CompleteLap
<1>6. IF ShouldPit(n, worn)
        THEN PushFrame(EnterPit(n)) /\ pit_since' = [pit_since EXCEPT ![car] = ticks]
        ELSE PushFrame(n) /\ UNCHANGED pit_since
  BY DEF CompleteLap
<1> HIDE DEF m
<1>7. /\ m.distance_in_lap \in Int /\ m.speed \in 0 .. MaxSpeed
      /\ m.distance_in_lap - LapLength \in 0 .. LapLength - 1
  BY <1>1, <1>2, <1>3, Constants DEF DriverState
<1>8. /\ n \in DriverState
      /\ n.lap = o.lap + 1 /\ n.lap_start = ticks /\ n.lap_time = ticks - o.lap_start
      /\ n.position = o.position
      /\ n.in_pit = o.in_pit /\ n.has_completed_pit = o.has_completed_pit
  <2> HIDE DEF o
  <2> DEFINE v == m.speed
             d == m.distance_in_lap
  <2>1. m = [o EXCEPT !.speed = v, !.distance_in_lap = d, !.lap_time = 0]
    BY <1>2
  <2> HIDE DEF v, d
  <2>2. v \in 0 .. MaxSpeed /\ d \in Int /\ d - LapLength \in 0 .. LapLength - 1
    BY <1>7 DEF v, d
  <2> QED
    BY <2>1, <2>2, <1>1, <1>4, NewLapState
<1> HIDE DEF n
<1>9. CASE ShouldPit(n, worn)
  <2> DEFINE e == EnterPit(n)
  <2>1. /\ e \in DriverState
        /\ e.lap = n.lap /\ e.lap_start = n.lap_start /\ e.lap_time = n.lap_time
        /\ e.position = n.position
        /\ e.in_pit /\ e.has_completed_pit /\ e.pit_timer_ticks = PIT_STOP_TICKS
    BY <1>8, EnterPitState
  <2>2. PushFrame(e) /\ pit_since' = [pit_since EXCEPT ![car] = ticks]
    BY <1>6, <1>9
  <2>3. ~o.has_completed_pit
    BY <1>8, <1>9 DEF ShouldPit
  <2> HIDE DEF e
  <2>4. CompletesLap(o, e) /\ GoesIn(o, e)
    BY <1>1, <1>8, <2>1, <2>3 DEF CompletesLap, GoesIn
  <2>5. race_lap_' = RaceLap(e) /\ race_finished_' = (race_finished_ \/ Finishes(e))
    BY <1>5, <2>1 DEF RaceLap, Finishes
  <2>6. CarMove(e)
    BY <1>1, <1>5, <2>1, <2>2, <2>4, <2>5 DEF CarMove
  <2> QED
    BY <2>6
<1>10. CASE ~ShouldPit(n, worn)
  <2>1. PushFrame(n) /\ UNCHANGED pit_since
    BY <1>6, <1>10
  <2>2. CompletesLap(o, n) /\ StaysOut(o, n)
    BY <1>1, <1>8 DEF CompletesLap, StaysOut
  <2>3. CarMove(n)
    BY <1>1, <1>5, <1>8, <2>1, <2>2 DEF CarMove
  <2> QED
    BY <2>3
<1> QED
  BY <1>9, <1>10

-----------------------------------------------------------------------------
\* The kinds of steps there are, and what the cars' moves do to the rest of the state.

\* A step that moves no car and begins no tick.
ControlStep ==
    /\ UNCHANGED <<states_, race_lap_, race_finished_, car, ticks, history>>
    /\ stop_requested' \in BOOLEAN
    /\ pc' = pc \/ (pc \in {"loop", "on_tick"} /\ pc' \in {"loop", "exited"})

\* Every step is a car's move, the begin of a tick, the update of the positions or control.
LEMMA StepCases ==
    ASSUME RaceInv, [Next]_vars
    PROVE  (\E s : CarMove(s)) \/ BeginTick \/ UpdatePositionsAndDrs \/ ControlStep
<1>1. CASE HandlePit
  BY <1>1, HandlePitMoves
<1>2. CASE \E own \in Speeds : Drive(own)
  BY <1>2, DriveMoves
<1>3. CASE \E own \in Speeds, worn \in BOOLEAN : CompleteLap(own, worn)
  BY <1>3, CompleteLapMoves
<1>4. CASE Exit \/ Stop \/ OnTick \/ UNCHANGED vars
  BY <1>4 DEF RaceInv, TypeOK, ControlStep, Exit, Stop, OnTick, vars, race, at, history
<1> QED
  BY <1>1, <1>2, <1>3, <1>4 DEF Next

\* A move is of one car, which has then reached the tick.
LEMMA MoveEffect ==
    ASSUME TypeOK, NEW s, CarMove(s)
    PROVE  /\ car \in Car /\ states_[car] \in DriverState /\ s \in DriverState
           /\ states_' \in [Car -> DriverState]
           /\ states_'[car] = s /\ \A c \in Car \ {car} : states_'[c] = states_[c]
           /\ Reached(car) = ticks - 1
           /\ \A c \in Car : Reached(c)' = IF c = car THEN ticks ELSE Reached(c)
<1>1. car \in Car /\ pc = "cars" /\ ticks' = ticks
  BY DEF TypeOK, CarMove
<1>2. Cars \in Nat /\ \A c \in Car : c \in Nat /\ c <= Cars
  BY Constants DEF Car
<1>3. /\ states_' \in [Car -> DriverState]
      /\ states_'[car] = s /\ \A c \in Car \ {car} : states_'[c] = states_[c]
  <2>1. states_' = [states_ EXCEPT ![car] = s] /\ s \in DriverState
    BY DEF CarMove, PushFrame
  <2> QED
    BY <1>1, <2>1 DEF TypeOK
<1>4. Reached(car) = ticks - 1
  BY <1>1, <1>2 DEF Reached
<1>5. s \in DriverState /\ states_[car] \in DriverState
  BY <1>1 DEF CarMove, TypeOK
<1>6. ASSUME NEW c \in Car
      PROVE  Reached(c)' = IF c = car THEN ticks ELSE Reached(c)
  <2>1. c \in Nat /\ c <= Cars /\ car \in Nat /\ car <= Cars
    BY <1>1, <1>2
  <2>2. CASE car < Cars
    <3>1. car' = car + 1 /\ pc' = "cars"
      BY <1>1, <2>2 DEF CarMove, NextCar
    <3>2. Reached(c)' = IF c >= car + 1 THEN ticks - 1 ELSE ticks
      BY <1>1, <3>1 DEF Reached
    <3>3. Reached(c) = IF c >= car THEN ticks - 1 ELSE ticks
      BY <1>1 DEF Reached
    <3> QED
      BY <2>1, <3>2, <3>3
  <2>3. CASE ~(car < Cars)
    <3>1. pc' = "positions"
      BY <2>3 DEF CarMove, NextCar
    <3>2. Reached(c)' = ticks
      BY <1>1, <3>1 DEF Reached
    <3>3. Reached(c) = IF c >= car THEN ticks - 1 ELSE ticks
      BY <1>1 DEF Reached
    <3> QED
      BY <1>2, <2>1, <2>3, <3>2, <3>3
  <2> QED
    BY <2>2, <2>3
<1> QED
  BY <1>1, <1>3, <1>4, <1>5, <1>6

\* What a move reports.
LEMMA MoveReports ==
    ASSUME TypeOK, NEW s, CarMove(s)
    PROVE  /\ \A c \in Car \ {car} : reported'[c] = reported[c]
           /\ reported'[car] =
                IF s.lap_time > 0
                  THEN [laps |-> reported[car].laps + 1,
                        time |-> reported[car].time + s.lap_time]
                  ELSE reported[car]
BY DEF TypeOK, CarMove, PushFrame

\* The begin of a tick leaves the cars where they were when the last tick ended.
LEMMA BeginEffect ==
    ASSUME TypeOK, BeginTick
    PROVE  /\ states_' = states_ /\ race_lap_' = race_lap_ /\ race_finished_' = race_finished_
           /\ reported' = reported /\ pit_since' = pit_since
           /\ lap_before' = race_lap_ /\ ticks' = ticks + 1 /\ car' = 1 /\ pc' = "cars"
           /\ \A c \in Car : Reached(c)' = Reached(c)
<1>1. /\ states_' = states_ /\ race_lap_' = race_lap_ /\ race_finished_' = race_finished_
      /\ reported' = reported /\ pit_since' = pit_since
      /\ lap_before' = race_lap_ /\ ticks' = ticks + 1 /\ car' = 1 /\ pc' = "cars"
      /\ pc = "loop"
  BY DEF BeginTick, race
<1>2. \A c \in Car : c >= 1
  BY DEF Car
<1>3. ticks \in Nat
  BY DEF TypeOK
<1>4. \A c \in Car : Reached(c)' = ticks' - 1
  <2>1. \A c \in Car : c >= car'
    BY <1>1, <1>2
  <2> QED
    BY <1>1, <2>1 DEF Reached
<1>5. \A c \in Car : Reached(c) = ticks
  BY <1>1 DEF Reached
<1> QED
  BY <1>1, <1>3, <1>4, <1>5

\* The update of the positions changes these and DRS.
LEMMA PositionsEffect ==
    ASSUME TypeOK, UpdatePositionsAndDrs
    PROVE  /\ UNCHANGED <<race_lap_, race_finished_, stop_requested, car, ticks, history>>
           /\ pc = "positions" /\ pc' = "on_tick"
           /\ \A c \in Car :
                /\ states_'[c] = [states_[c] EXCEPT !.position = Position(c), !.drs_active = Drs(c)]
                /\ states_'[c].position = Position(c)
                /\ states_'[c].lap = states_[c].lap
                /\ states_'[c].distance_in_lap = states_[c].distance_in_lap
                /\ states_'[c].lap_start = states_[c].lap_start
                /\ states_'[c].in_pit = states_[c].in_pit
                /\ states_'[c].has_completed_pit = states_[c].has_completed_pit
                /\ states_'[c].pit_timer_ticks = states_[c].pit_timer_ticks
           /\ \A c \in Car : Reached(c)' = Reached(c)
<1>1. /\ UNCHANGED <<race_lap_, race_finished_, stop_requested, car, ticks, history>>
      /\ pc = "positions" /\ pc' = "on_tick"
  BY DEF UpdatePositionsAndDrs, race
<1>2. \A c \in Car :
        states_'[c] = [states_[c] EXCEPT !.position = Position(c), !.drs_active = Drs(c)]
  BY DEF UpdatePositionsAndDrs
<1>3. ASSUME NEW c \in Car
      PROVE  /\ states_'[c].position = Position(c)
             /\ states_'[c].lap = states_[c].lap
             /\ states_'[c].distance_in_lap = states_[c].distance_in_lap
             /\ states_'[c].lap_start = states_[c].lap_start
             /\ states_'[c].in_pit = states_[c].in_pit
             /\ states_'[c].has_completed_pit = states_[c].has_completed_pit
             /\ states_'[c].pit_timer_ticks = states_[c].pit_timer_ticks
  <2>1. states_[c] \in DriverState
    BY DEF TypeOK
  <2> QED
    BY <1>2, <2>1 DEF DriverState
<1>4. \A c \in Car : Reached(c)' = Reached(c)
  BY <1>1 DEF Reached
<1> QED
  BY <1>1, <1>2, <1>3, <1>4

-----------------------------------------------------------------------------
\* The ranking that update_positions_and_drs() makes.

\* The cars that are ranked before a car.
Before(c) == {d \in Car : Ahead(d, c)}

\* The cars are finitely many, and as many as their numbers say.
LEMMA CarsAreFinite ==
    /\ IsFiniteSet(Car) /\ Cardinality(Car) = Cars
    /\ \A S \in SUBSET Car : IsFiniteSet(S) /\ Cardinality(S) \in Nat
<1>1. Cars \in Nat \ {0} /\ 1 \in Int
  BY Constants
<1>2. IsFiniteSet(Car) /\ Cardinality(Car) = Cars
  BY <1>1, FS_Interval DEF Car
<1> QED
  BY <1>2, FS_Subset, FS_CardinalityType

\* A distance travelled is a number.
LEMMA TravelledType == ASSUME TypeOK PROVE \A c \in Car : Travelled(c) \in Nat
<1>1. SUFFICES ASSUME NEW c \in Car PROVE Travelled(c) \in Nat
  OBVIOUS
<1>2. states_[c].lap \in Nat /\ states_[c].distance_in_lap \in Nat
  BY Constants DEF TypeOK, DriverState
<1>3. LapLength \in Nat
  BY Constants
<1> QED
  BY <1>2, <1>3, ProductMonotone DEF Travelled

\* A car that is in an earlier lap has travelled less.
LEMMA LapsDecide ==
    ASSUME TypeOK, NEW c \in Car, NEW d \in Car, states_[c].lap < states_[d].lap
    PROVE  Travelled(c) < Travelled(d)
<1>1. /\ states_[c].lap \in Nat /\ states_[d].lap \in Nat
      /\ states_[c].distance_in_lap \in Nat /\ states_[c].distance_in_lap < LapLength
      /\ states_[d].distance_in_lap \in Nat /\ LapLength \in Nat
  BY Constants DEF TypeOK, DriverState
<1>2. (states_[c].lap + 1) * LapLength <= states_[d].lap * LapLength
  BY <1>1, ProductMonotone
<1>3. (states_[c].lap + 1) * LapLength = states_[c].lap * LapLength + LapLength
  BY <1>1
<1>4. states_[c].lap * LapLength \in Nat /\ states_[d].lap * LapLength \in Nat
  BY <1>1, ProductMonotone
<1> QED
  BY <1>1, <1>2, <1>3, <1>4 DEF Travelled

\* Who is before whom is a strict total order.
LEMMA AheadIsOrder ==
    ASSUME TypeOK
    PROVE  /\ \A c \in Car : ~Ahead(c, c)
           /\ \A b, c, d \in Car : Ahead(b, c) /\ Ahead(c, d) => Ahead(b, d)
           /\ \A c, d \in Car : c # d => Ahead(c, d) \/ Ahead(d, c)
<1>1. \A c \in Car : Travelled(c) \in Nat /\ c \in Nat
  BY TravelledType DEF Car
<1> QED
  BY <1>1 DEF Ahead

\* A position is one of those there are.
LEMMA PositionType == ASSUME TypeOK PROVE \A c \in Car : Position(c) \in Car
<1>1. SUFFICES ASSUME NEW c \in Car PROVE Position(c) \in Car
  OBVIOUS
<1>2. Before(c) \in SUBSET Car /\ c \notin Before(c)
  BY AheadIsOrder DEF Before
<1>3. Cardinality(Before(c)) \in Nat /\ Cardinality(Before(c)) <= Cars
  BY <1>2, CarsAreFinite, FS_Subset
<1>4. Cardinality(Before(c)) # Cars
  BY <1>1, <1>2, CarsAreFinite, FS_Subset
<1>5. Position(c) = 1 + Cardinality(Before(c))
  BY DEF Position, Before
<1> QED
  BY <1>3, <1>4, <1>5, Constants DEF Car

\* Who is before another has the smaller position.
LEMMA PositionsOrder ==
    ASSUME TypeOK, NEW c \in Car, NEW d \in Car, Ahead(c, d)
    PROVE  Position(c) < Position(d)
<1>1. Before(c) \in SUBSET Before(d) /\ c \in Before(d) /\ c \notin Before(c)
  BY AheadIsOrder DEF Before
<1>2. IsFiniteSet(Before(d)) /\ Cardinality(Before(d)) \in Nat /\ Cardinality(Before(c)) \in Nat
  BY CarsAreFinite DEF Before
<1>3. Cardinality(Before(c)) <= Cardinality(Before(d))
  BY <1>1, <1>2, FS_Subset
<1>4. Cardinality(Before(c)) # Cardinality(Before(d))
  BY <1>1, <1>2, FS_Subset
<1> QED
  BY <1>2, <1>3, <1>4 DEF Position, Before

\* Every position is somebody's: the ranking is injective on finitely many cars.
LEMMA PositionsAreAll == ASSUME TypeOK PROVE {Position(c) : c \in Car} = Car
<1> DEFINE f == [c \in Car |-> Position(c)]
<1>1. f \in [Car -> Car]
  BY PositionType
<1>2. \A c, d \in Car : c # d => Position(c) # Position(d)
  <2>1. SUFFICES ASSUME NEW c \in Car, NEW d \in Car, c # d PROVE Position(c) # Position(d)
    OBVIOUS
  <2>2. Position(c) \in Nat /\ Position(d) \in Nat
    BY PositionType DEF Car
  <2>3. Position(c) < Position(d) \/ Position(d) < Position(c)
    BY <2>1, AheadIsOrder, PositionsOrder
  <2> QED
    BY <2>2, <2>3
<1>3. f \in Injection(Car, Car)
  BY <1>1, <1>2 DEF Injection, IsInjective
<1>4. f \in Surjection(Car, Car)
  BY <1>3, CarsAreFinite, FS_Injection
<1>5. \A p \in Car : \E c \in Car : f[c] = p
  BY <1>4 DEF Surjection
<1> QED
  BY <1>5, PositionType

\* The first car is in the race lap.
LEMMA LeaderIsInRaceLap ==
    ASSUME TypeOK, RaceLapIsLast, NEW c \in Car, Position(c) = 1
    PROVE  states_[c].lap = race_lap_
<1>1. Before(c) = {}
  <2>1. IsFiniteSet(Before(c)) /\ Cardinality(Before(c)) \in Nat
    BY CarsAreFinite DEF Before
  <2>2. Cardinality(Before(c)) = 0
    BY <2>1 DEF Position, Before
  <2> QED
    BY <2>1, <2>2, FS_EmptySet
<1>2. PICK d \in Car : states_[d].lap = race_lap_
  BY DEF RaceLapIsLast
<1>3. ~(Travelled(c) < Travelled(d))
  BY <1>1, <1>2, TravelledType DEF Before, Ahead
<1>4. ~(states_[c].lap < states_[d].lap)
  BY <1>2, <1>3, LapsDecide
<1>5. states_[c].lap \in Nat /\ states_[d].lap \in Nat /\ states_[c].lap <= race_lap_
  BY DEF TypeOK, DriverState, RaceLapIsLast
<1> QED
  BY <1>2, <1>4, <1>5

\* The positions are those of the distances, so they stay while the cars stand.
LEMMA PositionsStay ==
    ASSUME TypeOK, \A c \in Car : /\ states_'[c].lap = states_[c].lap
                                  /\ states_'[c].distance_in_lap = states_[c].distance_in_lap
    PROVE  \A c \in Car : Position(c)' = Position(c)
<1>1. \A c \in Car : Travelled(c)' = Travelled(c)
  BY DEF Travelled
<1>2. ASSUME NEW c \in Car PROVE Before(c)' = Before(c)
  BY <1>1, <1>2 DEF Before, Ahead
<1> QED
  BY <1>2 DEF Position, Before

-----------------------------------------------------------------------------
\* The invariant holds on the grid.
LEMMA InitInv == Init => RaceInv
<1> SUFFICES ASSUME Init PROVE RaceInv
  OBVIOUS
<1>1. \A c \in Car : c \in Nat /\ Cars - c \in Nat /\ Cars - c <= Cars - 1
  BY Constants DEF Car
<1>2. \A c \in Car : (Cars - c) * Stagger \in 0 .. LapLength - 1
  <2>1. SUFFICES ASSUME NEW c \in Car PROVE (Cars - c) * Stagger \in 0 .. LapLength - 1
    OBVIOUS
  <2>2. (Cars - c) * Stagger \in Nat /\ (Cars - c) * Stagger <= (Cars - 1) * Stagger
        /\ (Cars - 1) * Stagger \in Nat
    BY <1>1, Constants, ProductMonotone
  <2>3. (Cars - 1) * Stagger < LapLength /\ LapLength \in Nat
    BY TelemetryGeneratorAssumption
  <2> HIDE TelemetryGeneratorAssumption
  <2> QED
    BY <2>2, <2>3
<1>3. \A c \in Car :
        /\ states_[c].position = c /\ states_[c].distance_in_lap = (Cars - c) * Stagger
        /\ states_[c].lap = 1 /\ states_[c].lap_start = 0
        /\ states_[c].in_pit = FALSE
  BY DEF Init
<1>4. TypeOK
  <2>1. states_ \in [Car -> DriverState]
    <3>1. ASSUME NEW c \in Car
          PROVE  [position |-> c, distance_in_lap |-> (Cars - c) * Stagger, lap |-> 1,
                  speed |-> 0, drs_active |-> FALSE,
                  lap_time |-> 0, lap_start |-> 0, best_lap |-> 0,
                  in_pit |-> FALSE, frame_in_pit |-> FALSE, pit_timer_ticks |-> 0,
                  has_completed_pit |-> FALSE, pit_stops |-> 0] \in DriverState
      <4>1. 0 \in 0 .. MaxSpeed /\ 0 \in 0 .. PIT_STOP_TICKS
        BY Constants
      <4> QED
        BY <1>2, <4>1 DEF DriverState
    <3> QED
      BY <3>1 DEF Init
  <2>2. 1 \in Car /\ 0 \in 0 .. MaxTicks
    BY Constants DEF Car
  <2>3. /\ race_lap_ \in Nat \ {0} /\ race_finished_ \in BOOLEAN /\ stop_requested \in BOOLEAN
        /\ pc \in {"loop", "cars", "positions", "on_tick", "exited"}
        /\ car \in Car /\ ticks \in 0 .. MaxTicks /\ lap_before \in Nat \ {0}
    <3>1. /\ race_lap_ = 1 /\ race_finished_ = FALSE /\ stop_requested = FALSE
          /\ pc = "loop" /\ car = 1 /\ ticks = 0 /\ lap_before = 1
      BY DEF Init
    <3>2. race_finished_ \in BOOLEAN /\ stop_requested \in BOOLEAN
      BY <3>1
    <3>3. /\ race_lap_ \in Nat \ {0} /\ lap_before \in Nat \ {0}
          /\ pc \in {"loop", "cars", "positions", "on_tick", "exited"}
      BY <3>1
    <3>4. car \in Car /\ ticks \in 0 .. MaxTicks
      BY <2>2, <3>1, Zenon
    <3> QED
      BY <3>2, <3>3, <3>4
  <2>4. reported \in [Car -> [laps : Nat, time : Nat]]
    BY DEF Init
  <2>5. pit_since \in [Car -> Nat]
    BY DEF Init
  <2> QED
    BY <2>1, <2>2, <2>3, <2>4, <2>5 DEF TypeOK
<1>5. LapsAreReported /\ StopsAreTimed
  BY <1>3 DEF LapsAreReported, StopsAreTimed, Reached, Init
<1>6. RaceLapIsLast
  <2>1. 1 \in Car
    BY Constants DEF Car
  <2> QED
    BY <1>3, <2>1 DEF RaceLapIsLast, Init
<1>7. RaceLapGrowsOnce /\ FinishIsLate
  BY DEF RaceLapGrowsOnce, FinishIsLate, Init
<1>8. PositionsAreRanks
  <2>1. SUFFICES ASSUME NEW c \in Car PROVE Position(c) = c
    BY <1>3 DEF PositionsAreRanks
  <2>2. \A d \in Car : Travelled(d) = 1 * LapLength + (Cars - d) * Stagger
    BY <1>3 DEF Travelled
  <2>3. ASSUME NEW d \in Car PROVE Ahead(d, c) <=> d < c
    <3>1. /\ (Cars - c) * Stagger \in Nat /\ (Cars - d) * Stagger \in Nat
          /\ c < d => (Cars - d) * Stagger <= (Cars - c) * Stagger
          /\ d < c => (Cars - c) * Stagger <= (Cars - d) * Stagger
      BY <1>1, Constants, ProductMonotone
    <3>2. c \in Nat /\ d \in Nat /\ 1 * LapLength \in Nat
      BY <1>1, Constants
    <3> DEFINE x == (Cars - c) * Stagger
               y == (Cars - d) * Stagger
    <3>3. Travelled(c) = 1 * LapLength + x /\ Travelled(d) = 1 * LapLength + y
      BY <2>2
    <3> HIDE DEF x, y
    <3>4. x \in Nat /\ y \in Nat /\ (c < d => y <= x) /\ (d < c => x <= y)
      BY <3>1 DEF x, y
    <3>5. c = d => x = y
      BY DEF x, y
    <3> QED
      BY <3>2, <3>3, <3>4, <3>5 DEF Ahead
  <2>4. Before(c) = 1 .. (c - 1)
    <3>1. \A d \in Car : d < c <=> d \in 1 .. (c - 1)
      BY <1>1 DEF Car
    <3>2. 1 .. (c - 1) \subseteq Car
      BY Constants DEF Car
    <3> QED
      BY <2>3, <3>1, <3>2 DEF Before
  <2>5. Cardinality(1 .. (c - 1)) = c - 1
    <3>1. c \in Int /\ c >= 1 /\ 1 \in Int /\ c - 1 \in Int
      BY DEF Car
    <3> QED
      BY <3>1, FS_Interval
  <2>6. c \in Nat /\ Position(c) = 1 + Cardinality(Before(c))
    BY <1>1 DEF Position, Before
  <2> QED
    BY <2>4, <2>5, <2>6
<1> QED
  BY <1>4, <1>5, <1>6, <1>7, <1>8 DEF RaceInv

-----------------------------------------------------------------------------
\* Every step preserves the invariant.

\* The types.
LEMMA TypeStep == ASSUME RaceInv, [Next]_vars PROVE TypeOK'
<1>0. TypeOK
  BY DEF RaceInv
<1>1. CASE \E s : CarMove(s)
  <2>1. PICK s : CarMove(s)
    BY <1>1
  <2>2. states_' \in [Car -> DriverState] /\ car \in Car /\ s \in DriverState
    BY <1>0, <2>1, MoveEffect
  <2>3. s.lap \in Nat \ {0} /\ s.lap_time \in Nat
    BY <2>2 DEF DriverState
  <2>4. race_lap_' \in Nat \ {0}
    <3>1. RaceLap(s) = IF s.lap >= race_lap_ THEN s.lap ELSE race_lap_
      BY <1>0, <2>2, RaceLapValue
    <3>2. race_lap_' = race_lap_ \/ race_lap_' = RaceLap(s)
      BY <2>1 DEF CarMove, race
    <3>3. race_lap_ \in Nat \ {0}
      BY <1>0 DEF TypeOK
    <3> QED
      BY <2>3, <3>1, <3>2, <3>3
  <2>5. race_finished_' \in BOOLEAN
    <3>1. CASE UNCHANGED race
      BY <3>1, <1>0 DEF TypeOK, race
    <3>2. CASE race_finished_' = (race_finished_ \/ Finishes(s))
      BY <3>2, Zenon
    <3> QED
      BY <2>1, <3>1, <3>2 DEF CarMove
  <2>6. car' \in Car /\ pc' \in {"cars", "positions"}
    <3>1. NextCar /\ pc = "cars"
      BY <2>1 DEF CarMove
    <3> QED
      BY <2>2, <3>1, Constants DEF NextCar, Car
  <2>7. reported' \in [Car -> [laps : Nat, time : Nat]]
    <3>1. reported[car] \in [laps : Nat, time : Nat]
      BY <1>0, <2>2 DEF TypeOK
    <3>2. [laps |-> reported[car].laps + 1, time |-> reported[car].time + s.lap_time]
            \in [laps : Nat, time : Nat]
      BY <2>3, <3>1
    <3>3. \/ reported' = reported
          \/ reported' = [reported EXCEPT ![car] =
               [laps |-> reported[car].laps + 1, time |-> reported[car].time + s.lap_time]]
      BY <2>1 DEF CarMove, PushFrame
    <3> QED
      BY <1>0, <2>2, <3>2, <3>3 DEF TypeOK
  <2>8. pit_since' \in [Car -> Nat]
    <3>1. pit_since' = pit_since \/ pit_since' = [pit_since EXCEPT ![car] = ticks]
      BY <2>1 DEF CarMove
    <3>2. pit_since \in [Car -> Nat] /\ ticks \in Nat
      BY <1>0 DEF TypeOK
    <3> QED
      BY <2>2, <3>1, <3>2
  <2>9. stop_requested' \in BOOLEAN /\ ticks' \in 0 .. MaxTicks /\ lap_before' \in Nat \ {0}
    BY <1>0, <2>1 DEF CarMove, TypeOK
  <2> QED
    BY <2>2, <2>4, <2>5, <2>6, <2>7, <2>8, <2>9 DEF TypeOK
<1>2. CASE BeginTick
  <2>1. ticks' \in 0 .. MaxTicks /\ stop_requested' = stop_requested
    BY <1>0, <1>2, Constants DEF BeginTick, TypeOK
  <2>2. 1 \in Car
    BY Constants DEF Car
  <2> QED
    BY <1>0, <1>2, <2>1, <2>2, BeginEffect DEF TypeOK
<1>3. CASE UpdatePositionsAndDrs
  <2>1. ASSUME NEW c \in Car
        PROVE  [states_[c] EXCEPT !.position = Position(c), !.drs_active = Drs(c)] \in DriverState
    <3>1. states_[c] \in DriverState /\ Position(c) \in Car
      BY <1>0, PositionType DEF TypeOK
    <3>2. Drs(c) \in BOOLEAN
      BY Zenon DEF Drs
    <3> QED
      BY <3>1, <3>2 DEF DriverState
  <2>2. states_' \in [Car -> DriverState]
    BY <1>3, <2>1 DEF UpdatePositionsAndDrs
  <2> QED
    BY <1>0, <1>3, <2>2, PositionsEffect DEF TypeOK, history
<1>4. CASE ControlStep
  BY <1>0, <1>4 DEF ControlStep, TypeOK, history
<1> QED
  BY <1>1, <1>2, <1>3, <1>4, StepCases

\* What the frames report: a move reports the lap it completes, and no other.
LEMMA LapsStep == ASSUME RaceInv, [Next]_vars PROVE LapsAreReported'
<1>0. TypeOK /\ LapsAreReported
  BY DEF RaceInv
<1>1. CASE \E s : CarMove(s)
  <2>1. PICK s : CarMove(s)
    BY <1>1
  <2>2. SUFFICES ASSUME NEW c \in Car
                 PROVE  /\ reported'[c] = [laps |-> states_'[c].lap - 1,
                                           time |-> states_'[c].lap_start]
                        /\ states_'[c].lap_start <= Reached(c)'
    BY DEF LapsAreReported
  <2>3. CASE c # car
    <3>1. states_'[c] = states_[c] /\ reported'[c] = reported[c] /\ Reached(c)' = Reached(c)
      BY <1>0, <2>1, <2>3, MoveEffect, MoveReports
    <3> QED
      BY <1>0, <3>1 DEF LapsAreReported
  <2>4. CASE c = car
    <3> DEFINE o == states_[car]
    <3>1. /\ o \in DriverState /\ states_'[c] = s /\ s \in DriverState
          /\ Reached(car) = ticks - 1 /\ Reached(c)' = ticks
          /\ ticks \in Nat
      BY <1>0, <2>1, <2>4, MoveEffect DEF TypeOK
    <3>2. /\ reported[car] = [laps |-> o.lap - 1, time |-> o.lap_start]
          /\ o.lap_start <= ticks - 1
      BY <1>0, <2>4, <3>1 DEF LapsAreReported
    <3>3. o.lap_start \in Nat /\ o.lap \in Nat
      BY <3>1 DEF DriverState
    <3>4. reported'[c] = IF s.lap_time > 0
                           THEN [laps |-> reported[car].laps + 1,
                                 time |-> reported[car].time + s.lap_time]
                           ELSE reported[car]
      BY <1>0, <2>1, <2>4, MoveReports
    <3>5. KeepsLap(o, s) \/ CompletesLap(o, s)
      BY <2>1 DEF CarMove
    <3> HIDE DEF o
    <3>6. CASE KeepsLap(o, s)
      <4>1. reported'[c] = reported[car]
        BY <3>4, <3>6 DEF KeepsLap
      <4> QED
        BY <3>1, <3>2, <3>3, <3>6, <4>1 DEF KeepsLap
    <3>7. CASE CompletesLap(o, s)
      <4>1. /\ s.lap = o.lap + 1 /\ s.lap_start = ticks /\ s.lap_time = ticks - o.lap_start
        BY <3>7 DEF CompletesLap
      <4>2. s.lap_time \in Nat /\ s.lap_time > 0 /\ o.lap_start + s.lap_time = ticks
        BY <3>1, <3>2, <3>3, <4>1
      <4>3. reported'[c] = [laps |-> (o.lap - 1) + 1, time |-> o.lap_start + s.lap_time]
        BY <3>2, <3>4, <4>2
      <4>4. (o.lap - 1) + 1 = s.lap - 1
        BY <3>3, <4>1
      <4>5. ticks <= ticks
        BY <3>1
      <4> QED
        BY <3>1, <4>1, <4>2, <4>3, <4>4, <4>5
    <3> QED
      BY <3>5, <3>6, <3>7
  <2> QED
    BY <2>3, <2>4
<1>2. CASE BeginTick
  BY <1>0, <1>2, BeginEffect DEF LapsAreReported
<1>3. CASE UpdatePositionsAndDrs
  <2>1. reported' = reported
    BY <1>3 DEF UpdatePositionsAndDrs, history
  <2> QED
    BY <1>0, <1>3, <2>1, PositionsEffect DEF LapsAreReported
<1>4. CASE ControlStep
  <2>1. states_' = states_ /\ reported' = reported
    BY <1>4 DEF ControlStep, history
  <2>2. \A c \in Car : Reached(c)' = Reached(c)
    BY <1>4 DEF ControlStep, Reached
  <2> QED
    BY <1>0, <2>1, <2>2 DEF LapsAreReported
<1> QED
  BY <1>1, <1>2, <1>3, <1>4, StepCases

\* The timer of a car in the pits tells how long it has been there.
LEMMA StopsStep == ASSUME RaceInv, [Next]_vars PROVE StopsAreTimed'
<1>0. TypeOK /\ StopsAreTimed
  BY DEF RaceInv
<1>1. CASE \E s : CarMove(s)
  <2>1. PICK s : CarMove(s)
    BY <1>1
  <2>2. SUFFICES ASSUME NEW c \in Car, states_'[c].in_pit
                 PROVE  /\ states_'[c].has_completed_pit
                        /\ states_'[c].pit_timer_ticks > 0
                        /\ states_'[c].pit_timer_ticks =
                             PIT_STOP_TICKS - (Reached(c)' - pit_since'[c])
    BY DEF StopsAreTimed
  <2>3. pit_since \in [Car -> Nat] /\ ticks \in Nat /\ PIT_STOP_TICKS \in Nat \ {0}
    BY <1>0, Constants DEF TypeOK
  <2>4. pit_since' = pit_since \/ pit_since' = [pit_since EXCEPT ![car] = ticks]
    BY <2>1 DEF CarMove
  <2>5. CASE c # car
    <3>1. states_'[c] = states_[c] /\ Reached(c)' = Reached(c)
      BY <1>0, <2>1, <2>5, MoveEffect
    <3>2. pit_since'[c] = pit_since[c]
      BY <2>3, <2>4, <2>5
    <3> QED
      BY <1>0, <2>2, <3>1, <3>2 DEF StopsAreTimed
  <2>6. CASE c = car
    <3> DEFINE o == states_[car]
    <3>1. /\ o \in DriverState /\ states_'[c] = s /\ s \in DriverState /\ s.in_pit
          /\ Reached(car) = ticks - 1 /\ Reached(c)' = ticks
      BY <1>0, <2>1, <2>2, <2>6, MoveEffect
    <3>2. \/ (StaysOut(o, s) \/ IsServed(o, s)) /\ pit_since' = pit_since
          \/ GoesIn(o, s) /\ pit_since' = [pit_since EXCEPT ![car] = ticks]
      BY <2>1 DEF CarMove
    <3>3. CASE IsServed(o, s) /\ pit_since' = pit_since
      <4>1. /\ o.has_completed_pit
            /\ o.pit_timer_ticks = PIT_STOP_TICKS - ((ticks - 1) - pit_since[c])
        BY <1>0, <2>6, <3>1, <3>3 DEF StopsAreTimed, IsServed
      <4>2. /\ s.has_completed_pit /\ s.pit_timer_ticks > 0
            /\ s.pit_timer_ticks = o.pit_timer_ticks - 1
        BY <3>1, <3>3, <4>1 DEF IsServed
      <4>3. pit_since'[c] = pit_since[c] /\ pit_since[c] \in Nat
        BY <2>3, <3>3
      <4> QED
        BY <2>3, <3>1, <4>1, <4>2, <4>3
    <3>4. CASE GoesIn(o, s) /\ pit_since' = [pit_since EXCEPT ![car] = ticks]
      <4>1. pit_since'[c] = ticks
        BY <2>3, <2>6, <3>4
      <4>2. s.has_completed_pit /\ s.pit_timer_ticks = PIT_STOP_TICKS
        BY <3>4 DEF GoesIn
      <4> QED
        BY <2>3, <3>1, <4>1, <4>2
    <3>5. CASE StaysOut(o, s)
      BY <3>1, <3>5 DEF StaysOut
    <3> QED
      BY <3>2, <3>3, <3>4, <3>5
  <2> QED
    BY <2>5, <2>6
<1>2. CASE BeginTick
  BY <1>0, <1>2, BeginEffect DEF StopsAreTimed
<1>3. CASE UpdatePositionsAndDrs
  <2>1. pit_since' = pit_since
    BY <1>3 DEF UpdatePositionsAndDrs, history
  <2> QED
    BY <1>0, <1>3, <2>1, PositionsEffect DEF StopsAreTimed
<1>4. CASE ControlStep
  <2>1. states_' = states_ /\ pit_since' = pit_since
    BY <1>4 DEF ControlStep, history
  <2>2. \A c \in Car : Reached(c)' = Reached(c)
    BY <1>4 DEF ControlStep, Reached
  <2> QED
    BY <1>0, <2>1, <2>2 DEF StopsAreTimed
<1> QED
  BY <1>1, <1>2, <1>3, <1>4, StepCases

\* The race lap is the last lap a car is in, and grows by one in a tick at most.
LEMMA RaceLapStep ==
    ASSUME RaceInv, [Next]_vars
    PROVE  RaceLapIsLast' /\ RaceLapGrowsOnce' /\ FinishIsLate'
<1>0. TypeOK /\ RaceLapIsLast /\ RaceLapGrowsOnce /\ FinishIsLate
  BY DEF RaceInv
<1>1. CASE \E s : CarMove(s)
  <2>1. PICK s : CarMove(s)
    BY <1>1
  <2> DEFINE o == states_[car]
  <2>2. /\ car \in Car /\ o \in DriverState /\ s \in DriverState /\ states_'[car] = s
        /\ \A c \in Car \ {car} : states_'[c] = states_[c]
    BY <1>0, <2>1, MoveEffect
  <2>3. /\ o.lap \in Nat /\ s.lap \in Nat /\ race_lap_ \in Nat /\ lap_before \in Nat
        /\ TOTAL_LAPS \in Nat /\ Cars \in Nat
        /\ \A c \in Car : c \in Nat /\ c <= Cars /\ states_[c].lap \in Nat
    <3>1. o.lap \in Nat /\ s.lap \in Nat
      BY <2>2 DEF DriverState
    <3>2. race_lap_ \in Nat /\ lap_before \in Nat /\ TOTAL_LAPS \in Nat /\ Cars \in Nat
      BY <1>0, Constants DEF TypeOK
    <3>3. \A c \in Car : c \in Nat /\ c <= Cars
      BY <3>2 DEF Car
    <3>4. \A c \in Car : states_[c].lap \in Nat
      BY <1>0 DEF TypeOK, DriverState
    <3> QED
      BY <3>1, <3>2, <3>3, <3>4
  <2>4. /\ o.lap <= race_lap_ /\ o.lap <= lap_before
        /\ race_lap_ \in {lap_before, lap_before + 1}
    <3>1. pc = "cars"
      BY <2>1 DEF CarMove
    <3>2. car \in car .. Cars
      BY <2>2, <2>3
    <3> QED
      BY <1>0, <2>2, <3>1, <3>2 DEF RaceLapIsLast, RaceLapGrowsOnce
  <2>5. lap_before' = lap_before /\ pc = "cars"
    BY <2>1 DEF CarMove
  <2>6. \A c \in car' .. Cars : pc' = "cars" => c \in Car \ {car} /\ c \in car .. Cars
    BY <2>1, <2>2, <2>3 DEF CarMove, NextCar, Car
  <2>7. /\ race_lap_' = IF s.lap >= race_lap_ THEN s.lap ELSE race_lap_
        /\ s.lap = o.lap \/ s.lap = o.lap + 1
        /\ race_finished_' => race_finished_ \/ s.lap > TOTAL_LAPS
    <3>1. CASE KeepsLap(o, s) /\ UNCHANGED race
      BY <2>3, <2>4, <3>1 DEF KeepsLap, race
    <3>2. CASE /\ CompletesLap(o, s) /\ race_lap_' = RaceLap(s)
               /\ race_finished_' = (race_finished_ \/ Finishes(s))
      <4>1. s.lap = o.lap + 1
        BY <3>2 DEF CompletesLap
      <4>2. race_finished_' => race_finished_ \/ s.lap > TOTAL_LAPS
        BY <3>2 DEF Finishes
      <4> QED
        BY <1>0, <2>2, <3>2, <4>1, <4>2, RaceLapValue
    <3> QED
      BY <2>1, <3>1, <3>2 DEF CarMove
  <2> HIDE DEF o
  <2>8. RaceLapIsLast'
    <3>1. ASSUME NEW c \in Car PROVE states_'[c].lap <= race_lap_'
      <4>1. CASE c = car
        BY <2>2, <2>3, <2>7, <4>1
      <4>2. CASE c # car
        <5>1. states_'[c].lap = states_[c].lap /\ states_[c].lap <= race_lap_
          BY <1>0, <2>2, <4>2 DEF RaceLapIsLast
        <5> QED
          BY <2>3, <2>7, <5>1
      <4> QED
        BY <4>1, <4>2
    <3>2. \E c \in Car : states_'[c].lap = race_lap_'
      <4>1. CASE s.lap >= race_lap_
        BY <2>2, <2>7, <4>1
      <4>2. CASE ~(s.lap >= race_lap_)
        <5>1. PICK d \in Car : states_[d].lap = race_lap_
          BY <1>0 DEF RaceLapIsLast
        <5>2. d # car
          BY <2>3, <2>7, <4>2, <5>1 DEF o
        <5> QED
          BY <2>2, <2>7, <4>2, <5>1, <5>2
      <4> QED
        BY <4>1, <4>2
    <3> QED
      BY <3>1, <3>2 DEF RaceLapIsLast
  <2>9. RaceLapGrowsOnce'
    <3>1. race_lap_' \in {lap_before, lap_before + 1}
      BY <2>3, <2>4, <2>7
    <3>2. ASSUME NEW c \in car' .. Cars, pc' = "cars" PROVE states_'[c].lap <= lap_before
      <4>1. c \in Car \ {car} /\ c \in car .. Cars
        BY <2>6, <3>2
      <4> QED
        BY <1>0, <2>2, <2>5, <4>1 DEF RaceLapGrowsOnce
    <3> QED
      BY <2>5, <3>1, <3>2 DEF RaceLapGrowsOnce
  <2>10. FinishIsLate'
    <3>1. race_lap_' >= race_lap_ /\ race_lap_' >= s.lap /\ race_lap_' \in Nat
      BY <2>3, <2>7
    <3>2. SUFFICES ASSUME race_finished_' PROVE race_lap_' > TOTAL_LAPS
      BY DEF FinishIsLate
    <3>3. race_finished_ \/ s.lap > TOTAL_LAPS
      BY <2>7, <3>2
    <3>4. race_finished_ => race_lap_ > TOTAL_LAPS
      BY <1>0 DEF FinishIsLate
    <3> QED
      BY <2>3, <3>1, <3>3, <3>4
  <2> QED
    BY <2>8, <2>9, <2>10
<1>2. CASE BeginTick
  <2>1. RaceLapIsLast'
    BY <1>0, <1>2, BeginEffect DEF RaceLapIsLast
  <2>2. RaceLapGrowsOnce'
    <3>1. car' .. Cars = Car
      BY <1>0, <1>2, BeginEffect DEF Car
    <3> QED
      BY <1>0, <1>2, <3>1, BeginEffect DEF RaceLapGrowsOnce, RaceLapIsLast
  <2>3. FinishIsLate'
    BY <1>0, <1>2, BeginEffect DEF FinishIsLate
  <2> QED
    BY <2>1, <2>2, <2>3
<1>3. CASE UpdatePositionsAndDrs
  <2>1. RaceLapIsLast' /\ FinishIsLate'
    <3>1. /\ race_lap_' = race_lap_ /\ race_finished_' = race_finished_
          /\ \A c \in Car : states_'[c].lap = states_[c].lap
      BY <1>0, <1>3, PositionsEffect
    <3>2. RaceLapIsLast'
      BY <1>0, <3>1 DEF RaceLapIsLast
    <3> QED
      BY <1>0, <3>1, <3>2 DEF FinishIsLate
  <2>2. RaceLapGrowsOnce'
    BY <1>0, <1>3, PositionsEffect DEF RaceLapGrowsOnce
  <2> QED
    BY <2>1, <2>2
<1>4. CASE ControlStep
  <2>1. RaceLapIsLast' /\ FinishIsLate'
    BY <1>0, <1>4 DEF ControlStep, RaceLapIsLast, FinishIsLate
  <2>2. RaceLapGrowsOnce'
    BY <1>0, <1>4 DEF ControlStep, RaceLapGrowsOnce, history
  <2> QED
    BY <2>1, <2>2
<1> QED
  BY <1>1, <1>2, <1>3, <1>4, StepCases

\* Between the update of the positions and the next tick they are the ranking.
LEMMA PositionsStep == ASSUME RaceInv, [Next]_vars PROVE PositionsAreRanks'
<1>0. TypeOK /\ PositionsAreRanks
  BY DEF RaceInv
<1>1. CASE \E s : CarMove(s)
  BY <1>1 DEF CarMove, NextCar, PositionsAreRanks
<1>2. CASE BeginTick
  BY <1>0, <1>2, BeginEffect DEF PositionsAreRanks
<1>3. CASE UpdatePositionsAndDrs
  <2>1. \A c \in Car : Position(c)' = Position(c)
    BY <1>0, <1>3, PositionsEffect, PositionsStay
  <2> QED
    BY <1>0, <1>3, <2>1, PositionsEffect DEF PositionsAreRanks
<1>4. CASE ControlStep
  <2>1. states_' = states_
    BY <1>4 DEF ControlStep
  <2>2. \A c \in Car : Position(c)' = Position(c)
    BY <1>0, <2>1, PositionsStay
  <2>3. pc' \in {"loop", "on_tick", "exited"} => pc \in {"loop", "on_tick", "exited"}
    BY <1>4 DEF ControlStep
  <2> QED
    BY <1>0, <2>1, <2>2, <2>3 DEF PositionsAreRanks
<1> QED
  BY <1>1, <1>2, <1>3, <1>4, StepCases

\* The invariant holds throughout the race.
LEMMA Invariance == Spec => []RaceInv
<1>1. ASSUME RaceInv, [Next]_vars PROVE RaceInv'
  BY <1>1, TypeStep, LapsStep, StopsStep, RaceLapStep, PositionsStep DEF RaceInv
<1> QED
  BY InitInv, <1>1, PTL DEF Spec

-----------------------------------------------------------------------------
\* The theorems.

\* Every variable keeps its type: no car stands beyond the line, no pit timer goes below
\* zero, and every position is one of those there are.
THEOREM TypeCorrect == Spec => []TypeOK
<1>1. RaceInv => TypeOK
  BY DEF RaceInv
<1> QED
  BY <1>1, Invariance, PTL

\* The frames report every completed lap once, pit stops or not.
THEOREM LapsReportedOnce == Spec => []EveryLapReportedOnce
<1>1. ASSUME RaceInv PROVE EveryLapReportedOnce
  <2> SUFFICES ASSUME NEW c \in Car
               PROVE  /\ reported[c].laps = states_[c].lap - 1
                      /\ reported[c].time = states_[c].lap_start
    BY DEF EveryLapReportedOnce
  <2>1. reported[c] = [laps |-> states_[c].lap - 1, time |-> states_[c].lap_start]
    BY <1>1 DEF RaceInv, LapsAreReported
  <2> QED
    BY <2>1
<1> QED
  BY <1>1, Invariance, PTL

\* The standings given to the callback are a ranking of all cars by the distance they
\* have travelled, with the leader in the race lap.
THEOREM StandingsAreRanking == Spec => []StandingsRankTheCars
<1>1. ASSUME RaceInv PROVE StandingsRankTheCars
  <2>0. TypeOK /\ RaceLapIsLast /\ PositionsAreRanks
    BY <1>1 DEF RaceInv
  <2> SUFFICES ASSUME pc = "on_tick"
               PROVE  /\ {states_[c].position : c \in Car} = Car
                      /\ \A c, d \in Car :
                           states_[c].position < states_[d].position
                             => Travelled(c) >= Travelled(d)
                      /\ \A c \in Car : states_[c].position = 1 => states_[c].lap = race_lap_
    BY DEF StandingsRankTheCars
  <2>1. \A c \in Car : states_[c].position = Position(c)
    BY <2>0 DEF PositionsAreRanks
  <2>2. {states_[c].position : c \in Car} = Car
    BY <2>0, <2>1, PositionsAreAll
  <2>3. ASSUME NEW c \in Car, NEW d \in Car, Position(c) < Position(d)
        PROVE  Travelled(c) >= Travelled(d)
    <3>1. Position(c) \in Nat /\ Position(d) \in Nat
      BY <2>0, PositionType DEF Car
    <3>2. ~Ahead(d, c)
      BY <2>0, <2>3, <3>1, PositionsOrder
    <3> QED
      BY <2>0, <3>2, TravelledType DEF Ahead
  <2>4. \A c \in Car : Position(c) = 1 => states_[c].lap = race_lap_
    BY <2>0, LeaderIsInRaceLap
  <2> QED
    BY <2>1, <2>2, <2>3, <2>4
<1> QED
  BY <1>1, Invariance, PTL

\* The finish is never early, although it is decided with the positions of the tick
\* before: the first car has completed its laps.
THEOREM WinnerHasFinished == Spec => []WinnerHasDoneAllLaps
<1>1. ASSUME RaceInv PROVE WinnerHasDoneAllLaps
  <2>0. TypeOK /\ RaceLapIsLast /\ PositionsAreRanks /\ FinishIsLate
    BY <1>1 DEF RaceInv
  <2> SUFFICES ASSUME race_finished_, pc \in {"on_tick", "loop", "exited"},
                      NEW c \in Car, states_[c].position = 1
               PROVE  states_[c].lap > TOTAL_LAPS
    BY DEF WinnerHasDoneAllLaps
  <2>1. Position(c) = 1
    BY <2>0 DEF PositionsAreRanks
  <2>2. states_[c].lap = race_lap_
    BY <2>0, <2>1, LeaderIsInRaceLap
  <2> QED
    BY <2>0, <2>2 DEF FinishIsLate
<1> QED
  BY <1>1, Invariance, PTL

\* A stop lasts PIT_STOP_TICKS ticks, the car standing still, whatever the other cars do.
THEOREM StopsLast == Spec => StopLastsItsTicks
<1> DEFINE StopStep ==
             \A c \in Car : states_[c].in_pit =>
               /\ Travelled(c)' = Travelled(c)
               /\ states_[c].in_pit # states_'[c].in_pit =>
                    ticks - pit_since[c] = PIT_STOP_TICKS
<1>1. ASSUME RaceInv, [Next]_vars PROVE StopStep
  <2>0. TypeOK /\ StopsAreTimed
    BY <1>1 DEF RaceInv
  <2> SUFFICES ASSUME NEW c \in Car, states_[c].in_pit
               PROVE  /\ Travelled(c)' = Travelled(c)
                      /\ states_[c].in_pit # states_'[c].in_pit =>
                           ticks - pit_since[c] = PIT_STOP_TICKS
    OBVIOUS
  <2>1. CASE states_'[c] = states_[c]
    BY <2>1 DEF Travelled
  <2>2. CASE \E s : CarMove(s) /\ c = car
    <3>1. PICK s : CarMove(s) /\ c = car
      BY <2>2
    <3> DEFINE o == states_[c]
    <3>2. /\ states_'[c] = s /\ o \in DriverState /\ s \in DriverState
          /\ Reached(c) = ticks - 1
      BY <2>0, <3>1, MoveEffect
    <3>3. IsServed(o, s)
      BY <3>1 DEF CarMove, StaysOut, GoesIn
    <3>4. Travelled(c)' = Travelled(c)
      BY <3>2, <3>3 DEF IsServed, Travelled
    <3>5. /\ o.pit_timer_ticks > 0 /\ o.pit_timer_ticks \in Nat
          /\ o.pit_timer_ticks = PIT_STOP_TICKS - ((ticks - 1) - pit_since[c])
      BY <2>0, <3>2 DEF StopsAreTimed, DriverState
    <3>6. ASSUME o.in_pit # s.in_pit PROVE ticks - pit_since[c] = PIT_STOP_TICKS
      <4>1. ~s.in_pit
        BY <3>2, <3>6 DEF DriverState
      <4>2. ~(o.pit_timer_ticks - 1 > 0)
        BY <3>3, <4>1 DEF IsServed
      <4>3. ticks \in Nat /\ pit_since[c] \in Nat /\ PIT_STOP_TICKS \in Nat
        BY <2>0, Constants DEF TypeOK
      <4> QED
        BY <3>5, <4>2, <4>3
    <3> QED
      BY <3>2, <3>4, <3>6
  <2>3. CASE UpdatePositionsAndDrs
    BY <2>0, <2>3, PositionsEffect DEF Travelled
  <2>4. ASSUME NEW s, CarMove(s), c # car PROVE states_'[c] = states_[c]
    BY <2>0, <2>4, MoveEffect
  <2>5. BeginTick \/ ControlStep => states_' = states_
    BY DEF BeginTick, ControlStep
  <2> QED
    BY <1>1, <2>1, <2>2, <2>3, <2>4, <2>5, StepCases
<1>2. ASSUME RaceInv, [Next]_vars PROVE [StopStep]_vars
  BY <1>1, <1>2
<1> QED
  BY <1>2, Invariance, PTL DEF Spec, StopLastsItsTicks

-----------------------------------------------------------------------------
\* The refinement of TickSource.

\* A stop goes on as the abstract specification wants it, and only that of the car moved.
LEMMA MoveIsAbstract ==
    ASSUME TypeOK, StopsAreTimed, NEW s, CarMove(s)
    PROVE  \E stop \in Source!Stop :
             /\ <<StopOf(car), stop>> \in Source!MayFollow
             /\ [c \in Car |-> [tick |-> Reached(c), stop |-> StopOf(c)]]'
                  = [[c \in Car |-> [tick |-> Reached(c), stop |-> StopOf(c)]]
                       EXCEPT ![car] = [tick |-> ticks, stop |-> stop]]
<1> DEFINE o == states_[car]
           stop == IF s.in_pit THEN "in" ELSE IF s.has_completed_pit THEN "after" ELSE "before"
<1>1. /\ car \in Car /\ o \in DriverState /\ s \in DriverState /\ states_'[car] = s
      /\ \A c \in Car \ {car} : states_'[c] = states_[c]
      /\ \A c \in Car : Reached(c)' = IF c = car THEN ticks ELSE Reached(c)
  BY MoveEffect
<1>2. o.in_pit => o.has_completed_pit
  BY <1>1 DEF StopsAreTimed
<1>3. StaysOut(o, s) \/ IsServed(o, s) \/ GoesIn(o, s)
  BY DEF CarMove
<1>4. /\ o.in_pit \in BOOLEAN /\ o.has_completed_pit \in BOOLEAN
      /\ s.in_pit \in BOOLEAN /\ s.has_completed_pit \in BOOLEAN
  BY <1>1 DEF DriverState
<1>5. stop \in Source!Stop /\ <<StopOf(car), stop>> \in Source!MayFollow
  <2>1. CASE StaysOut(o, s)
    BY <1>4, <2>1 DEF StaysOut, StopOf, Source!Stop, Source!MayFollow
  <2>2. CASE IsServed(o, s)
    BY <1>2, <1>4, <2>2 DEF IsServed, StopOf, Source!Stop, Source!MayFollow
  <2>3. CASE GoesIn(o, s)
    BY <1>4, <2>3 DEF GoesIn, StopOf, Source!Stop, Source!MayFollow
  <2> QED
    BY <1>3, <2>1, <2>2, <2>3
<1>6. \A c \in Car : StopOf(c)' = IF c = car THEN stop ELSE StopOf(c)
  BY <1>1 DEF StopOf
<1> HIDE DEF stop
<1> QED
  BY <1>1, <1>5, <1>6

\* The generator implements the tick source that RaceControl is built on: each car's move
\* is the drive of a driver, on_tick_ begins when the last has been driven, and a stop
\* request or the finish takes effect between ticks.
THEOREM Refinement == Spec => ImplementsTickSource
<1>1. Init => Source!Init
  <2>1. SUFFICES ASSUME Init PROVE Source!Init
    OBVIOUS
  <2>2. ticks = 0 /\ pc = "loop" /\ car = 1 /\ race_lap_ = 1 /\ lap_before = 1
        /\ race_finished_ = FALSE /\ stop_requested = FALSE
    BY <2>1 DEF Init
  <2>3. \A c \in Car : Reached(c) = 0 /\ StopOf(c) = "before"
    BY <2>1 DEF Init, Reached, StopOf
  <2> QED
    BY <2>2, <2>3 DEF Source!Init, Source!Driver, Car
<1>2. ASSUME RaceInv, [Next]_vars PROVE [Source!Next]_(Source!vars)
  <2>0. TypeOK /\ StopsAreTimed /\ RaceLapIsLast /\ RaceLapGrowsOnce
    BY <1>2 DEF RaceInv
  <2>1. ASSUME NEW s, CarMove(s) PROVE Source!Next
    <3> DEFINE o == states_[car]
               new_lap == race_lap_' # race_lap_
               finish == race_finished_'
    <3>1. PICK stop \in Source!Stop :
             /\ <<StopOf(car), stop>> \in Source!MayFollow
             /\ [c \in Car |-> [tick |-> Reached(c), stop |-> StopOf(c)]]'
                  = [[c \in Car |-> [tick |-> Reached(c), stop |-> StopOf(c)]]
                       EXCEPT ![car] = [tick |-> ticks, stop |-> stop]]
      BY <2>0, <2>1, MoveIsAbstract
    <3>2. /\ car \in Car /\ o \in DriverState /\ s \in DriverState
          /\ pc = "cars" /\ NextCar
          /\ UNCHANGED <<stop_requested, ticks, lap_before>>
      BY <2>0, <2>1, MoveEffect DEF CarMove
    <3>3. /\ race_lap_ \in Nat /\ lap_before \in Nat /\ o.lap \in Nat /\ s.lap \in Nat
          /\ Cars \in Nat /\ car \in Nat /\ car <= Cars
      BY <2>0, <3>2, Constants DEF TypeOK, DriverState, Car
    <3>4. o.lap <= race_lap_ /\ o.lap <= lap_before /\ race_lap_ \in {lap_before, lap_before + 1}
      <4>1. car \in car .. Cars
        BY <3>3
      <4> QED
        BY <2>0, <3>2, <4>1 DEF RaceLapIsLast, RaceLapGrowsOnce
    <3>5. /\ new_lap => race_lap_ = lap_before
          /\ race_lap_' = IF new_lap THEN race_lap_ + 1 ELSE race_lap_
          /\ race_finished_' = (race_finished_ \/ finish)
      <4>1. CASE UNCHANGED race
        <5>1. race_lap_' = race_lap_ /\ race_finished_' = race_finished_
          BY <4>1 DEF race
        <5>2. race_finished_ \in BOOLEAN
          BY <2>0 DEF TypeOK
        <5> QED
          BY <5>1, <5>2
      <4>2. CASE /\ CompletesLap(o, s) /\ race_lap_' = RaceLap(s)
                 /\ race_finished_' = (race_finished_ \/ Finishes(s))
        <5>1. s.lap = o.lap + 1
          BY <4>2 DEF CompletesLap
        <5>2. race_lap_' = IF s.lap >= race_lap_ THEN s.lap ELSE race_lap_
          BY <2>0, <3>2, <4>2, RaceLapValue
        <5>3. race_finished_' = (race_finished_ \/ race_finished_')
          BY <4>2
        <5> QED
          BY <3>3, <3>4, <5>1, <5>2, <5>3
      <4> QED
        BY <2>1, <4>1, <4>2 DEF CarMove
    <3>6. new_lap \in BOOLEAN /\ finish \in BOOLEAN
      BY <1>2, TypeStep DEF TypeOK
    <3>7. Source!Drive(stop, new_lap, finish)
      <4>1. [c \in Car |-> [tick |-> Reached(c), stop |-> StopOf(c)]][car].stop = StopOf(car)
        BY <3>2
      <4>2. /\ (CASE pc = "cars" -> "drive" [] pc = "positions" -> "on_tick"
                  [] OTHER -> pc) = "drive"
            /\ IF car < Cars
                 THEN car' = car + 1 /\ pc' = "cars"
                 ELSE car' = car /\ pc' = "positions"
        BY <3>2 DEF NextCar
      <4> HIDE DEF new_lap, finish
      <4> QED
        BY <3>1, <3>2, <3>5, <4>1, <4>2 DEF Source!Drive
    <3> QED
      BY <3>1, <3>6, <3>7 DEF Source!Next
  <2>2. CASE BeginTick
    <3>1. /\ pc = "loop" /\ ~stop_requested /\ ~race_finished_ /\ ticks < MaxTicks
          /\ stop_requested' = stop_requested
      BY <2>2 DEF BeginTick
    <3>2. \A c \in Car : StopOf(c)' = StopOf(c) /\ Reached(c)' = Reached(c)
      BY <2>0, <2>2, BeginEffect DEF StopOf
    <3>3. /\ race_lap_' = race_lap_ /\ race_finished_' = race_finished_ /\ lap_before' = race_lap_
          /\ ticks' = ticks + 1 /\ car' = 1 /\ pc' = "cars"
      BY <2>0, <2>2, BeginEffect
    <3>4. Source!BeginTick
      BY <3>1, <3>2, <3>3 DEF Source!BeginTick
    <3> QED
      BY <3>4 DEF Source!Next
  <2>3. CASE UpdatePositionsAndDrs
    <3>1. \A c \in Car : StopOf(c)' = StopOf(c) /\ Reached(c)' = Reached(c)
      BY <2>0, <2>3, PositionsEffect DEF StopOf
    <3> QED
      BY <2>0, <2>3, <3>1, PositionsEffect DEF Source!vars, Source!cars, Source!race, history
  <2>4. CASE Exit
    BY <2>4
    DEF Exit, race, history, Source!Exit, Source!Next, Source!cars, Source!race, Reached, StopOf
  <2>5. CASE Stop
    BY <2>5 DEF Stop, race, at, history, Source!RequestStop, Source!Next, Source!cars,
                Source!race, Reached, StopOf
  <2>6. CASE OnTick
    BY <2>6 DEF OnTick, race, history, Source!CallbackReturns, Source!Next, Source!cars,
                Source!race, Reached, StopOf
  <2>7. CASE UNCHANGED vars
    BY <2>7 DEF vars, race, at, history, Source!vars, Source!cars, Source!race, Reached, StopOf
  <2> QED
    BY <1>2, <2>1, <2>2, <2>3, <2>4, <2>5, <2>6, <2>7,
       HandlePitMoves, DriveMoves, CompleteLapMoves DEF Next
<1> QED
  BY <1>1, <1>2, Invariance, PTL DEF Spec, ImplementsTickSource, Source!Spec
=============================================================================
