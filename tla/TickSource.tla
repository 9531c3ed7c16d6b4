------------------------------ MODULE TickSource ------------------------------
(***************************************************************************)
(* The generator thread as its on_tick callback sees it: in every tick each *)
(* driver's state is brought up to the tick, each driver makes at most one  *)
(* pit stop, the race lap grows by at most one, and nothing moves while the *)
(* callback runs.  The thread ends after the tick in which the race was     *)
(* finished or a stop requested, never within one.                          *)
(***************************************************************************)
EXTENDS Naturals

CONSTANTS
  Drivers,  \* how many there are
  MaxTicks  \* bound: ticks of the race

VARIABLES
  states_,    \* of each driver: the tick it has reached, before, in or after its stop
  tick, lap,
  lap_before, \* the race lap when the tick began
  driver,     \* the driver the tick is at
  pc,         \* "loop", "drive", "on_tick" or "exited"
  race_finished_, stop_requested

cars == <<states_, driver>>
race == <<tick, lap, lap_before, race_finished_>>
vars == <<cars, race, pc, stop_requested>>

Driver == 1 .. Drivers
Stop == {"before", "in", "after"}
MayFollow == {<<"before", "before">>, <<"before", "in">>, <<"in", "in">>,
              <<"in", "after">>, <<"after", "after">>}

Init ==
    /\ states_ = [d \in Driver |-> [tick |-> 0, stop |-> "before"]]
    /\ tick = 0 /\ lap = 1 /\ lap_before = 1 /\ driver = 1 /\ pc = "loop"
    /\ race_finished_ = FALSE /\ stop_requested = FALSE

BeginTick ==
    /\ pc = "loop" /\ ~stop_requested /\ ~race_finished_ /\ tick < MaxTicks
    /\ tick' = tick + 1 /\ lap_before' = lap
    /\ driver' = 1 /\ pc' = "drive"
    /\ UNCHANGED <<states_, lap, race_finished_, stop_requested>>

\* One driver's part of the tick; after the last driver's the callback is called.
Drive(stop, new_lap, finish) ==
    /\ pc = "drive"
    /\ <<states_[driver].stop, stop>> \in MayFollow
    /\ new_lap => lap = lap_before
    /\ states_' = [states_ EXCEPT ![driver] = [tick |-> tick, stop |-> stop]]
    /\ lap' = IF new_lap THEN lap + 1 ELSE lap
    /\ race_finished_' = (race_finished_ \/ finish)
    /\ IF driver < Drivers THEN driver' = driver + 1 /\ pc' = pc
                           ELSE driver' = driver /\ pc' = "on_tick"
    /\ UNCHANGED <<tick, lap_before, stop_requested>>

CallbackReturns == pc = "on_tick" /\ pc' = "loop" /\ UNCHANGED <<cars, race, stop_requested>>

Exit ==
    /\ pc = "loop" /\ (stop_requested \/ race_finished_)
    /\ pc' = "exited"
    /\ UNCHANGED <<cars, race, stop_requested>>

RequestStop == stop_requested' = TRUE /\ UNCHANGED <<cars, race, pc>>

Next ==
    \/ BeginTick \/ CallbackReturns \/ Exit \/ RequestStop
    \/ \E stop \in Stop, new_lap, finish \in BOOLEAN : Drive(stop, new_lap, finish)

Spec == Init /\ [][Next]_vars
=============================================================================
