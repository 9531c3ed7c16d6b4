------------------------------ MODULE FastestLap ------------------------------
(***************************************************************************)
(* RaceState's fastest lap: two atomics, the time and the driver who holds  *)
(* it, claimed by a load and a compare_exchange_weak loop on the time and   *)
(* then a store of the holder; read by a thread that loads the holder and   *)
(* then the time (main's summary).                                          *)
(*                                                                         *)
(* A load or a failed exchange may read any store to the atomic not older   *)
(* than the thread's last one; a successful exchange replaces the last.     *)
(***************************************************************************)
EXTENDS Naturals, Sequences, MemoryOrder

CONSTANTS
  Claimers,   \* the threads that call try_claim_fastest_lap()
  Drivers,    \* the driver indices they claim for
  NoDriver,   \* -1
  MaxTime,    \* lap times are 1 .. MaxTime; MaxTime + 1 is numeric_limits::max()
  MaxClaims   \* bound: how many claims a thread makes

ASSUME FastestLapAssumption ==
    /\ NoDriver \notin Drivers
    /\ MaxTime \in Nat /\ MaxClaims \in Nat

VARIABLES
  fastest_lap_ms,     \* stores to the time, oldest first: [time, by]; `by` is history
  fastest_lap_holder, \* stores to the holder, oldest first: [driver, win, carries]
  pc,                 \* where each claimer is
  claim,              \* its arguments: [driver, time]
  current_best,       \* its copy of the time
  pos,                \* which store to the time it read or made last
  claims,             \* how many claims it has begun
  settled,            \* the claims that have returned (history)
  reader              \* the reading thread: [pc, holder, time, knows], stores by number

vars == <<fastest_lap_ms, fastest_lap_holder, pc, claim, current_best, pos, claims,
          settled, reader>>

Time == 1 .. (MaxTime + 1)
Claim == [driver : Drivers, time : 1 .. MaxTime]
NoClaim == [driver |-> NoDriver, time |-> MaxTime + 1]

\* The memory orders of the loads and stores of the two atomics.
RelaxedStore == "relaxed"  \* fault: the holder is published without the time
HolderStore == "release"
HolderLoad == "acquire"

Newest(stores) == stores[Len(stores)]
Best == Newest(fastest_lap_ms).time

GoTo(t, label) == pc' = [pc EXCEPT ![t] = label]

Init ==
    /\ fastest_lap_ms = <<[time |-> MaxTime + 1, by |-> NoDriver]>>
    /\ fastest_lap_holder = <<[driver |-> NoDriver, win |-> 1, carries |-> 1]>>
    /\ pc = [t \in Claimers |-> "idle"]
    /\ claim = [t \in Claimers |-> NoClaim]
    /\ current_best = [t \in Claimers |-> MaxTime + 1]
    /\ pos = [t \in Claimers |-> 1]
    /\ claims = [t \in Claimers |-> 0]
    /\ settled = {}
    /\ reader = [pc |-> "holder", holder |-> 1, time |-> 1, knows |-> 1]

-----------------------------------------------------------------------------
\* try_claim_fastest_lap()

\* Read the i-th store into current_best, then test the loop's condition: go on to
\* the exchange, or return false.
LoopTest(t, c, i) ==
    /\ current_best' = [current_best EXCEPT ![t] = fastest_lap_ms[i].time]
    /\ pos' = [pos EXCEPT ![t] = i]
    /\ IF c.time < fastest_lap_ms[i].time
          THEN GoTo(t, "exchange") /\ UNCHANGED settled
          ELSE GoTo(t, "idle") /\ settled' = settled \union {c}

\* The call and its first load.
ClaimBegin(t, c, i) ==
    /\ pc[t] = "idle" /\ claims[t] < MaxClaims
    /\ i \in pos[t] .. Len(fastest_lap_ms)
    /\ claim' = [claim EXCEPT ![t] = c]
    /\ claims' = [claims EXCEPT ![t] = @ + 1]
    /\ LoopTest(t, c, i)
    /\ UNCHANGED <<fastest_lap_ms, fastest_lap_holder, reader>>

\* Fault: a load and a store in place of the exchange.
ExchangeUnconditionally(t) ==
    /\ pc[t] = "exchange"
    /\ fastest_lap_ms' = Append(fastest_lap_ms,
                                [time |-> claim[t].time, by |-> claim[t].driver])
    /\ pos' = [pos EXCEPT ![t] = Len(fastest_lap_ms) + 1]
    /\ GoTo(t, "store")
    /\ UNCHANGED <<fastest_lap_holder, claim, current_best, claims, settled, reader>>

\* compare_exchange_weak succeeds.
ExchangeSucceeds(t) ==
    /\ pc[t] = "exchange"
    /\ Best = current_best[t]
    /\ fastest_lap_ms' = Append(fastest_lap_ms,
                                [time |-> claim[t].time, by |-> claim[t].driver])
    /\ pos' = [pos EXCEPT ![t] = Len(fastest_lap_ms) + 1]
    /\ GoTo(t, "store")
    /\ UNCHANGED <<fastest_lap_holder, claim, current_best, claims, settled, reader>>

\* Fault: the value the exchange found is thrown away.
ExchangeFailsKeepsBest(t, i) ==
    /\ pc[t] = "exchange"
    /\ i \in pos[t] .. Len(fastest_lap_ms)
    /\ pos' = [pos EXCEPT ![t] = i]
    /\ UNCHANGED <<fastest_lap_ms, fastest_lap_holder, pc, claim, current_best, claims,
                   settled, reader>>

\* Fault: one failed exchange gives the claim up.
ExchangeFailsGivesUp(t, i) ==
    /\ pc[t] = "exchange"
    /\ i \in pos[t] .. Len(fastest_lap_ms)
    /\ pos' = [pos EXCEPT ![t] = i]
    /\ GoTo(t, "idle")
    /\ settled' = settled \union {claim[t]}
    /\ UNCHANGED <<fastest_lap_ms, fastest_lap_holder, claim, current_best, claims, reader>>

\* compare_exchange_weak fails, because the time has changed or for no reason.
ExchangeFails(t, i) ==
    /\ pc[t] = "exchange"
    /\ i \in pos[t] .. Len(fastest_lap_ms)
    /\ LoopTest(t, claim[t], i)
    /\ UNCHANGED <<fastest_lap_ms, fastest_lap_holder, claim, claims, reader>>

\* fastest_lap_holder.store(driver_index); return true
StoreHolder(t) ==
    /\ pc[t] = "store"
    /\ fastest_lap_holder' = Append(fastest_lap_holder,
                                    [driver |-> claim[t].driver, win |-> pos[t],
                                     carries |-> Carried(HolderStore, pos[t])])
    /\ settled' = settled \union {claim[t]}
    /\ GoTo(t, "idle")
    /\ UNCHANGED <<fastest_lap_ms, claim, current_best, pos, claims, reader>>

-----------------------------------------------------------------------------
\* get_fastest_lap_holder(), then get_fastest_lap_ms()

ReadHolder(j) ==
    /\ reader.pc = "holder"
    /\ j \in reader.holder .. Len(fastest_lap_holder)
    /\ reader' = [reader EXCEPT !.pc = "time", !.holder = j,
                    !.knows = Learned(HolderLoad, @, fastest_lap_holder[j].carries)]
    /\ UNCHANGED <<fastest_lap_ms, fastest_lap_holder, pc, claim, current_best, pos,
                   claims, settled>>

ReadTime(i) ==
    /\ reader.pc = "time"
    /\ i \in reader.knows .. Len(fastest_lap_ms)
    /\ reader' = [reader EXCEPT !.pc = "holder", !.time = i, !.knows = i]
    /\ UNCHANGED <<fastest_lap_ms, fastest_lap_holder, pc, claim, current_best, pos,
                   claims, settled>>

-----------------------------------------------------------------------------
Claiming(t) ==
    \/ \E c \in Claim, i \in 1 .. Len(fastest_lap_ms) : ClaimBegin(t, c, i)
    \/ ExchangeSucceeds(t)
    \/ \E i \in 1 .. Len(fastest_lap_ms) : ExchangeFails(t, i)
    \/ StoreHolder(t)

Reading ==
    \/ \E j \in 1 .. Len(fastest_lap_holder) : ReadHolder(j)
    \/ \E i \in 1 .. Len(fastest_lap_ms) : ReadTime(i)

Next == Reading \/ \E t \in Claimers : Claiming(t)

Spec == Init /\ [][Next]_vars

(* A claimer is not stopped inside a call, a failed exchange sooner or later  *)
(* reads the newest time, and the exchange does not fail for ever when the    *)
(* time is the one expected.                                                  *)
Fairness ==
    \A t \in Claimers :
       /\ SF_vars(ExchangeSucceeds(t))
       /\ SF_vars(ExchangeFails(t, Len(fastest_lap_ms)))
       /\ WF_vars(StoreHolder(t))

FairSpec == Spec /\ Fairness

-----------------------------------------------------------------------------
\* Every variable has the type of the member or local it stands for.
TypeOK ==
    /\ fastest_lap_ms \in Seq([time : Time, by : Drivers \union {NoDriver}])
    /\ fastest_lap_holder \in Seq([driver : Drivers \union {NoDriver},
                                   win : Nat \ {0}, carries : Nat])
    /\ pc \in [Claimers -> {"idle", "exchange", "store"}]
    /\ claim \in [Claimers -> Claim \union {NoClaim}]
    /\ current_best \in [Claimers -> Time]
    /\ pos \in [Claimers -> Nat \ {0}]
    /\ claims \in [Claimers -> Nat]
    /\ settled \subseteq Claim
    /\ reader \in [pc : {"holder", "time"}, holder : Nat \ {0}, time : Nat \ {0},
                   knows : Nat \ {0}]

(* The fastest time only ever gets better, and strictly: of two claims of the *)
(* same time at most one changes it, so exactly one of them returns true.     *)
OneWinnerPerTime ==
    \A i, j \in 1 .. Len(fastest_lap_ms) :
       i < j => fastest_lap_ms[j].time < fastest_lap_ms[i].time

(* No claim is lost: once a call has returned, by whichever path and however  *)
(* stale the times it read, the fastest time is no slower than the one it     *)
(* claimed.                                                                   *)
NoClaimLost == \A c \in settled : Best <= c.time

(* When no claim is in progress the holder is the driver whose claim set the  *)
(* time.                                                                      *)
HolderSetTheTime ==
    (\A t \in Claimers : pc[t] = "idle") =>
       Newest(fastest_lap_holder).driver = Newest(fastest_lap_ms).by

(* A thread that reads a holder and then the time reads a time no older than  *)
(* the one with which that holder won: the winner is never shown with the     *)
(* slower time it beat.                                                       *)
TimeCoversHolder ==
    reader.pc = "holder" => fastest_lap_holder[reader.holder].win <= reader.time

(* Every claim returns: each failed exchange tells the loop the time to beat. *)
ClaimReturns == \A t \in Claimers : pc[t] = "exchange" ~> pc[t] = "idle"

=============================================================================
