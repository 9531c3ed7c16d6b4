--------------------------- MODULE FastestLapProof ---------------------------
(***************************************************************************)
(* Proofs about FastestLap for any number of claimers, drivers, times and   *)
(* claims.  The inductive invariant says where in the history of the time   *)
(* each thread is: a claimer about to exchange beats the time it expects,    *)
(* one about to store the holder owns the store it made, and what the       *)
(* reader knows covers the win of the holder it has read.                   *)
(***************************************************************************)
EXTENDS FastestLap, TLAPS

HistoryInv ==
    /\ Len(fastest_lap_ms) \in Nat \ {0} /\ Len(fastest_lap_holder) \in Nat \ {0}
    /\ \A t \in Claimers : pos[t] \in 1 .. Len(fastest_lap_ms)

ClaimInv ==
    \A t \in Claimers :
      /\ pc[t] # "idle" => claim[t] \in Claim
      /\ pc[t] = "exchange" => claim[t].time < current_best[t]
      /\ pc[t] = "store" =>
           fastest_lap_ms[pos[t]] = [time |-> claim[t].time, by |-> claim[t].driver]

\* Each store to the holder carries the store to the time it won with; the reader
\* knows of that of the holder it has read.
ReaderInv ==
    /\ \A j \in 1 .. Len(fastest_lap_holder) :
         fastest_lap_holder[j].carries = fastest_lap_holder[j].win
    /\ reader.holder \in 1 .. Len(fastest_lap_holder)
    /\ fastest_lap_holder[reader.holder].win <= reader.knows
    /\ reader.pc = "holder" => reader.knows = reader.time

IInv == TypeOK /\ HistoryInv /\ ClaimInv /\ OneWinnerPerTime /\ NoClaimLost /\ ReaderInv

-----------------------------------------------------------------------------
USE FastestLapAssumption

(* What the stores and the claims are made of.                                *)
LEMMA StoreFact ==
    ASSUME TypeOK, NEW i \in 1 .. Len(fastest_lap_ms)
    PROVE  /\ fastest_lap_ms[i] \in [time : Time, by : Drivers \union {NoDriver}]
           /\ fastest_lap_ms[i].time \in Time /\ fastest_lap_ms[i].time \in Nat
<1> DEFINE Store == [time : Time, by : Drivers \union {NoDriver}]
<1>1. fastest_lap_ms \in Seq(Store)
  BY DEF TypeOK
<1>2. fastest_lap_ms[i] \in Store
  <2> HIDE DEF Store
  <2> QED BY <1>1
<1>3. Time \subseteq Nat
  BY DEF Time
<1> QED BY <1>2, <1>3

\* What a claim is made of.
LEMMA ClaimFact ==
    ASSUME NEW c \in Claim
    PROVE  c.time \in Nat /\ c.time \in Time /\ c.driver \in Drivers
BY DEF Claim, Time

\* The newest time is a number.
LEMMA BestFact == ASSUME TypeOK, HistoryInv PROVE Best \in Nat
<1>1. Len(fastest_lap_ms) \in 1 .. Len(fastest_lap_ms)
  BY DEF HistoryInv
<1> QED BY <1>1, StoreFact DEF Best, Newest

(* The newest time is the best one of the history.                            *)
LEMMA BestIsLeast ==
    ASSUME TypeOK, HistoryInv, OneWinnerPerTime, NEW i \in 1 .. Len(fastest_lap_ms)
    PROVE  Best <= fastest_lap_ms[i].time
<1> DEFINE last == Len(fastest_lap_ms)
<1>1. fastest_lap_ms[i].time \in Nat /\ last \in 1 .. last /\ i <= last
  BY StoreFact DEF HistoryInv
<1>2. CASE i = last
  BY <1>1, <1>2 DEF Best, Newest
<1>3. CASE i < last
  <2>1. fastest_lap_ms[last].time < fastest_lap_ms[i].time
    BY <1>1, <1>3 DEF OneWinnerPerTime
  <2>2. fastest_lap_ms[last].time \in Nat
    BY <1>1, StoreFact
  <2> QED BY <1>1, <2>1, <2>2 DEF Best, Newest
<1> QED BY <1>1, <1>2, <1>3

\* The invariant holds initially.
LEMMA InitInv == Init => IInv
<1> SUFFICES ASSUME Init PROVE IInv
  OBVIOUS
<1>1. TypeOK
  BY DEF Init, TypeOK, Time, Claim, NoClaim
<1>2. HistoryInv
  BY DEF Init, HistoryInv
<1>3. ClaimInv /\ OneWinnerPerTime /\ NoClaimLost /\ ReaderInv
  BY DEF Init, ClaimInv, OneWinnerPerTime, NoClaimLost, ReaderInv
<1> QED BY <1>1, <1>2, <1>3 DEF IInv

-----------------------------------------------------------------------------
\* The steps.  A claim that is not idle reads or makes a store; the histories only grow.

(* The loop's test, after the first load or a failed exchange.                *)
LEMMA LoopTestInv ==
    ASSUME IInv, NEW t \in Claimers, NEW c \in Claim,
           NEW i \in pos[t] .. Len(fastest_lap_ms),
           claim' = [claim EXCEPT ![t] = c] \/ (claim[t] = c /\ claim' = claim),
           LoopTest(t, c, i),
           claims' \in [Claimers -> Nat],
           UNCHANGED <<fastest_lap_ms, fastest_lap_holder, reader>>
    PROVE  IInv'
<1>1. i \in 1 .. Len(fastest_lap_ms) /\ fastest_lap_ms[i].time \in Time
  <2>1. i \in 1 .. Len(fastest_lap_ms)
    BY DEF IInv, TypeOK, HistoryInv
  <2> QED BY <2>1, StoreFact DEF IInv
<1>2. claim' \in [Claimers -> Claim \union {NoClaim}] /\ claim'[t] = c
  BY DEF IInv, TypeOK
<1>3. TypeOK'
  <2>1. current_best' \in [Claimers -> Time]
    BY <1>1 DEF IInv, TypeOK, LoopTest
  <2>2. i \in Nat \ {0}
    BY <1>1 DEF IInv, HistoryInv
  <2>3. pos' \in [Claimers -> Nat \ {0}]
    BY <2>2 DEF IInv, TypeOK, LoopTest
  <2>4. pc' \in [Claimers -> {"idle", "exchange", "store"}] /\ settled' \subseteq Claim
    BY DEF IInv, TypeOK, LoopTest, GoTo
  <2> QED BY <1>2, <2>1, <2>3, <2>4 DEF IInv, TypeOK
<1>4. HistoryInv'
  BY <1>1 DEF IInv, TypeOK, HistoryInv, LoopTest
<1>5. ClaimInv'
  <2> SUFFICES ASSUME NEW u \in Claimers
               PROVE  /\ pc'[u] # "idle" => claim'[u] \in Claim
                      /\ pc'[u] = "exchange" => claim'[u].time < current_best'[u]
                      /\ pc'[u] = "store" => fastest_lap_ms'[pos'[u]] =
                            [time |-> claim'[u].time, by |-> claim'[u].driver]
    BY DEF ClaimInv
  <2>1. CASE u = t
    BY <1>1, <1>2, <2>1 DEF IInv, TypeOK, LoopTest, GoTo
  <2>2. CASE u # t
    <3>1. /\ pc'[u] = pc[u] /\ claim'[u] = claim[u] /\ current_best'[u] = current_best[u]
          /\ pos'[u] = pos[u] /\ fastest_lap_ms' = fastest_lap_ms
      BY <2>2 DEF IInv, TypeOK, LoopTest, GoTo
    <3>2. ClaimInv
      BY DEF IInv
    <3> QED BY <3>1, <3>2, Zenon DEF ClaimInv
  <2> QED BY <2>1, <2>2
<1>6. OneWinnerPerTime' /\ ReaderInv'
  BY DEF IInv, OneWinnerPerTime, ReaderInv
<1>7. NoClaimLost'
  <2> SUFFICES ASSUME NEW d \in settled' PROVE Best <= d.time
    BY DEF NoClaimLost, Best, Newest
  <2>1. CASE d \in settled
    BY <2>1 DEF IInv, NoClaimLost
  <2>2. CASE d \notin settled
    <3>1. d = c /\ ~(c.time < fastest_lap_ms[i].time)
      BY <2>2 DEF LoopTest
    <3>2. Best <= fastest_lap_ms[i].time
      BY <1>1, BestIsLeast DEF IInv
    <3>3. Best \in Nat /\ c.time \in Nat /\ fastest_lap_ms[i].time \in Nat
      BY <1>1, BestFact, ClaimFact, StoreFact DEF IInv
    <3> QED BY <3>1, <3>2, <3>3
  <2> QED BY <2>1, <2>2
<1> QED BY <1>3, <1>4, <1>5, <1>6, <1>7 DEF IInv

\* The call and its first load.
LEMMA ClaimBeginInv ==
    ASSUME IInv, NEW t \in Claimers, NEW c \in Claim,
           NEW i \in 1 .. Len(fastest_lap_ms), ClaimBegin(t, c, i)
    PROVE  IInv'
<1>1. i \in pos[t] .. Len(fastest_lap_ms) /\ LoopTest(t, c, i)
      /\ claim' = [claim EXCEPT ![t] = c]
      /\ UNCHANGED <<fastest_lap_ms, fastest_lap_holder, reader>>
  BY DEF ClaimBegin
<1>2. claims' \in [Claimers -> Nat]
  BY DEF ClaimBegin, IInv, TypeOK
<1> QED BY <1>1, <1>2, LoopTestInv

\* A failed exchange is a load and the test.
LEMMA ExchangeFailsInv ==
    ASSUME IInv, NEW t \in Claimers,
           NEW i \in 1 .. Len(fastest_lap_ms), ExchangeFails(t, i)
    PROVE  IInv'
<1>1. i \in pos[t] .. Len(fastest_lap_ms) /\ LoopTest(t, claim[t], i)
      /\ claim' = claim
      /\ UNCHANGED <<fastest_lap_ms, fastest_lap_holder, reader>>
  BY DEF ExchangeFails
<1>2. claims' \in [Claimers -> Nat] /\ claim[t] \in Claim
  BY DEF ExchangeFails, IInv, TypeOK, ClaimInv
<1> QED BY <1>1, <1>2, LoopTestInv

(* A successful exchange beats the newest time, so the history stays strictly *)
(* decreasing and every settled claim stays beaten.                           *)
LEMMA ExchangeSucceedsInv ==
    ASSUME IInv, NEW t \in Claimers, ExchangeSucceeds(t)
    PROVE  IInv'
<1> DEFINE last == Len(fastest_lap_ms)
           new == [time |-> claim[t].time, by |-> claim[t].driver]
<1>1. /\ claim[t] \in Claim /\ claim[t].time < Best
      /\ fastest_lap_ms \in Seq([time : Time, by : Drivers \union {NoDriver}])
      /\ last \in Nat \ {0}
  BY DEF IInv, TypeOK, HistoryInv, ClaimInv, ExchangeSucceeds
<1>2. new \in [time : Time, by : Drivers \union {NoDriver}]
  BY <1>1 DEF Claim, Time
<1>3. /\ fastest_lap_ms' = Append(fastest_lap_ms, new)
      /\ Len(fastest_lap_ms') = last + 1
      /\ fastest_lap_ms'[last + 1] = new
      /\ \A k \in 1 .. last : fastest_lap_ms'[k] = fastest_lap_ms[k]
  BY <1>1, <1>2 DEF ExchangeSucceeds
<1>4. TypeOK'
  BY <1>1, <1>2, <1>3 DEF IInv, TypeOK, ExchangeSucceeds, GoTo
<1>5. HistoryInv'
  <2>1. /\ pos' = [pos EXCEPT ![t] = last + 1] /\ DOMAIN pos = Claimers
        /\ fastest_lap_holder' = fastest_lap_holder /\ Len(fastest_lap_holder) \in Nat \ {0}
    BY DEF IInv, TypeOK, HistoryInv, ExchangeSucceeds
  <2>2. \A u \in Claimers : pos[u] \in 1 .. last
    BY DEF IInv, HistoryInv
  <2> HIDE DEF last
  <2>3. \A u \in Claimers : pos'[u] \in 1 .. last + 1
    BY <1>1, <2>1, <2>2
  <2> QED
    BY <1>1, <1>3, <2>1, <2>3 DEF HistoryInv
<1>6. ClaimInv'
  <2> SUFFICES ASSUME NEW u \in Claimers
               PROVE  /\ pc'[u] # "idle" => claim'[u] \in Claim
                      /\ pc'[u] = "exchange" => claim'[u].time < current_best'[u]
                      /\ pc'[u] = "store" => fastest_lap_ms'[pos'[u]] =
                            [time |-> claim'[u].time, by |-> claim'[u].driver]
    BY DEF ClaimInv
  <2>1. CASE u = t
    BY <1>1, <1>3, <2>1 DEF IInv, TypeOK, ExchangeSucceeds, GoTo
  <2>2. CASE u # t
    BY <1>3, <2>2 DEF IInv, TypeOK, HistoryInv, ClaimInv, ExchangeSucceeds, GoTo
  <2> QED BY <2>1, <2>2
<1>7. \A k \in 1 .. last : claim[t].time < fastest_lap_ms[k].time
  <2> SUFFICES ASSUME NEW k \in 1 .. last PROVE claim[t].time < fastest_lap_ms[k].time
    OBVIOUS
  <2>1. Best <= fastest_lap_ms[k].time
    BY BestIsLeast DEF IInv
  <2>2. Best \in Nat /\ claim[t].time \in Nat /\ fastest_lap_ms[k].time \in Nat
    BY <1>1, BestFact, ClaimFact, StoreFact DEF IInv
  <2> QED BY <1>1, <2>1, <2>2
<1>8. OneWinnerPerTime'
  <2> SUFFICES ASSUME NEW i \in 1 .. (last + 1), NEW j \in 1 .. (last + 1), i < j
               PROVE  fastest_lap_ms'[j].time < fastest_lap_ms'[i].time
    BY <1>3 DEF OneWinnerPerTime
  <2>1. CASE j = last + 1
    BY <1>1, <1>3, <1>7, <2>1
  <2>2. CASE j # last + 1
    <3>1. i \in 1 .. last /\ j \in 1 .. last
      BY <1>1, <2>2
    <3>2. OneWinnerPerTime
      BY DEF IInv
    <3> QED BY <1>3, <3>1, <3>2, Zenon DEF OneWinnerPerTime
  <2> QED BY <2>1, <2>2
<1>9. NoClaimLost'
  <2> SUFFICES ASSUME NEW d \in settled PROVE claim[t].time <= d.time
    BY <1>3 DEF NoClaimLost, Best, Newest, ExchangeSucceeds
  <2>1. Best <= d.time
    BY DEF IInv, NoClaimLost
  <2>2. Best \in Nat /\ claim[t].time \in Nat /\ d.time \in Nat
    BY <1>1, BestFact, ClaimFact DEF IInv, TypeOK
  <2> QED BY <1>1, <2>1, <2>2
<1>10. ReaderInv'
  BY DEF IInv, ReaderInv, ExchangeSucceeds
<1> QED BY <1>4, <1>5, <1>6, <1>8, <1>9, <1>10 DEF IInv

(* The store of the holder: the claim settles, beaten by its own time or by a  *)
(* better one that has come since.                                            *)
LEMMA StoreHolderInv ==
    ASSUME IInv, NEW t \in Claimers, StoreHolder(t)
    PROVE  IInv'
<1> DEFINE last == Len(fastest_lap_holder)
           new == [driver |-> claim[t].driver, win |-> pos[t], carries |-> pos[t]]
           Store == [driver : Drivers \union {NoDriver}, win : Nat \ {0}, carries : Nat]
<1>1. /\ claim[t] \in Claim /\ pos[t] \in 1 .. Len(fastest_lap_ms) /\ pos[t] \in Nat \ {0}
      /\ fastest_lap_ms[pos[t]].time = claim[t].time
      /\ fastest_lap_holder \in Seq(Store) /\ last \in Nat \ {0}
  <2>1. /\ claim[t] \in Claim /\ pos[t] \in 1 .. Len(fastest_lap_ms)
        /\ fastest_lap_ms[pos[t]] = [time |-> claim[t].time, by |-> claim[t].driver]
    BY DEF IInv, HistoryInv, ClaimInv, StoreHolder
  <2>2. pos[t] \in Nat \ {0} /\ fastest_lap_holder \in Seq(Store) /\ last \in Nat \ {0}
    BY DEF IInv, TypeOK, HistoryInv
  <2> QED BY <2>1, <2>2
<1>2. new \in Store
  BY <1>1, ClaimFact
<1>3. fastest_lap_holder' = Append(fastest_lap_holder, new)
  BY DEF StoreHolder, HolderStore, Carried, ReleaseOrders
<1>4. /\ fastest_lap_holder' \in Seq(Store) /\ Len(fastest_lap_holder') = last + 1
      /\ fastest_lap_holder'[last + 1] = new
      /\ \A j \in 1 .. last : fastest_lap_holder'[j] = fastest_lap_holder[j]
  <2> HIDE DEF Store, new
  <2> QED BY <1>1, <1>2, <1>3
<1>5. TypeOK'
  <2>1. pc' \in [Claimers -> {"idle", "exchange", "store"}] /\ settled' \subseteq Claim
    BY <1>1 DEF IInv, TypeOK, StoreHolder, GoTo
  <2> QED BY <1>4, <2>1 DEF IInv, TypeOK, StoreHolder
<1>6. HistoryInv'
  BY <1>1, <1>4 DEF IInv, HistoryInv, StoreHolder
<1>7. ClaimInv'
  BY DEF IInv, TypeOK, ClaimInv, StoreHolder, GoTo
<1>8. OneWinnerPerTime'
  BY DEF IInv, OneWinnerPerTime, StoreHolder
<1>9. NoClaimLost'
  <2>1. Best <= claim[t].time
    BY <1>1, BestIsLeast DEF IInv
  <2> QED BY <2>1 DEF IInv, NoClaimLost, Best, Newest, StoreHolder
<1>10. ReaderInv'
  <2>1. reader' = reader /\ new.carries = new.win
    BY DEF StoreHolder
  <2>2. ReaderInv
    BY DEF IInv
  <2> HIDE DEF new
  <2>3. ASSUME NEW j \in 1 .. Len(fastest_lap_holder')
        PROVE  fastest_lap_holder'[j].carries = fastest_lap_holder'[j].win
    <3>1. j = last + 1 \/ j \in 1 .. last
      BY <1>1, <1>4
    <3> QED
      BY <1>4, <2>1, <2>2, <3>1, Zenon DEF ReaderInv
  <2>4. reader.holder \in 1 .. last /\ reader.holder \in 1 .. Len(fastest_lap_holder')
    <3>1. reader.holder \in 1 .. last
      BY <2>2 DEF ReaderInv
    <3> QED
      BY <1>1, <1>4, <3>1
  <2> QED
    BY <1>4, <2>1, <2>2, <2>3, <2>4 DEF ReaderInv
<1> QED BY <1>5, <1>6, <1>7, <1>8, <1>9, <1>10 DEF IInv

\* The load of the holder tells the reader of the win that it carries.
LEMMA ReadHolderInv ==
    ASSUME IInv, NEW j \in 1 .. Len(fastest_lap_holder), ReadHolder(j)
    PROVE  IInv'
<1> DEFINE Store == [driver : Drivers \union {NoDriver}, win : Nat \ {0}, carries : Nat]
<1>1. fastest_lap_holder[j] \in Store
  <2>1. fastest_lap_holder \in Seq(Store)
    BY DEF IInv, TypeOK
  <2> HIDE DEF Store
  <2> QED BY <2>1
<1>2. /\ fastest_lap_holder[j].carries = fastest_lap_holder[j].win
      /\ fastest_lap_holder[j].win \in Nat \ {0} /\ reader.knows \in Nat \ {0}
      /\ j \in Nat \ {0}
  <2>1. fastest_lap_holder[j].carries = fastest_lap_holder[j].win
    BY DEF IInv, ReaderInv
  <2>2. fastest_lap_holder[j].win \in Nat \ {0}
    BY <1>1
  <2>3. reader.knows \in Nat \ {0} /\ j \in Nat \ {0}
    BY DEF IInv, TypeOK, HistoryInv
  <2> QED BY <2>1, <2>2, <2>3
<1> DEFINE seen == Learned(HolderLoad, reader.knows, fastest_lap_holder[j].carries)
<1>3. seen \in Nat \ {0} /\ fastest_lap_holder[j].win <= seen
  BY <1>2 DEF Learned, HolderLoad, AcquireOrders
<1>4. reader' = [reader EXCEPT !.pc = "time", !.holder = j, !.knows = seen]
  BY DEF ReadHolder
<1>5. TypeOK'
  <2> HIDE DEF seen
  <2>1. reader' \in [pc : {"holder", "time"}, holder : Nat \ {0}, time : Nat \ {0},
                     knows : Nat \ {0}]
    BY <1>2, <1>3, <1>4 DEF IInv, TypeOK
  <2> QED BY <2>1 DEF IInv, TypeOK, ReadHolder
<1>6. ReaderInv'
  <2> HIDE DEF seen
  <2>1. reader'.pc = "time" /\ reader'.holder = j /\ reader'.knows = seen
    BY <1>4 DEF IInv, TypeOK
  <2> QED BY <1>3, <2>1 DEF IInv, ReaderInv, ReadHolder
<1>7. HistoryInv' /\ ClaimInv' /\ OneWinnerPerTime' /\ NoClaimLost'
  BY DEF IInv, HistoryInv, ClaimInv, OneWinnerPerTime, NoClaimLost, Best, Newest, ReadHolder
<1> QED BY <1>5, <1>6, <1>7 DEF IInv

\* The load of the time is no older than what the reader knows.
LEMMA ReadTimeInv ==
    ASSUME IInv, NEW i \in 1 .. Len(fastest_lap_ms), ReadTime(i)
    PROVE  IInv'
<1>1. i \in Nat \ {0} /\ reader.knows <= i /\ reader.knows \in Nat
  BY DEF IInv, TypeOK, HistoryInv, ReadTime
<1>2. reader' = [reader EXCEPT !.pc = "holder", !.time = i, !.knows = i]
  BY DEF ReadTime
<1>3. TypeOK'
  BY <1>1, <1>2 DEF IInv, TypeOK, ReadTime
<1>4. ReaderInv'
  <2>1. /\ reader'.pc = "holder" /\ reader'.holder = reader.holder
        /\ reader'.knows = i /\ reader'.time = i
    BY <1>2 DEF IInv, TypeOK
  <2>2. fastest_lap_holder[reader.holder].win \in Nat
    <3> DEFINE Store == [driver : Drivers \union {NoDriver}, win : Nat \ {0}, carries : Nat]
    <3>1. fastest_lap_holder \in Seq(Store) /\ reader.holder \in 1 .. Len(fastest_lap_holder)
      BY DEF IInv, TypeOK, ReaderInv
    <3>2. fastest_lap_holder[reader.holder] \in Store
      <4> HIDE DEF Store
      <4> QED BY <3>1
    <3> QED BY <3>2
  <2> QED BY <1>1, <2>1, <2>2 DEF IInv, ReaderInv, ReadTime
<1>5. HistoryInv' /\ ClaimInv' /\ OneWinnerPerTime' /\ NoClaimLost'
  BY DEF IInv, HistoryInv, ClaimInv, OneWinnerPerTime, NoClaimLost, Best, Newest, ReadTime
<1> QED BY <1>3, <1>4, <1>5 DEF IInv

\* Every step preserves the invariant.
LEMMA NextInv == IInv /\ [Next]_vars => IInv'
<1> SUFFICES ASSUME IInv, [Next]_vars PROVE IInv'
  OBVIOUS
<1>1. CASE Reading
  BY <1>1, ReadHolderInv, ReadTimeInv DEF Reading
<1>2. CASE \E t \in Claimers : Claiming(t)
  BY <1>2, ClaimBeginInv, ExchangeSucceedsInv, ExchangeFailsInv, StoreHolderInv DEF Claiming
<1>3. CASE UNCHANGED vars
  BY <1>3 DEF vars, IInv, TypeOK, HistoryInv, ClaimInv, OneWinnerPerTime, NoClaimLost,
              ReaderInv, Best, Newest
<1> QED BY <1>1, <1>2, <1>3 DEF Next

(* The invariant holds in every reachable state.                              *)
THEOREM Invariance == Spec => []IInv
<1> QED BY InitInv, NextInv, PTL DEF Spec

-----------------------------------------------------------------------------
(* The time only ever improves, and strictly, whatever the number of claimers *)
(* and however stale their loads: exactly one of equal claims wins            *)
(* (race_state.h:79-80).                                                      *)
THEOREM OneWinner == Spec => []OneWinnerPerTime
<1>1. IInv => OneWinnerPerTime
  BY DEF IInv
<1> QED BY Invariance, <1>1, PTL

(* No claim that has returned, on any path of try_claim_fastest_lap(), was     *)
(* better than the recorded time.                                             *)
THEOREM ClaimsKept == Spec => []NoClaimLost
<1>1. IInv => NoClaimLost
  BY DEF IInv
<1> QED BY Invariance, <1>1, PTL

(* Whoever reads the holder and then the time, as main() does for its summary, *)
(* reads a time no older than the holder's win.                               *)
THEOREM ReaderConsistent == Spec => []TimeCoversHolder
<1>1. IInv => TimeCoversHolder
  BY DEF IInv, ReaderInv, TimeCoversHolder
<1> QED BY Invariance, <1>1, PTL
-----------------------------------------------------------------------------
\* With one claimer, as in the simulator, nothing comes between the exchange of the
\* time and the store of the holder.

SoleClaimer == \A t, u \in Claimers : t = u

\* The claimer has read its own last store, as nobody else makes one, and if it is to store
\* the holder, that store was not the initial one.
AgreementInv ==
    /\ \A t \in Claimers : /\ pos[t] = Len(fastest_lap_ms)
                           /\ pc[t] = "store" => Len(fastest_lap_ms) > 1
    /\ (\A t \in Claimers : pc[t] # "store") =>
         Newest(fastest_lap_holder).driver = Newest(fastest_lap_ms).by

(* What the two histories end with after a step that appends to one of them.  *)
LEMMA NewestAfterExchange ==
    ASSUME IInv, NEW t \in Claimers, ExchangeSucceeds(t)
    PROVE  /\ Len(fastest_lap_ms') = Len(fastest_lap_ms) + 1
           /\ pos'[t] = Len(fastest_lap_ms') /\ pc'[t] = "store"
BY DEF IInv, TypeOK, HistoryInv, ExchangeSucceeds, GoTo

\* The holder stored is the one who set the newest time.
LEMMA NewestAfterStore ==
    ASSUME IInv, NEW t \in Claimers, StoreHolder(t), pos[t] = Len(fastest_lap_ms)
    PROVE  Newest(fastest_lap_holder').driver = Newest(fastest_lap_ms').by
<1> DEFINE new == [driver |-> claim[t].driver, win |-> pos[t],
                   carries |-> Carried(HolderStore, pos[t])]
<1>1. /\ fastest_lap_holder' = Append(fastest_lap_holder, new)
      /\ fastest_lap_ms' = fastest_lap_ms
      /\ fastest_lap_ms[pos[t]].by = claim[t].driver
  <2>1. fastest_lap_ms[pos[t]] = [time |-> claim[t].time, by |-> claim[t].driver]
    BY DEF IInv, ClaimInv, StoreHolder
  <2> QED BY <2>1 DEF StoreHolder
<1>2. Len(fastest_lap_holder) \in Nat
  BY DEF IInv, HistoryInv
<1>3. Newest(fastest_lap_holder') = new
  <2> HIDE DEF new
  <2>1. /\ Len(fastest_lap_holder') = Len(fastest_lap_holder) + 1
        /\ fastest_lap_holder'[Len(fastest_lap_holder) + 1] = new
    <3> DEFINE Store == [driver : Drivers \union {NoDriver}, win : Nat \ {0}, carries : Nat]
    <3>1. fastest_lap_holder \in Seq(Store)
      BY DEF IInv, TypeOK
    <3> HIDE DEF Store
    <3> QED BY <1>1, <3>1
  <2> QED BY <2>1 DEF Newest
<1> QED BY <1>1, <1>3 DEF Newest

\* Whatever the claimer loads is the newest time.
LEMMA LoadIsNewest ==
    ASSUME IInv, AgreementInv, NEW t \in Claimers, NEW i \in pos[t] .. Len(fastest_lap_ms)
    PROVE  i = Len(fastest_lap_ms)
<1>1. pos[t] = Len(fastest_lap_ms)
  BY DEF AgreementInv
<1>2. Len(fastest_lap_ms) \in Nat
  BY DEF IInv, HistoryInv
<1> QED BY <1>1, <1>2

\* A load, at the call or by a failed exchange, finds the newest time; a claim that it ends
\* does not beat that.
LEMMA LoadEffect ==
    ASSUME IInv, AgreementInv, NEW t \in Claimers,
           \/ \E c \in Claim, i \in 1 .. Len(fastest_lap_ms) : ClaimBegin(t, c, i)
           \/ \E i \in 1 .. Len(fastest_lap_ms) : ExchangeFails(t, i)
    PROVE  /\ UNCHANGED <<fastest_lap_ms, fastest_lap_holder>>
           /\ pos'[t] = Len(fastest_lap_ms) /\ pc[t] # "store" /\ pc'[t] # "store"
           /\ pc'[t] = "exchange" \/ (pc'[t] = "idle" /\ ~(claim'[t].time < Best))
<1>1. PICK c, i : /\ i \in pos[t] .. Len(fastest_lap_ms) /\ LoopTest(t, c, i) /\ claim'[t] = c
                  /\ pc[t] # "store" /\ UNCHANGED <<fastest_lap_ms, fastest_lap_holder>>
  <2>1. ASSUME NEW c \in Claim, NEW i \in 1 .. Len(fastest_lap_ms), ClaimBegin(t, c, i)
        PROVE  /\ i \in pos[t] .. Len(fastest_lap_ms) /\ LoopTest(t, c, i) /\ claim'[t] = c
               /\ pc[t] # "store" /\ UNCHANGED <<fastest_lap_ms, fastest_lap_holder>>
    <3>1. /\ claim' = [claim EXCEPT ![t] = c] /\ DOMAIN claim = Claimers
      BY <2>1 DEF ClaimBegin, IInv, TypeOK
    <3> QED BY <2>1, <3>1 DEF ClaimBegin
  <2>2. ASSUME NEW i \in 1 .. Len(fastest_lap_ms), ExchangeFails(t, i)
        PROVE  /\ i \in pos[t] .. Len(fastest_lap_ms)
               /\ LoopTest(t, claim[t], i) /\ claim'[t] = claim[t]
               /\ pc[t] # "store" /\ UNCHANGED <<fastest_lap_ms, fastest_lap_holder>>
    BY <2>2 DEF ExchangeFails
  <2>3. CASE \E c \in Claim, i \in 1 .. Len(fastest_lap_ms) : ClaimBegin(t, c, i)
    BY <2>1, <2>3
  <2>4. CASE \E i \in 1 .. Len(fastest_lap_ms) : ExchangeFails(t, i)
    BY <2>2, <2>4
  <2> QED BY <2>3, <2>4
<1>2. i = Len(fastest_lap_ms)
  BY <1>1, LoadIsNewest
<1>3. fastest_lap_ms[i].time = Best
  BY <1>2 DEF Best, Newest
<1>4. DOMAIN pc = Claimers /\ DOMAIN pos = Claimers
  BY DEF IInv, TypeOK
<1>5. pos'[t] = i
  BY <1>1, <1>4 DEF LoopTest
<1>6. IF c.time < Best THEN pc'[t] = "exchange" ELSE pc'[t] = "idle"
  BY <1>1, <1>3, <1>4 DEF LoopTest, GoTo
<1> QED BY <1>1, <1>2, <1>5, <1>6

\* A step of the sole claimer, or of the reader, keeps the agreement.
LEMMA AgreementStep ==
    ASSUME SoleClaimer, IInv, AgreementInv, [Next]_vars
    PROVE  AgreementInv'
<1>1. CASE Reading
  BY <1>1 DEF Reading, ReadHolder, ReadTime, AgreementInv, Newest
<1>2. ASSUME NEW t \in Claimers, Claiming(t) PROVE AgreementInv'
  <2>1. \A u \in Claimers : u = t
    BY DEF SoleClaimer
  <2>2. CASE \/ \E c \in Claim, i \in 1 .. Len(fastest_lap_ms) : ClaimBegin(t, c, i)
             \/ \E i \in 1 .. Len(fastest_lap_ms) : ExchangeFails(t, i)
    <3>1. /\ UNCHANGED <<fastest_lap_ms, fastest_lap_holder>>
          /\ pos'[t] = Len(fastest_lap_ms) /\ pc[t] # "store" /\ pc'[t] # "store"
      BY <2>2, LoadEffect
    <3> QED BY <2>1, <3>1 DEF AgreementInv, Newest
  <2>3. CASE ExchangeSucceeds(t)
    <3>1. /\ Len(fastest_lap_ms') = Len(fastest_lap_ms) + 1
          /\ pos'[t] = Len(fastest_lap_ms') /\ pc'[t] = "store"
      BY <2>3, NewestAfterExchange
    <3>2. Len(fastest_lap_ms') > 1
      BY <3>1 DEF IInv, HistoryInv
    <3> QED BY <2>1, <3>1, <3>2 DEF AgreementInv
  <2>4. CASE StoreHolder(t)
    <3>1. pos[t] = Len(fastest_lap_ms) /\ pc'[t] = "idle"
      <4>1. pc' = [pc EXCEPT ![t] = "idle"] /\ DOMAIN pc = Claimers
        BY <2>4 DEF StoreHolder, GoTo, IInv, TypeOK
      <4> QED BY <4>1 DEF AgreementInv
    <3>2. pos' = pos /\ fastest_lap_ms' = fastest_lap_ms
      BY <2>4 DEF StoreHolder
    <3>3. Newest(fastest_lap_holder').driver = Newest(fastest_lap_ms').by
      BY <2>4, <3>1, NewestAfterStore
    <3> QED BY <2>1, <3>1, <3>2, <3>3 DEF AgreementInv
  <2> QED BY <1>2, <2>2, <2>3, <2>4 DEF Claiming
<1>3. CASE UNCHANGED vars
  BY <1>3 DEF vars, AgreementInv, Newest
<1> QED BY <1>1, <1>2, <1>3 DEF Next

\* With one claimer both invariants hold in every reachable state.
LEMMA SoleInvariance ==
    ASSUME SoleClaimer
    PROVE  Spec => [](IInv /\ AgreementInv)
<1>1. Init => AgreementInv
  BY DEF Init, AgreementInv, Newest
<1>2. IInv /\ AgreementInv /\ [Next]_vars => AgreementInv'
  BY AgreementStep
<1> QED BY Invariance, <1>1, <1>2, PTL DEF Spec

(* With one claimer the holder recorded is the driver whose claim set the time *)
(* whenever no claim is in progress; with two the run shows that it need not.  *)
THEOREM SoleClaimerAgrees ==
    ASSUME SoleClaimer
    PROVE  Spec => []HolderSetTheTime
<1>1. AgreementInv => HolderSetTheTime
  BY DEF AgreementInv, HolderSetTheTime
<1> QED BY SoleInvariance, <1>1, PTL

-----------------------------------------------------------------------------
\* What is recorded, for a thread that takes a claim as one step: a claim counts when it
\* returns, so while the holder is still to be stored it is the time before the last.

RecordedTime ==
    IF \E t \in Claimers : pc[t] = "store" THEN fastest_lap_ms[Len(fastest_lap_ms) - 1].time
                                           ELSE Best

RecordedHolder == Newest(fastest_lap_holder).driver

\* The step in which a claim of t returns, true or false.
Settles(t) == pc'[t] = "idle" /\ (pc[t] # "idle" \/ claims'[t] # claims[t])

\* A claim that beats what is recorded is recorded when it returns; else nothing changes.
ClaimAtOnce ==
    IF \E t \in Claimers : Settles(t) /\ claim'[t].time < RecordedTime
      THEN \E t \in Claimers : Settles(t) /\ RecordedTime' = claim'[t].time
                                         /\ RecordedHolder' = claim'[t].driver
      ELSE UNCHANGED <<RecordedTime, RecordedHolder>>

\* What is recorded while the sole claimer is about to store the holder, and at other times.
LEMMA RecordedFact ==
    ASSUME SoleClaimer, NEW t \in Claimers
    PROVE  /\ pc[t] = "store" =>
                RecordedTime = fastest_lap_ms[Len(fastest_lap_ms) - 1].time
           /\ pc[t] # "store" => RecordedTime = Best
           /\ pc'[t] = "store" =>
                RecordedTime' = fastest_lap_ms'[Len(fastest_lap_ms') - 1].time
           /\ pc'[t] # "store" => RecordedTime' = Best'
<1>1. \A u \in Claimers : u = t
  BY DEF SoleClaimer
<1> QED BY <1>1, Zenon DEF RecordedTime

\* A load finds the newest time, so a claim that returns on it does not beat that.
LEMMA LoadRecordsNothing ==
    ASSUME SoleClaimer, IInv, AgreementInv, NEW t \in Claimers,
           \/ \E c \in Claim, i \in 1 .. Len(fastest_lap_ms) : ClaimBegin(t, c, i)
           \/ \E i \in 1 .. Len(fastest_lap_ms) : ExchangeFails(t, i)
    PROVE  ClaimAtOnce
<1>1. /\ UNCHANGED <<fastest_lap_ms, fastest_lap_holder>> /\ pc[t] # "store"
      /\ pc'[t] = "exchange" \/ (pc'[t] = "idle" /\ ~(claim'[t].time < Best))
  BY LoadEffect
<1>2. RecordedTime = Best
  BY <1>1, RecordedFact
<1>3. RecordedTime' = RecordedTime
  <2>1. Best' = Best
    BY <1>1 DEF Best, Newest
  <2>2. pc'[t] # "store"
    BY <1>1
  <2> QED BY <1>2, <2>1, <2>2, RecordedFact
<1>4. RecordedHolder' = RecordedHolder
  BY <1>1 DEF RecordedHolder, Newest
<1>5. \A u \in Claimers : u = t
  BY DEF SoleClaimer
<1>6. ~(\E u \in Claimers : Settles(u) /\ claim'[u].time < RecordedTime)
  BY <1>1, <1>2, <1>5 DEF Settles
<1> QED BY <1>3, <1>4, <1>6 DEF ClaimAtOnce

\* The exchange settles nothing: what was recorded is now the time before the last.
LEMMA ExchangeRecordsNothing ==
    ASSUME SoleClaimer, IInv, NEW t \in Claimers, ExchangeSucceeds(t)
    PROVE  ClaimAtOnce
<1> DEFINE last == Len(fastest_lap_ms)
           new == [time |-> claim[t].time, by |-> claim[t].driver]
           Store == [time : Time, by : Drivers \union {NoDriver}]
<1>1. Len(fastest_lap_ms') = last + 1 /\ pc'[t] = "store" /\ pc[t] = "exchange"
  BY NewestAfterExchange DEF ExchangeSucceeds
<1>2. fastest_lap_ms \in Seq(Store) /\ last \in Nat \ {0}
  BY DEF IInv, TypeOK, HistoryInv
<1>3. fastest_lap_ms' = Append(fastest_lap_ms, new) /\ fastest_lap_holder' = fastest_lap_holder
  BY DEF ExchangeSucceeds
<1>4. fastest_lap_ms'[Len(fastest_lap_ms') - 1] = fastest_lap_ms[last]
  <2> HIDE DEF new, Store
  <2>1. Len(fastest_lap_ms') - 1 = last
    BY <1>1, <1>2
  <2>2. fastest_lap_ms'[last] = fastest_lap_ms[last]
    BY <1>2, <1>3
  <2> QED BY <2>1, <2>2
<1>5. RecordedTime = Best
  BY <1>1, RecordedFact
<1>6. RecordedTime' = fastest_lap_ms'[Len(fastest_lap_ms') - 1].time
  BY <1>1, RecordedFact
<1>7. RecordedTime' = RecordedTime
  BY <1>4, <1>5, <1>6, Zenon DEF Best, Newest
<1>8. RecordedHolder' = RecordedHolder
  BY <1>3 DEF RecordedHolder, Newest
<1>9. ~(\E u \in Claimers : Settles(u) /\ claim'[u].time < RecordedTime)
  BY <1>1 DEF SoleClaimer, Settles
<1> QED BY <1>7, <1>8, <1>9 DEF ClaimAtOnce

\* The store of the holder is where a claim that has won takes effect.
LEMMA StoreRecordsClaim ==
    ASSUME SoleClaimer, IInv, AgreementInv, NEW t \in Claimers, StoreHolder(t)
    PROVE  ClaimAtOnce
<1>1. PICK last : last = Len(fastest_lap_ms)
  OBVIOUS
<1>2. pc[t] = "store" /\ fastest_lap_ms' = fastest_lap_ms /\ claim' = claim
  BY DEF StoreHolder
<1>3. pc'[t] = "idle"
  <2>1. pc' = [pc EXCEPT ![t] = "idle"] /\ DOMAIN pc = Claimers
    BY DEF StoreHolder, GoTo, IInv, TypeOK
  <2> QED BY <2>1
<1>4. last \in Nat /\ last > 1 /\ pos[t] = last
  BY <1>1, <1>2 DEF AgreementInv, IInv, HistoryInv
<1>5. /\ fastest_lap_ms[last].time = claim[t].time
      /\ fastest_lap_ms[last].by = claim[t].driver
  <2>1. fastest_lap_ms[pos[t]] = [time |-> claim[t].time, by |-> claim[t].driver]
    BY <1>2 DEF IInv, ClaimInv
  <2> QED BY <1>4, <2>1
<1>6. claim[t].time < fastest_lap_ms[last - 1].time
  <2>1. last - 1 \in 1 .. last /\ last \in 1 .. last /\ last - 1 < last
    BY <1>4
  <2>2. OneWinnerPerTime
    BY DEF IInv
  <2>3. fastest_lap_ms[last].time < fastest_lap_ms[last - 1].time
    BY <1>1, <2>1, <2>2, Zenon DEF OneWinnerPerTime
  <2> QED BY <1>5, <2>3
<1>7. RecordedTime = fastest_lap_ms[last - 1].time
  BY <1>1, <1>2, RecordedFact
<1>8. RecordedTime' = claim'[t].time
  <2>1. RecordedTime' = Best'
    BY <1>3, RecordedFact
  <2>2. Best' = fastest_lap_ms[last].time
    BY <1>1, <1>2 DEF Best, Newest
  <2> QED BY <1>2, <1>5, <2>1, <2>2
<1>9. RecordedHolder' = claim'[t].driver
  <2>1. Newest(fastest_lap_holder').driver = Newest(fastest_lap_ms').by
    BY <1>1, <1>4, NewestAfterStore
  <2>2. Newest(fastest_lap_ms').by = claim[t].driver
    BY <1>1, <1>2, <1>5 DEF Newest
  <2> QED BY <1>2, <2>1, <2>2 DEF RecordedHolder
<1>10. Settles(t) /\ claim'[t].time < RecordedTime
  BY <1>2, <1>3, <1>6, <1>7 DEF Settles
<1> QED BY <1>8, <1>9, <1>10, Zenon DEF ClaimAtOnce

(* With one claimer try_claim_fastest_lap() is a single step to everybody who   *)
(* looks at what is recorded: the time and the holder change together, when a  *)
(* call returns that beats the time recorded, to the arguments of that call,   *)
(* and never otherwise.  LapPipeline takes a claim as this one step.           *)
THEOREM SoleClaimIsOneStep ==
    ASSUME SoleClaimer
    PROVE  Spec => [][ClaimAtOnce]_vars
<1>1. ASSUME IInv, AgreementInv, Next PROVE ClaimAtOnce
  <2>1. CASE Reading
    <3>1. UNCHANGED <<fastest_lap_ms, fastest_lap_holder, pc, claims>>
      BY <2>1 DEF Reading, ReadHolder, ReadTime
    <3>2. RecordedTime' = RecordedTime /\ RecordedHolder' = RecordedHolder
      BY <3>1 DEF RecordedTime, RecordedHolder, Best, Newest
    <3>3. \A u \in Claimers : ~Settles(u)
      BY <3>1 DEF Settles
    <3> QED BY <3>2, <3>3 DEF ClaimAtOnce
  <2>2. ASSUME NEW t \in Claimers, Claiming(t) PROVE ClaimAtOnce
    <3>1. CASE \/ \E c \in Claim, i \in 1 .. Len(fastest_lap_ms) : ClaimBegin(t, c, i)
               \/ \E i \in 1 .. Len(fastest_lap_ms) : ExchangeFails(t, i)
      BY <1>1, <3>1, LoadRecordsNothing
    <3>2. CASE ExchangeSucceeds(t)
      BY <1>1, <3>2, ExchangeRecordsNothing
    <3>3. CASE StoreHolder(t)
      BY <1>1, <3>3, StoreRecordsClaim
    <3> QED BY <2>2, <3>1, <3>2, <3>3 DEF Claiming
  <2> QED BY <1>1, <2>1, <2>2 DEF Next
<1> QED BY SoleInvariance, <1>1, PTL DEF Spec
=============================================================================
