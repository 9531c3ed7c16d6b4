--------------------------- MODULE LapPipelineProof ---------------------------
(***************************************************************************)
(* Proofs about LapPipeline, for every grid, set of lap times, queue size   *)
(* and number of ticks: its types, that the summary announces the best of   *)
(* all the laps that got into the queue, and how far that can be from the   *)
(* best laps of the drivers.                                                *)
(***************************************************************************)
EXTENDS LapPipeline, TLAPS

\* What the consumer has popped is the beginning of what was pushed, and it pops
\* no more than it has seen.
PopsArePrefix ==
    /\ Len(got) <= sent_seen /\ sent_seen <= Len(sent)
    /\ \A i \in 1 .. Len(got) : got[i] = sent[i]

\* The result a sequential scan of the first n frames pushed would announce.
IsFastestOfFirst(n, ms, driver) ==
    LET laps == {i \in 1 .. n : sent[i].lap_time_ms > 0} IN
    IF laps = {} THEN ms = None /\ driver = None
    ELSE \E i \in laps :
           /\ \A j \in laps :
                \/ sent[i].lap_time_ms < sent[j].lap_time_ms
                \/ sent[i].lap_time_ms = sent[j].lap_time_ms /\ i <= j
           /\ ms = sent[i].lap_time_ms /\ driver = sent[i].driver

\* The frames the consumer has popped and dealt with: the last one popped is
\* still in its hands between pop() and try_claim_fastest_lap.
HoldsFrame == pc["consumer"] \in {"claim", "drain_claim"}
Judged == IF HoldsFrame THEN Len(got) - 1 ELSE Len(got)

ResultIsCurrent ==
    /\ HoldsFrame => Len(got) > 0 /\ frame["consumer"] = sent[Len(got)]
    /\ IsFastestOfFirst(Judged, fastest_lap_ms, fastest_lap_holder)

\* main() starts each thread once, and stops the threads one after the other.
StopsInOrder ==
    /\ pc["main"] = "start_generator" => pc["generator"] = "new"
    /\ pc["main"] \in {"start_generator", "start_consumer"} => pc["consumer"] = "new"
    /\ pc["main"] \in {"stop_consumer", "join_consumer", "summary"}
         => pc["generator"] = "exited"
    /\ stop_requested["consumer"] => pc["main"] \in {"join_consumer", "summary"}
    /\ pc["main"] = "summary" => pc["consumer"] = "exited"

\* The drain begins when nothing more is pushed, so it leaves nothing.
DrainsAll ==
    /\ Draining \/ pc["consumer"] = "exited"
         => stop_requested["consumer"] /\ sure = Len(sent)
    /\ pc["consumer"] = "drain_retry" => sent_seen = Len(sent)
    /\ pc["consumer"] = "exited" => Len(got) = Len(sent)

\* The generator has a frame that it has not pushed yet.
OffersFrame == pc["generator"] \in {"push", "retry"}

\* A driver's best lap is no worse than the lap a frame of his reports.
Counted(f) == f.lap_time_ms > 0 => best_lap[f.driver] \in 1 .. f.lap_time_ms

\* The frame that reports a driver's best lap, and what may have become of it.
BestFrame(d) == [driver |-> d, lap_time_ms |-> best_lap[d]]
Reported(d) ==
    \/ \E i \in 1 .. Len(sent) : sent[i] = BestFrame(d)
    \/ BestFrame(d) \in refused
    \/ OffersFrame /\ frame["generator"] = BestFrame(d)

\* The best laps are those of the frames pushed, refused and about to be pushed.
BestLapsAreReported ==
    /\ \A i \in 1 .. Len(sent) : Counted(sent[i])
    /\ OffersFrame => Counted(frame["generator"])
    /\ \A d \in Driver : best_lap[d] > 0 => Reported(d)

PipelineInv ==
    /\ TypeOK /\ PopsArePrefix /\ ResultIsCurrent /\ StopsInOrder /\ DrainsAll
    /\ BestLapsAreReported

USE LapPipelineAssumption
-----------------------------------------------------------------------------
\* Lemmas about the data.

\* The grid has a first car, and every position of it is a driver's.
LEMMA GridTypes ==
    /\ Len(Grid) \in Nat \ {0}
    /\ \A i \in 1 .. Len(Grid) : Grid[i] \in Driver
    /\ NoFrame \in Frame
<1>1. Len(Grid) \in Nat \ {0} /\ 1 \in 1 .. Len(Grid)
  OBVIOUS
<1>2. \A i \in 1 .. Len(Grid) : Grid[i] \in Driver
  BY DEF Driver
<1>3. NoFrame \in Frame
  BY <1>1, <1>2 DEF NoFrame, Frame
<1> QED
  BY <1>1, <1>2, <1>3

\* Appending a frame keeps the frames before it (push() and pop() of the queue).
LEMMA AppendFrame ==
    ASSUME NEW q \in Seq(Frame), NEW f \in Frame
    PROVE  /\ Append(q, f) \in Seq(Frame)
           /\ Len(Append(q, f)) = Len(q) + 1
           /\ \A i \in 1 .. Len(q) : Append(q, f)[i] = q[i]
           /\ Append(q, f)[Len(q) + 1] = f
OBVIOUS

\* An element of the queue is a frame.
LEMMA ElementIsFrame ==
    ASSUME NEW q \in Seq(Frame), NEW i \in 1 .. Len(q)
    PROVE  /\ q[i] \in Frame
           /\ q[i].lap_time_ms \in Nat /\ q[i].lap_time_ms \in LapTimes \union {0}
           /\ q[i].driver \in Driver
<1>1. q[i] \in Frame
  OBVIOUS
<1>2. q[i].lap_time_ms \in LapTimes \union {0} /\ q[i].driver \in Driver
  BY <1>1 DEF Frame
<1>3. \A t \in LapTimes \union {0} : t \in Nat
  OBVIOUS
<1> QED
  BY <1>1, <1>2, <1>3

\* try_claim_fastest_lap with frame n makes the best of the first n - 1 frames the
\* best of the first n: an equal time does not win.
LEMMA ClaimAdvances ==
    ASSUME sent \in Seq(Frame), NEW n \in 1 .. Len(sent),
           IsFastestOfFirst(n - 1, fastest_lap_ms, fastest_lap_holder),
           fastest_lap_ms \in LapTimes \union {None}
    PROVE  IF Beats(sent[n].lap_time_ms)
             THEN IsFastestOfFirst(n, sent[n].lap_time_ms, sent[n].driver)
             ELSE IsFastestOfFirst(n, fastest_lap_ms, fastest_lap_holder)
<1> DEFINE laps(k) == {i \in 1 .. k : sent[i].lap_time_ms > 0}
           ms == sent[n].lap_time_ms
<1>1. n \in Nat /\ n - 1 \in Nat /\ ms \in Nat /\ ms \in LapTimes \union {0}
  BY ElementIsFrame
<1>2. \A i \in 1 .. n : sent[i].lap_time_ms \in Nat /\ sent[i].lap_time_ms \in LapTimes \union {0}
  <2> TAKE i \in 1 .. n
  <2>1. i \in 1 .. Len(sent)
    BY <1>1
  <2> QED
    BY <2>1, ElementIsFrame
<1>3. CASE ms = 0
  <2>1. laps(n) = laps(n - 1)
    BY <1>1, <1>2, <1>3
  <2>2. ~Beats(ms)
    BY <1>3 DEF Beats
  <2> QED
    BY <2>1, <2>2 DEF IsFastestOfFirst
<1>4. CASE ms > 0
  <2>1. laps(n) = laps(n - 1) \union {n} /\ n \in laps(n)
    BY <1>1, <1>2, <1>4
  <2>2. CASE laps(n - 1) = {}
    <3>1. fastest_lap_ms = None
      BY <2>2 DEF IsFastestOfFirst
    <3>2. Beats(ms) /\ laps(n) = {n}
      BY <1>4, <2>1, <2>2, <3>1 DEF Beats
    <3>3. \A j \in laps(n) :
             \/ ms < sent[j].lap_time_ms
             \/ ms = sent[j].lap_time_ms /\ n <= j
      <4>1. n <= n /\ ms = sent[n].lap_time_ms
        BY <1>1
      <4> QED
        BY <4>1, <3>2, Zenon
    <3>4. IsFastestOfFirst(n, ms, sent[n].driver)
      BY <3>3, <2>1 DEF IsFastestOfFirst
    <3> QED
      BY <3>2, <3>4
  <2>3. CASE laps(n - 1) # {}
    <3>1. PICK i \in laps(n - 1) :
             /\ \A j \in laps(n - 1) :
                  \/ sent[i].lap_time_ms < sent[j].lap_time_ms
                  \/ sent[i].lap_time_ms = sent[j].lap_time_ms /\ i <= j
             /\ fastest_lap_ms = sent[i].lap_time_ms /\ fastest_lap_holder = sent[i].driver
      BY <2>3 DEF IsFastestOfFirst
    <3>2. i \in 1 .. n /\ i < n /\ i \in laps(n) /\ fastest_lap_ms \in Nat /\ fastest_lap_ms # None
      <4>1. i \in 1 .. n /\ i < n /\ i \in laps(n)
        BY <3>1, <1>1, <2>1
      <4>2. sent[i].lap_time_ms \in LapTimes /\ sent[i].lap_time_ms \in Nat
        BY <4>1, <1>2
      <4> QED
        BY <4>1, <4>2, <3>1
    <3>3. CASE ms < fastest_lap_ms
      <4>1. Beats(ms)
        BY <3>3, <1>4 DEF Beats
      <4>2. \A j \in laps(n) :
               \/ ms < sent[j].lap_time_ms
               \/ ms = sent[j].lap_time_ms /\ n <= j
        <5>1. ASSUME NEW j \in laps(n - 1) PROVE ms < sent[j].lap_time_ms
          <6>1. j \in 1 .. n /\ sent[j].lap_time_ms \in Nat
            <7>1. j \in 1 .. n
              BY <1>1
            <7> QED
              BY <7>1, <1>2, Zenon
          <6>2. sent[i].lap_time_ms <= sent[j].lap_time_ms
            <7> DEFINE a == sent[i].lap_time_ms
                       b == sent[j].lap_time_ms
            <7>1. a < b \/ a = b
              BY <3>1, Zenon
            <7>2. a \in Nat /\ b \in Nat
              BY <3>1, <3>2, <6>1, Zenon
            <7> HIDE DEF laps, ms, a, b
            <7>3. a <= b
              BY <7>1, <7>2
            <7> QED
              BY <7>3, Zenon DEF a, b
          <6>3. fastest_lap_ms <= sent[j].lap_time_ms
            BY <6>2, <3>1, Zenon
          <6>4. ms \in Nat /\ fastest_lap_ms \in Nat /\ ms < fastest_lap_ms
            BY <1>1, <3>2, <3>3, Zenon
          <6> HIDE DEF laps, ms
          <6> QED
            BY <6>1, <6>3, <6>4
        <5>2. n <= n
          BY <1>1
        <5> QED
          BY <5>1, <5>2, <2>1, Zenon
      <4>3. IsFastestOfFirst(n, ms, sent[n].driver)
        BY <4>2, <2>1 DEF IsFastestOfFirst
      <4> QED
        BY <4>1, <4>3
    <3>4. CASE ~(ms < fastest_lap_ms)
      <4>1. ~Beats(ms)
        BY <3>4, <3>2 DEF Beats
      <4>2. \A j \in laps(n) :
               \/ sent[i].lap_time_ms < sent[j].lap_time_ms
               \/ sent[i].lap_time_ms = sent[j].lap_time_ms /\ i <= j
        <5>1. /\ \/ sent[i].lap_time_ms < sent[n].lap_time_ms
                 \/ sent[i].lap_time_ms = sent[n].lap_time_ms
              /\ i <= n
          <6>1. fastest_lap_ms \in Nat /\ ms \in Nat /\ ~(ms < fastest_lap_ms)
            BY <3>2, <3>4, <1>1, Zenon
          <6>2. fastest_lap_ms < ms \/ fastest_lap_ms = ms
            <7> HIDE DEF ms
            <7> QED
              BY <6>1
          <6>3. i <= n
            BY <3>2, <1>1
          <6> QED
            BY <6>2, <6>3, <3>1, Zenon
        <5> QED
          BY <5>1, <3>1, <2>1, Zenon
      <4>3. IsFastestOfFirst(n, fastest_lap_ms, fastest_lap_holder)
        BY <4>2, <3>1, <3>2 DEF IsFastestOfFirst
      <4> QED
        BY <4>1, <4>3
    <3> QED
      BY <3>3, <3>4
  <2> QED
    BY <2>2, <2>3
<1> QED
  BY <1>1, <1>3, <1>4

-----------------------------------------------------------------------------
\* The invariant.

\* It holds before the threads are started.
LEMMA InitInv == Init => PipelineInv
<1> SUFFICES ASSUME Init PROVE PipelineInv
  OBVIOUS
<1>1. /\ sent = <<>> /\ got = <<>> /\ Len(sent) = 0 /\ Len(got) = 0
      /\ sent_seen = 0 /\ got_seen = 0
  BY DEF Init, Channel!Init
<1>2. frame \in [{"generator", "consumer"} -> Frame] /\ car \in 1 .. Len(Grid)
  BY GridTypes DEF Init
<1>3. TypeOK
  <2>1. sent \in Seq(Frame) /\ got \in Seq(Frame)
    BY <1>1
  <2>2. ticks \in 0 .. MaxTicks
    BY DEF Init
  <2>3. stop_requested \in [{"generator", "consumer"} -> BOOLEAN]
    BY DEF Init
  <2>4. best_lap \in [Driver -> LapTimes \union {0}] /\ refused \subseteq Frame
    BY DEF Init
  <2> QED
    BY <1>1, <1>2, <2>1, <2>2, <2>3, <2>4 DEF Init, TypeOK
<1>4. PopsArePrefix
  BY <1>1 DEF PopsArePrefix
<1>5. Judged = 0 /\ ~HoldsFrame /\ {i \in 1 .. 0 : sent[i].lap_time_ms > 0} = {}
  BY <1>1 DEF Init, Judged, HoldsFrame
<1>6. ResultIsCurrent
  BY <1>5 DEF Init, ResultIsCurrent, IsFastestOfFirst
<1>7. StopsInOrder /\ DrainsAll
  BY DEF Init, StopsInOrder, DrainsAll, Draining
<1>8. BestLapsAreReported
  <2>1. ~OffersFrame /\ \A d \in Driver : best_lap[d] = 0
    BY DEF Init, OffersFrame
  <2>2. 1 .. Len(sent) = {}
    <3>1. 1 .. 0 = {}
      OBVIOUS
    <3> QED
      BY <1>1, <3>1, Zenon
  <2>3. \A d \in Driver : ~(best_lap[d] > 0)
    BY <2>1
  <2> QED
    BY <2>1, <2>2, <2>3, Zenon DEF BestLapsAreReported
<1> QED
  BY <1>3, <1>4, <1>6, <1>7, <1>8 DEF PipelineInv

\* The lengths, indices and lap times that the steps compute with.
LEMMA Numbers ==
    ASSUME TypeOK, PopsArePrefix
    PROVE  /\ Len(sent) \in Nat /\ Len(got) \in Nat /\ Len(got) <= Len(sent)
           /\ got_seen \in Nat /\ sent_seen \in Nat /\ sure \in Nat
<1>1. /\ sent \in Seq(Frame) /\ got \in Seq(Frame)
      /\ got_seen \in Nat /\ sent_seen \in Nat /\ sure \in Nat
  BY Zenon DEF TypeOK
<1>2. Len(sent) \in Nat /\ Len(got) \in Nat
  BY <1>1
<1>3. Len(got) <= sent_seen /\ sent_seen <= Len(sent)
  BY Zenon DEF PopsArePrefix
<1>4. Len(got) <= Len(sent)
  BY <1>1, <1>2, <1>3
<1> QED
  BY <1>1, <1>2, <1>4

\* A step that moves no frame and keeps the result only moves control: which
\* frames are popped and judged stays as it is.
LEMMA ControlStep ==
    ASSUME PipelineInv, UNCHANGED <<sent, got, result>>,
           frame'["consumer"] = frame["consumer"],
           sent_seen' \in sent_seen .. Len(sent),
           HoldsFrame' = HoldsFrame
    PROVE  PopsArePrefix' /\ ResultIsCurrent'
<1>1. PopsArePrefix'
  BY Numbers DEF PipelineInv, PopsArePrefix
<1>2. Judged' = Judged
  BY DEF Judged
<1>3. IsFastestOfFirst(Judged, fastest_lap_ms, fastest_lap_holder)'
  BY <1>2 DEF PipelineInv, ResultIsCurrent, IsFastestOfFirst, result
<1>4. ResultIsCurrent'
  BY <1>3 DEF PipelineInv, ResultIsCurrent
<1> QED
  BY <1>1, <1>4

\* Every step keeps the types.
LEMMA TypeStep == ASSUME PipelineInv, [Next]_vars PROVE TypeOK'
<1> USE DEF vars, queue, result, clocks, records, race, GoTo, TypeOK, PipelineInv
<1> USE GridTypes
<1> DEFINE Labels ==
             [generator : {"new", "loop", "drive", "push", "retry", "exited"},
              consumer : {"new", "loop", "pop", "retry", "claim",
                          "drain", "drain_retry", "drain_claim", "exited"},
              main : {"start_generator", "start_consumer", "render", "stop_generator",
                      "join_generator", "stop_consumer", "join_consumer", "summary"}]
<1>0. ASSUME NextCar PROVE car' \in 1 .. Len(Grid) /\ pc' \in Labels
  <2>1. car \in 1 .. Len(Grid) /\ pc \in Labels /\ Len(Grid) \in Nat
    OBVIOUS
  <2>2. CASE car < Len(Grid)
    <3>1. car' = car + 1 /\ pc' = [pc EXCEPT !["generator"] = "drive"]
      BY <1>0, <2>2 DEF NextCar
    <3>2. car' \in 1 .. Len(Grid)
      BY <2>1, <2>2, <3>1
    <3>3. pc' \in Labels
      BY <2>1, <3>1
    <3> QED
      BY <3>2, <3>3
  <2>3. CASE ~(car < Len(Grid))
    <3>1. car' = car /\ pc' = [pc EXCEPT !["generator"] = "loop"]
      BY <1>0, <2>3 DEF NextCar
    <3> QED
      BY <2>1, <3>1
  <2> QED
    BY <2>2, <2>3
<1>1. CASE RunLoop
  <2>1. pc \in Labels /\ ticks \in 0 .. MaxTicks /\ MaxTicks \in Nat /\ car \in 1 .. Len(Grid)
    OBVIOUS
  <2>2. pc' \in Labels
    <3>1. \/ pc' = [pc EXCEPT !["generator"] = "exited"]
          \/ pc' = [pc EXCEPT !["generator"] = "drive"]
      BY <1>1, Zenon DEF RunLoop
    <3> QED
      BY <2>1, <3>1
  <2>3. ticks' \in 0 .. MaxTicks /\ car' \in 1 .. Len(Grid)
    <3>1. \/ ticks' = ticks /\ car' = car
          \/ ticks < MaxTicks /\ ticks' = ticks + 1 /\ car' = 1
      BY <1>1, Zenon DEF RunLoop
    <3>2. 1 \in 1 .. Len(Grid)
      BY <2>1
    <3>3. ticks < MaxTicks => ticks + 1 \in 0 .. MaxTicks
      BY <2>1
    <3> QED
      BY <2>1, <3>1, <3>2, <3>3, Zenon
  <2> QED
    BY <1>1, <2>2, <2>3 DEF RunLoop
<1>2. CASE DriveOn
  <2>1. frame' \in [{"generator", "consumer"} -> Frame]
    BY <1>2 DEF DriveOn, Reports, Frame
  <2> QED
    BY <1>2, <2>1 DEF DriveOn, Reports
<1>3. ASSUME NEW ms \in LapTimes, NEW last \in BOOLEAN, CompleteLap(ms, last) PROVE TypeOK'
  <2>1. frame' \in [{"generator", "consumer"} -> Frame]
    BY <1>3 DEF CompleteLap, Reports, Frame
  <2>2. best_lap' \in [Driver -> LapTimes \union {0}]
    BY <1>3 DEF CompleteLap
  <2> QED
    BY <1>3, <2>1, <2>2 DEF CompleteLap, Reports
<1>4. CASE PushFrame
  <2>1. sent' \in Seq(Frame)
    BY <1>4, AppendFrame DEF PushFrame, Channel!Send
  <2>2. car' \in 1 .. Len(Grid) /\ pc' \in Labels
    BY <1>4, <1>0 DEF PushFrame
  <2> QED
    BY <1>4, <2>1, <2>2 DEF PushFrame, Channel!Send
<1>5. ASSUME NEW n \in got_seen .. Len(got), PushLooks(n) PROVE TypeOK'
  <2>1. got_seen' \in Nat
    BY <1>5 DEF PushLooks, Channel!SeeGot
  <2> QED
    BY <1>5, <2>1 DEF PushLooks, Channel!SeeGot
<1>6. CASE DropFrame
  <2>1. car' \in 1 .. Len(Grid) /\ pc' \in Labels
    BY <1>6, <1>0 DEF DropFrame
  <2>2. refused' \subseteq Frame
    BY <1>6 DEF DropFrame
  <2> QED
    BY <1>6, <2>1, <2>2 DEF DropFrame
<1>7. CASE ConsumerLoop
  <2>1. pc' \in Labels
    <3>1. /\ pc \in Labels
          /\ \/ pc' = [pc EXCEPT !["consumer"] = "drain"]
             \/ pc' = [pc EXCEPT !["consumer"] = "pop"]
      BY <1>7, Zenon DEF ConsumerLoop, ThenDrain
    <3> QED
      BY <3>1
  <2>2. sure' \in Nat
    <3>1. sure' = sure \/ sure' = Len(sent)
      BY <1>7, Zenon DEF ConsumerLoop
    <3>2. sure \in Nat /\ Len(sent) \in Nat
      OBVIOUS
    <3> QED
      BY <3>1, <3>2, Zenon
  <2> QED
    BY <1>7, <2>1, <2>2 DEF ConsumerLoop
<1>8. CASE PopFrame
  <2>1. Len(got) + 1 \in 1 .. Len(sent)
    BY <1>8 DEF PopFrame, Channel!Receive, Channel!LooksEmpty, PopsArePrefix
  <2>2. sent[Len(got) + 1] \in Frame
    BY <2>1
  <2>3. got' \in Seq(Frame) /\ frame' \in [{"generator", "consumer"} -> Frame]
    BY <1>8, <2>2, AppendFrame DEF PopFrame, Channel!Receive
  <2> QED
    BY <1>8, <2>3 DEF PopFrame, Channel!Receive
<1>9. ASSUME NEW n \in sent_seen .. Len(sent), PopLooks(n) PROVE TypeOK'
  <2>1. sent_seen' \in Nat
    BY <1>9 DEF PopLooks, Channel!SeeSent
  <2> QED
    BY <1>9, <2>1 DEF PopLooks, Channel!SeeSent
<1>10. CASE PopNothing
  BY <1>10 DEF PopNothing
<1>11. CASE Claim
  <2>1. frame["consumer"] \in Frame
    OBVIOUS
  <2>2. /\ frame["consumer"].driver \in Driver
        /\ frame["consumer"].lap_time_ms \in LapTimes \union {0}
    BY <2>1 DEF Frame
  <2>3. /\ fastest_lap_ms' \in LapTimes \union {None}
        /\ fastest_lap_holder' \in Driver \union {None}
    BY <1>11, <2>2 DEF Claim, Beats
  <2> QED
    BY <1>11, <2>3 DEF Claim
<1>12. CASE Main
  <2>1. CASE StartGenerator \/ StartConsumer
    <3>1. pc \in Labels
      OBVIOUS
    <3>2. /\ \/ pc' = [pc EXCEPT !["main"] = "start_consumer", !["generator"] = "loop"]
             \/ pc' = [pc EXCEPT !["main"] = "render", !["consumer"] = "loop"]
          /\ UNCHANGED <<queue, result, clocks, race, frame, sure>>
      BY <2>1, Zenon DEF StartGenerator, StartConsumer, Start
    <3>3. pc' \in Labels
      BY <3>1, <3>2
    <3> QED
      BY <3>2, <3>3
  <2>2. CASE LeaveLoop
    BY <2>2 DEF LeaveLoop, MainGoes
  <2>3. CASE StopGenerator \/ StopConsumer
    <3>1. stop_requested' \in [{"generator", "consumer"} -> BOOLEAN]
      BY <2>3 DEF StopGenerator, StopConsumer, RequestStop
    <3> QED
      BY <2>3, <3>1 DEF StopGenerator, StopConsumer, RequestStop, MainGoes
  <2>4. CASE JoinGenerator \/ JoinConsumer
    BY <2>4 DEF JoinGenerator, JoinConsumer, Join, MainGoes
  <2> QED
    BY <1>12, <2>1, <2>2, <2>3, <2>4 DEF Main
<1>13. CASE TimePasses
  BY <1>13 DEF TimePasses
<1>14. CASE UNCHANGED vars
  BY <1>14
<1>15. CASE Generator
  <2>1. CASE \E ms \in LapTimes, last \in BOOLEAN : CompleteLap(ms, last)
    BY <1>3, <2>1
  <2>2. CASE \E n \in got_seen .. Len(got) : PushLooks(n)
    BY <1>5, <2>2
  <2> QED
    BY <1>15, <1>1, <1>2, <1>4, <1>6, <2>1, <2>2, Zenon DEF Generator
<1>16. CASE Consumer
  BY <1>16, <1>7, <1>8, <1>9, <1>10, <1>11, Zenon DEF Consumer
<1> QED
  BY <1>12, <1>13, <1>14, <1>15, <1>16, Zenon DEF Next

\* Every step keeps what the result and the queue have to do with each other.
LEMMA DataStep == ASSUME PipelineInv, [Next]_vars PROVE PopsArePrefix' /\ ResultIsCurrent'
<1> USE DEF vars, queue, result, clocks, records, race, GoTo
<1> DEFINE Goal == PopsArePrefix' /\ ResultIsCurrent'
<1>0. /\ TypeOK /\ PopsArePrefix /\ ResultIsCurrent /\ StopsInOrder
      /\ sent_seen \in sent_seen .. Len(sent)
  BY Numbers DEF PipelineInv, PopsArePrefix
<1>c. ASSUME UNCHANGED <<sent, got, result>>, UNCHANGED sent_seen,
             frame'["consumer"] = frame["consumer"], pc'["consumer"] = pc["consumer"]
      PROVE  Goal
  BY <1>0, <1>c, ControlStep DEF HoldsFrame
<1>1. CASE RunLoop
  BY <1>0, <1>1, <1>c DEF RunLoop, TypeOK
<1>2. CASE DriveOn
  BY <1>0, <1>2, <1>c DEF DriveOn, Reports, TypeOK
<1>3. ASSUME NEW ms \in LapTimes, NEW last \in BOOLEAN, CompleteLap(ms, last) PROVE Goal
  BY <1>0, <1>3, <1>c DEF CompleteLap, Reports, TypeOK
<1>4. CASE PushFrame
  <2>1. frame["generator"] \in Frame
    BY <1>0 DEF TypeOK
  <2>2. /\ Len(sent') = Len(sent) + 1 /\ \A i \in 1 .. Len(sent) : sent'[i] = sent[i]
        /\ UNCHANGED <<got, sent_seen, result, frame>> /\ pc'["consumer"] = pc["consumer"]
    BY <1>0, <1>4, <2>1, AppendFrame DEF PushFrame, Channel!Send, NextCar, TypeOK
  <2>3. PopsArePrefix'
    <3>1. /\ Len(sent) \in Nat /\ Len(got) \in Nat /\ sent_seen \in Nat
          /\ Len(got) <= sent_seen /\ sent_seen <= Len(sent)
      BY <1>0, Numbers DEF PopsArePrefix
    <3>2. Len(got') <= sent_seen' /\ sent_seen' <= Len(sent')
      BY <2>2, <3>1
    <3>3. ASSUME NEW i \in 1 .. Len(got) PROVE got[i] = sent'[i]
      <4>1. i \in 1 .. Len(sent)
        BY <3>1
      <4> QED
        BY <4>1, <2>2, <1>0 DEF PopsArePrefix
    <3> QED
      BY <2>2, <3>2, <3>3 DEF PopsArePrefix
  <2>4. Judged' = Judged /\ HoldsFrame' = HoldsFrame
    BY <2>2 DEF Judged, HoldsFrame
  <2>5. Judged \in 0 .. Len(sent)
    <3>1. Len(sent) \in Nat /\ Len(got) \in Nat /\ Len(got) <= Len(sent)
      BY <1>0, Numbers
    <3>2. \/ Judged = Len(got)
          \/ Judged = Len(got) - 1 /\ Len(got) > 0
      BY <1>0 DEF Judged, ResultIsCurrent
    <3> HIDE DEF Judged
    <3> QED
      BY <3>1, <3>2
  <2>6. IsFastestOfFirst(Judged, fastest_lap_ms, fastest_lap_holder)'
    <3>1. \A i \in 1 .. Judged : sent'[i] = sent[i]
      BY <2>2, <2>5
    <3>2. IsFastestOfFirst(Judged, fastest_lap_ms, fastest_lap_holder)
      BY <1>0 DEF ResultIsCurrent
    <3>3. PICK n : n = Judged /\ n = Judged'
      BY <2>4
    <3>4. {i \in 1 .. n : sent'[i].lap_time_ms > 0} = {i \in 1 .. n : sent[i].lap_time_ms > 0}
      BY <3>1, <3>3
    <3>5. \A i \in 1 .. n : sent'[i] = sent[i]
      BY <3>1, <3>3
    <3> QED
      BY <2>2, <3>2, <3>3, <3>4, <3>5 DEF IsFastestOfFirst
  <2>7. HoldsFrame => frame["consumer"] = sent'[Len(got)]
    BY <1>0, <2>2, Numbers DEF ResultIsCurrent
  <2> QED
    BY <1>0, <2>2, <2>3, <2>4, <2>6, <2>7 DEF ResultIsCurrent
<1>5. ASSUME NEW n \in got_seen .. Len(got), PushLooks(n) PROVE Goal
  BY <1>0, <1>5, <1>c DEF PushLooks, Channel!SeeGot, TypeOK
<1>6. CASE DropFrame
  BY <1>0, <1>6, <1>c DEF DropFrame, NextCar, TypeOK
<1>7. CASE ConsumerLoop
  <2>1. HoldsFrame' = HoldsFrame
    <3>1. pc["consumer"] = "loop" /\ pc'["consumer"] \in {"drain", "pop"}
      BY <1>0, <1>7 DEF ConsumerLoop, ThenDrain, TypeOK
    <3> QED
      BY <3>1 DEF HoldsFrame
  <2> QED
    BY <1>0, <1>7, <2>1, ControlStep DEF ConsumerLoop
<1>8. CASE PopFrame
  <2>1. Len(got) + 1 \in 1 .. Len(sent) /\ Len(got) + 1 <= sent_seen
    BY <1>0, <1>8, Numbers DEF PopFrame, Channel!Receive, Channel!LooksEmpty, PopsArePrefix
  <2>2. sent[Len(got) + 1] \in Frame
    BY <1>0, <2>1 DEF TypeOK
  <2>3. /\ Len(got') = Len(got) + 1 /\ got'[Len(got) + 1] = sent[Len(got) + 1]
        /\ \A i \in 1 .. Len(got) : got'[i] = got[i]
        /\ UNCHANGED <<sent, sent_seen, result>>
    BY <1>0, <1>8, <2>2, AppendFrame DEF PopFrame, Channel!Receive, TypeOK
  <2>4. frame'["consumer"] = sent[Len(got) + 1] /\ HoldsFrame' /\ ~HoldsFrame
    BY <1>0, <1>8 DEF PopFrame, HoldsFrame, TypeOK
  <2>5. PopsArePrefix'
    <3>1. Len(got) \in Nat /\ \A i \in 1 .. Len(got) : got[i] = sent[i]
      BY <1>0, Numbers DEF PopsArePrefix
    <3>2. \A i \in 1 .. Len(got') : got'[i] = sent[i]
      BY <2>3, <3>1
    <3> QED
      BY <1>0, <2>1, <2>3, <3>2, Numbers DEF PopsArePrefix
  <2>6. Judged' = Judged
    BY <1>0, <2>3, <2>4, Numbers DEF Judged
  <2>7. IsFastestOfFirst(Judged, fastest_lap_ms, fastest_lap_holder)'
    BY <1>0, <2>3, <2>6 DEF ResultIsCurrent, IsFastestOfFirst
  <2> QED
    BY <1>0, <2>3, <2>4, <2>5, <2>7, Numbers DEF ResultIsCurrent
<1>9. ASSUME NEW n \in sent_seen .. Len(sent), PopLooks(n) PROVE Goal
  <2>1. HoldsFrame' = HoldsFrame
    BY <1>0, <1>9 DEF PopLooks, HoldsFrame, TypeOK
  <2> QED
    BY <1>0, <1>9, <2>1, ControlStep DEF PopLooks, Channel!SeeSent
<1>10. CASE PopNothing
  <2>1. HoldsFrame' = HoldsFrame
    BY <1>0, <1>10 DEF PopNothing, HoldsFrame, TypeOK
  <2> QED
    BY <1>0, <1>10, <2>1, ControlStep DEF PopNothing
<1>11. CASE Claim
  <2>1. /\ HoldsFrame /\ ~HoldsFrame' /\ UNCHANGED <<sent, got, sent_seen>>
    BY <1>0, <1>11 DEF Claim, HoldsFrame, TypeOK
  <2>2. /\ Len(got) \in 1 .. Len(sent) /\ frame["consumer"] = sent[Len(got)]
        /\ Judged = Len(got) - 1 /\ Judged' = Len(got)
    BY <1>0, <2>1, Numbers DEF ResultIsCurrent, Judged
  <2>3. IsFastestOfFirst(Len(got), fastest_lap_ms', fastest_lap_holder')
    <3>1. PICK n \in 1 .. Len(sent) : n = Len(got)
      BY <2>2
    <3>2. /\ sent \in Seq(Frame) /\ fastest_lap_ms \in LapTimes \union {None}
          /\ IsFastestOfFirst(n - 1, fastest_lap_ms, fastest_lap_holder)
      BY <1>0, <2>2, <3>1 DEF ResultIsCurrent, TypeOK
    <3>3. IF Beats(sent[n].lap_time_ms)
            THEN IsFastestOfFirst(n, sent[n].lap_time_ms, sent[n].driver)
            ELSE IsFastestOfFirst(n, fastest_lap_ms, fastest_lap_holder)
      BY <3>2, ClaimAdvances
    <3>4. IF Beats(sent[n].lap_time_ms)
            THEN fastest_lap_ms' = sent[n].lap_time_ms /\ fastest_lap_holder' = sent[n].driver
            ELSE fastest_lap_ms' = fastest_lap_ms /\ fastest_lap_holder' = fastest_lap_holder
      BY <1>11, <2>2, <3>1 DEF Claim
    <3> QED
      BY <3>1, <3>3, <3>4
  <2>4. IsFastestOfFirst(Judged, fastest_lap_ms, fastest_lap_holder)'
    BY <2>1, <2>2, <2>3 DEF IsFastestOfFirst
  <2>5. PopsArePrefix'
    BY <1>0, <2>1 DEF PopsArePrefix
  <2> QED
    BY <2>1, <2>4, <2>5 DEF ResultIsCurrent
<1>12. CASE StartGenerator
  BY <1>0, <1>12, <1>c DEF StartGenerator, Start, TypeOK
<1>13. CASE StartConsumer
  <2>1. HoldsFrame' = HoldsFrame
    BY <1>0, <1>13 DEF StartConsumer, Start, HoldsFrame, TypeOK, StopsInOrder
  <2> QED
    BY <1>0, <1>13, <2>1, ControlStep DEF StartConsumer, Start
<1>14. CASE LeaveLoop
  BY <1>0, <1>14, <1>c DEF LeaveLoop, MainGoes, TypeOK
<1>15. CASE StopGenerator \/ StopConsumer
  BY <1>0, <1>15, <1>c DEF StopGenerator, StopConsumer, RequestStop, MainGoes, TypeOK
<1>16. CASE JoinGenerator \/ JoinConsumer
  BY <1>0, <1>16, <1>c DEF JoinGenerator, JoinConsumer, Join, MainGoes, TypeOK
<1>17. CASE TimePasses \/ UNCHANGED vars
  BY <1>0, <1>17, <1>c DEF TimePasses
<1> QED
  BY <1>1, <1>2, <1>3, <1>4, <1>5, <1>6, <1>7, <1>8, <1>9, <1>10, <1>11, <1>12, <1>13,
     <1>14, <1>15, <1>16, <1>17 DEF Next, Generator, Consumer, Main

\* Every step keeps the order of the start and the end, and the drain complete.
LEMMA ShutdownStep == ASSUME PipelineInv, [Next]_vars PROVE StopsInOrder' /\ DrainsAll'
<1> USE DEF vars, queue, result, clocks, race, GoTo, StopsInOrder, DrainsAll, Draining
<1>0. /\ TypeOK /\ PopsArePrefix /\ StopsInOrder /\ DrainsAll
      /\ pc \in [generator : {"new", "loop", "drive", "push", "retry", "exited"},
                 consumer : {"new", "loop", "pop", "retry", "claim",
                             "drain", "drain_retry", "drain_claim", "exited"},
                 main : {"start_generator", "start_consumer", "render", "stop_generator",
                         "join_generator", "stop_consumer", "join_consumer", "summary"}]
      /\ stop_requested \in [{"generator", "consumer"} -> BOOLEAN]
  BY DEF PipelineInv, TypeOK
<1>1. CASE RunLoop \/ DriveOn \/ DropFrame
  BY <1>0, <1>1 DEF RunLoop, DriveOn, Reports, DropFrame, NextCar
<1>3. ASSUME NEW ms \in LapTimes, NEW last \in BOOLEAN, CompleteLap(ms, last)
      PROVE  StopsInOrder' /\ DrainsAll'
  BY <1>0, <1>3 DEF CompleteLap, Reports
<1>4. CASE PushFrame
  <2>1. pc["main"] \notin {"stop_consumer", "join_consumer", "summary"}
    BY <1>0, <1>4 DEF PushFrame
  <2>2. ~stop_requested["consumer"] /\ ~Draining /\ pc["consumer"] # "exited"
    BY <1>0, <2>1
  <2> QED
    BY <1>0, <1>4, <2>1, <2>2 DEF PushFrame, Channel!Send, NextCar
<1>5. ASSUME NEW n \in got_seen .. Len(got), PushLooks(n)
      PROVE  StopsInOrder' /\ DrainsAll'
  BY <1>0, <1>5 DEF PushLooks, Channel!SeeGot
<1>7. CASE ConsumerLoop
  BY <1>0, <1>7 DEF ConsumerLoop, ThenDrain
<1>8. CASE PopFrame
  BY <1>0, <1>8 DEF PopFrame, Channel!Receive
<1>9. ASSUME NEW n \in sent_seen .. Len(sent), PopLooks(n)
      PROVE  StopsInOrder' /\ DrainsAll'
  <2>1. Draining => n = Len(sent)
    BY <1>0, <1>9, Numbers DEF PopLooks
  <2> QED
    BY <1>0, <1>9, <2>1 DEF PopLooks, Channel!SeeSent
<1>10. CASE PopNothing
  BY <1>0, <1>10 DEF PopNothing, Channel!LooksEmpty
<1>11. CASE Claim
  BY <1>0, <1>11 DEF Claim
<1>12. CASE StartGenerator \/ StartConsumer
  BY <1>0, <1>12 DEF StartGenerator, StartConsumer, Start
<1>14. CASE LeaveLoop
  BY <1>0, <1>14 DEF LeaveLoop, MainGoes
<1>15. CASE StopGenerator \/ StopConsumer
  BY <1>0, <1>15 DEF StopGenerator, StopConsumer, RequestStop, MainGoes
<1>16. CASE JoinGenerator \/ JoinConsumer
  BY <1>0, <1>16 DEF JoinGenerator, JoinConsumer, Join, MainGoes
<1>17. CASE TimePasses \/ UNCHANGED vars
  BY <1>0, <1>17 DEF TimePasses
<1> QED
  BY <1>1, <1>3, <1>4, <1>5, <1>7, <1>8, <1>9, <1>10, <1>11, <1>12, <1>14, <1>15, <1>16, <1>17
     DEF Next, Generator, Consumer, Main

\* A step that leaves the records and what the generator has pushed and offers as they
\* are leaves the best laps reported.
LEMMA RecordsStay ==
    ASSUME BestLapsAreReported, UNCHANGED <<sent, best_lap, refused>>,
           frame'["generator"] = frame["generator"], OffersFrame' <=> OffersFrame
    PROVE  BestLapsAreReported'
BY DEF BestLapsAreReported, Counted, Reported, BestFrame

\* Every step keeps the best laps those of the frames pushed, refused and offered.
LEMMA BestLapStep == ASSUME PipelineInv, [Next]_vars PROVE BestLapsAreReported'
<1> USE DEF vars, queue, result, clocks, records, race, GoTo
<1>0. /\ TypeOK /\ BestLapsAreReported /\ StopsInOrder
      /\ sent \in Seq(Frame) /\ Len(sent) \in Nat
      /\ best_lap \in [Driver -> LapTimes \union {0}] /\ \A d \in Driver : best_lap[d] \in Nat
      /\ frame["generator"] \in Frame /\ Grid[car] \in Driver
  <2>1. TypeOK /\ BestLapsAreReported /\ StopsInOrder
    BY DEF PipelineInv
  <2>2. /\ sent \in Seq(Frame) /\ best_lap \in [Driver -> LapTimes \union {0}]
        /\ frame["generator"] \in Frame /\ car \in 1 .. Len(Grid)
    BY <2>1 DEF TypeOK
  <2>3. Len(sent) \in Nat /\ \A d \in Driver : best_lap[d] \in Nat
    <3>1. Len(sent) \in Nat
      BY <2>2
    <3>2. \A t \in LapTimes \union {0} : t \in Nat
      OBVIOUS
    <3>3. \A d \in Driver : best_lap[d] \in LapTimes \union {0}
      BY <2>2, Zenon
    <3> QED
      BY <3>1, <3>2, <3>3, Zenon
  <2> QED
    BY <2>1, <2>2, <2>3, GridTypes
<1>1. CASE RunLoop
  <2>1. ~OffersFrame /\ ~OffersFrame'
    BY <1>0, <1>1 DEF RunLoop, OffersFrame, TypeOK
  <2> QED
    BY <1>0, <1>1, <2>1, RecordsStay DEF RunLoop
<1>2. CASE DriveOn
  <2>1. /\ frame'["generator"] = [driver |-> Grid[car], lap_time_ms |-> 0]
        /\ ~OffersFrame /\ UNCHANGED <<sent, best_lap, refused>>
    BY <1>0, <1>2 DEF DriveOn, Reports, OffersFrame, TypeOK
  <2>2. Counted(frame["generator"])'
    BY <2>1 DEF Counted
  <2>3. ASSUME NEW d \in Driver, best_lap[d] > 0 PROVE Reported(d)'
    BY <1>0, <2>1, <2>3 DEF BestLapsAreReported, Reported, BestFrame
  <2> QED
    BY <1>0, <2>1, <2>2, <2>3 DEF BestLapsAreReported, Counted
<1>3. ASSUME NEW ms \in LapTimes, NEW last \in BOOLEAN, CompleteLap(ms, last)
      PROVE  BestLapsAreReported'
  <2> DEFINE me == Grid[car]
             best == IF Better(best_lap[me], ms) THEN ms ELSE best_lap[me]
  <2>1. /\ frame'["generator"] = [driver |-> me, lap_time_ms |-> ms]
        /\ ~OffersFrame /\ OffersFrame' /\ UNCHANGED <<sent, refused>>
    BY <1>0, <1>3 DEF CompleteLap, Reports, OffersFrame, TypeOK
  <2>2. /\ best_lap'[me] = best
        /\ \A d \in Driver : d # me => best_lap'[d] = best_lap[d]
    BY <1>0, <1>3 DEF CompleteLap
  <2>3. me \in Driver /\ best_lap[me] \in Nat /\ ms \in Nat /\ ms > 0
    BY <1>0
  <2>4. best \in 1 .. ms /\ (best_lap[me] > 0 => best <= best_lap[me])
    <3> DEFINE old == best_lap[me]
    <3>1. old \in Nat
      BY <2>3
    <3> HIDE DEF old, me
    <3>2. (IF Better(old, ms) THEN ms ELSE old) \in 1 .. ms
      BY <2>3, <3>1 DEF Better
    <3>3. old > 0 => (IF Better(old, ms) THEN ms ELSE old) <= old
      BY <2>3, <3>1 DEF Better
    <3> QED
      BY <3>2, <3>3 DEF old
  <2> HIDE DEF me, best
  <2>5. ASSUME NEW i \in 1 .. Len(sent) PROVE Counted(sent[i])'
    <3>1. sent[i].driver \in Driver /\ sent[i].lap_time_ms \in Nat /\ Counted(sent[i])
      BY <1>0, ElementIsFrame DEF BestLapsAreReported
    <3>2. CASE sent[i].driver = me
      <4>1. best \in Nat /\ best > 0
        BY <2>3, <2>4
      <4>2. sent[i].lap_time_ms > 0 => best <= sent[i].lap_time_ms
        <5> DEFINE t == sent[i].lap_time_ms
                   old == best_lap[me]
        <5>1. t \in Nat /\ old \in Nat /\ (t > 0 => old \in 1 .. t)
          BY <2>3, <3>1, <3>2 DEF Counted
        <5>2. old > 0 => best <= old
          BY <2>4
        <5> HIDE DEF t, old
        <5>3. t > 0 => best <= t
          BY <4>1, <5>1, <5>2
        <5> QED
          BY <5>3 DEF t
      <4>3. best_lap'[sent[i].driver] = best /\ sent' = sent
        BY <2>1, <2>2, <3>2
      <4> QED
        BY <3>1, <4>1, <4>2, <4>3 DEF Counted
    <3>3. CASE sent[i].driver # me
      BY <2>1, <2>2, <3>1, <3>3 DEF Counted
    <3> QED
      BY <3>2, <3>3
  <2>6. Counted(frame["generator"])'
    BY <2>1, <2>2, <2>4 DEF Counted
  <2>7. ASSUME NEW d \in Driver, best_lap'[d] > 0 PROVE Reported(d)'
    <3>1. CASE best_lap'[d] = best_lap[d]
      <4>1. Reported(d) /\ BestFrame(d)' = BestFrame(d)
        BY <1>0, <2>7, <3>1 DEF BestLapsAreReported, BestFrame
      <4> QED
        BY <2>1, <4>1 DEF Reported
    <3>2. CASE best_lap'[d] # best_lap[d]
      <4>1. d = me /\ best_lap'[d] = ms
        BY <2>2, <3>2 DEF best
      <4>2. frame'["generator"] = BestFrame(d)'
        BY <2>1, <4>1 DEF BestFrame
      <4> QED
        BY <2>1, <4>2 DEF Reported
    <3> QED
      BY <3>1, <3>2
  <2> QED
    BY <2>1, <2>5, <2>6, <2>7 DEF BestLapsAreReported
<1>4. CASE PushFrame
  <2>1. /\ Len(sent') = Len(sent) + 1 /\ sent'[Len(sent) + 1] = frame["generator"]
        /\ \A i \in 1 .. Len(sent) : sent'[i] = sent[i]
    BY <1>0, <1>4, AppendFrame DEF PushFrame, Channel!Send
  <2>2. OffersFrame /\ ~OffersFrame' /\ UNCHANGED <<best_lap, refused>>
    BY <1>0, <1>4 DEF PushFrame, NextCar, OffersFrame, TypeOK
  <2>3. ASSUME NEW i \in 1 .. Len(sent') PROVE Counted(sent[i])'
    <3>1. i \in 1 .. Len(sent) \/ i = Len(sent) + 1
      BY <1>0, <2>1
    <3>2. (sent'[i] = sent[i] /\ Counted(sent[i])) \/ Counted(sent'[i])
      BY <1>0, <2>1, <2>2, <3>1 DEF BestLapsAreReported
    <3> QED
      BY <2>2, <3>2 DEF Counted
  <2>4. ASSUME NEW d \in Driver, best_lap[d] > 0 PROVE Reported(d)'
    <3>1. BestFrame(d)' = BestFrame(d)
      BY <2>2 DEF BestFrame
    <3>2. \A i \in 1 .. Len(sent) : i \in 1 .. Len(sent')
      BY <1>0, <2>1
    <3>3. Len(sent) + 1 \in 1 .. Len(sent')
      BY <1>0, <2>1
    <3>4. Reported(d)
      BY <1>0, <2>4 DEF BestLapsAreReported
    <3>5. CASE \E i \in 1 .. Len(sent) : sent[i] = BestFrame(d)
      BY <2>1, <3>1, <3>2, <3>5 DEF Reported
    <3>6. CASE BestFrame(d) \in refused
      BY <2>2, <3>1, <3>6 DEF Reported
    <3>7. CASE frame["generator"] = BestFrame(d)
      BY <2>1, <3>1, <3>3, <3>7 DEF Reported
    <3> QED
      BY <3>4, <3>5, <3>6, <3>7 DEF Reported
  <2> QED
    BY <2>2, <2>3, <2>4 DEF BestLapsAreReported
<1>5. ASSUME NEW n \in got_seen .. Len(got), PushLooks(n) PROVE BestLapsAreReported'
  <2>1. OffersFrame' = OffersFrame
    BY <1>0, <1>5 DEF PushLooks, OffersFrame, TypeOK
  <2> QED
    BY <1>0, <1>5, <2>1, RecordsStay DEF PushLooks, Channel!SeeGot
<1>6. CASE DropFrame
  <2>1. /\ ~OffersFrame' /\ UNCHANGED <<sent, best_lap>>
        /\ refused' = refused \union {frame["generator"]}
    BY <1>0, <1>6 DEF DropFrame, NextCar, OffersFrame, TypeOK
  <2>2. ASSUME NEW d \in Driver, best_lap[d] > 0 PROVE Reported(d)'
    BY <1>0, <2>1, <2>2 DEF BestLapsAreReported, Reported, BestFrame
  <2> QED
    BY <1>0, <2>1, <2>2 DEF BestLapsAreReported, Counted
<1>7. CASE Consumer
  <2>1. /\ frame'["generator"] = frame["generator"] /\ pc'["generator"] = pc["generator"]
        /\ UNCHANGED <<sent, best_lap, refused>>
    BY <1>0, <1>7 DEF Consumer, ConsumerLoop, PopFrame, Channel!Receive, PopLooks,
       Channel!SeeSent, PopNothing, Claim, TypeOK
  <2> QED
    BY <1>0, <2>1, RecordsStay DEF OffersFrame
<1>8. CASE StartGenerator
  <2>1. ~OffersFrame /\ ~OffersFrame'
    BY <1>0, <1>8 DEF StartGenerator, Start, OffersFrame, TypeOK, StopsInOrder
  <2> QED
    BY <1>0, <1>8, <2>1, RecordsStay DEF StartGenerator, Start
<1>9. CASE StartConsumer \/ LeaveLoop \/ StopGenerator \/ StopConsumer
             \/ JoinGenerator \/ JoinConsumer
  <2>1. /\ frame' = frame /\ pc'["generator"] = pc["generator"]
        /\ UNCHANGED <<sent, best_lap, refused>>
    BY <1>0, <1>9 DEF StartConsumer, Start, LeaveLoop, StopGenerator, StopConsumer, RequestStop,
       JoinGenerator, JoinConsumer, Join, MainGoes, TypeOK
  <2> QED
    BY <1>0, <2>1, RecordsStay DEF OffersFrame
<1>10. CASE TimePasses \/ UNCHANGED vars
  <2>1. frame' = frame /\ pc' = pc /\ UNCHANGED <<sent, best_lap, refused>>
    BY <1>10 DEF TimePasses
  <2> QED
    BY <1>0, <2>1, RecordsStay DEF OffersFrame
<1> QED
  BY <1>1, <1>2, <1>3, <1>4, <1>5, <1>6, <1>7, <1>8, <1>9, <1>10 DEF Next, Generator, Main

\* The invariant holds throughout.
LEMMA Invariance == Spec => []PipelineInv
<1>1. PipelineInv /\ [Next]_vars => PipelineInv'
  BY TypeStep, DataStep, ShutdownStep, BestLapStep DEF PipelineInv
<1> QED
  BY InitInv, <1>1, PTL DEF Spec

-----------------------------------------------------------------------------
\* The theorems.

\* The variables of the pipeline always have their types: a popped frame is one
\* that was pushed, and the result is a measured lap time and a driver, or none.
THEOREM TypeCorrect == Spec => []TypeOK
BY Invariance, PTL DEF PipelineInv

\* The summary that main() prints after both stop() calls announces the best of
\* all the laps that got into the queue and the driver who drove it first.
THEOREM SummaryIsComplete == Spec => []SummaryCountsQueuedLaps
<1>1. ASSUME PipelineInv, pc["main"] = "summary"
      PROVE  IsFastestOf(sent, fastest_lap_ms, fastest_lap_holder)
  <2>1. pc["consumer"] = "exited" /\ Len(got) = Len(sent)
    BY <1>1 DEF PipelineInv, StopsInOrder, DrainsAll
  <2>2. Judged = Len(sent)
    BY <2>1 DEF Judged, HoldsFrame
  <2> QED
    BY <1>1, <2>2 DEF PipelineInv, ResultIsCurrent, IsFastestOfFirst, IsFastestOf
<1>2. PipelineInv => SummaryCountsQueuedLaps
  BY <1>1 DEF SummaryCountsQueuedLaps
<1> QED
  BY Invariance, <1>2, PTL

(* The driver announced has a best lap no worse than the time announced, and nobody *)
(* else's best lap beats that time unless its frame was refused by the full queue   *)
(* (telemetry_generator.cpp:153).                                                   *)
THEOREM SummaryMissesOnlyRefused == Spec => []SummaryAgreesWithBestLaps
<1>1. ASSUME PipelineInv, pc["main"] = "summary"
      PROVE  /\ fastest_lap_ms # None => best_lap[fastest_lap_holder] \in 1 .. fastest_lap_ms
             /\ \A d \in Driver : best_lap[d] > 0 =>
                  \/ fastest_lap_ms # None /\ fastest_lap_ms <= best_lap[d]
                  \/ [driver |-> d, lap_time_ms |-> best_lap[d]] \in refused
  <2>0. /\ sent \in Seq(Frame) /\ ~OffersFrame
        /\ IsFastestOfFirst(Len(sent), fastest_lap_ms, fastest_lap_holder)
    <3>1. pc["consumer"] = "exited" /\ pc["generator"] = "exited" /\ Len(got) = Len(sent)
      BY <1>1 DEF PipelineInv, StopsInOrder, DrainsAll
    <3>2. Judged = Len(sent)
      BY <3>1 DEF Judged, HoldsFrame
    <3> QED
      BY <1>1, <3>1, <3>2 DEF PipelineInv, ResultIsCurrent, OffersFrame, TypeOK
  <2> DEFINE reports == {i \in 1 .. Len(sent) : sent[i].lap_time_ms > 0}
  <2>1. ASSUME reports # {}
        PROVE  \E i \in reports :
                 /\ \A j \in reports : sent[i].lap_time_ms <= sent[j].lap_time_ms
                 /\ fastest_lap_ms = sent[i].lap_time_ms
                 /\ fastest_lap_holder = sent[i].driver
    <3>1. PICK i \in reports :
             /\ \A j \in reports :
                  \/ sent[i].lap_time_ms < sent[j].lap_time_ms
                  \/ sent[i].lap_time_ms = sent[j].lap_time_ms /\ i <= j
             /\ fastest_lap_ms = sent[i].lap_time_ms /\ fastest_lap_holder = sent[i].driver
      BY <2>0, <2>1 DEF IsFastestOfFirst
    <3>2. \A j \in 1 .. Len(sent) : sent[j].lap_time_ms \in Nat
      BY <2>0, ElementIsFrame
    <3>3. ASSUME NEW j \in reports PROVE sent[i].lap_time_ms <= sent[j].lap_time_ms
      <4>1. sent[i].lap_time_ms \in Nat /\ sent[j].lap_time_ms \in Nat
        BY <3>2
      <4> QED
        BY <4>1, <3>1
    <3> QED
      BY <3>1, <3>3, Zenon
  <2>2. ASSUME fastest_lap_ms # None
        PROVE  best_lap[fastest_lap_holder] \in 1 .. fastest_lap_ms
    <3>1. reports # {}
      BY <2>0, <2>2 DEF IsFastestOfFirst
    <3>2. PICK i \in reports :
             fastest_lap_ms = sent[i].lap_time_ms /\ fastest_lap_holder = sent[i].driver
      BY <2>1, <3>1
    <3> QED
      BY <1>1, <3>2 DEF PipelineInv, BestLapsAreReported, Counted
  <2>3. ASSUME NEW d \in Driver, best_lap[d] > 0, BestFrame(d) \notin refused
        PROVE  fastest_lap_ms # None /\ fastest_lap_ms <= best_lap[d]
    <3>1. PICK i \in 1 .. Len(sent) : sent[i] = BestFrame(d)
      BY <1>1, <2>0, <2>3 DEF PipelineInv, BestLapsAreReported, Reported
    <3>2. i \in reports /\ sent[i].lap_time_ms = best_lap[d]
      BY <2>3, <3>1 DEF BestFrame
    <3>3. PICK j \in reports : /\ sent[j].lap_time_ms <= sent[i].lap_time_ms
                               /\ fastest_lap_ms = sent[j].lap_time_ms
      BY <2>1, <3>2
    <3>4. sent[j].lap_time_ms \in LapTimes
      <4>1. sent[j].lap_time_ms \in LapTimes \union {0} /\ sent[j].lap_time_ms # 0
        BY <2>0, ElementIsFrame
      <4> QED
        BY <4>1
    <3> QED
      BY <3>2, <3>3, <3>4
  <2> QED
    BY <2>2, <2>3 DEF BestFrame
<1>2. PipelineInv => SummaryAgreesWithBestLaps
  BY <1>1 DEF SummaryAgreesWithBestLaps
<1> QED
  BY Invariance, <1>2, PTL
=============================================================================
