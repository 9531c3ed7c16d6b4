------------------------- MODULE PenaltyEnforcerProof -------------------------
(***************************************************************************)
(* Proofs about PenaltyEnforcer for any number of workers, drivers and       *)
(* events.  The inductive invariant says how far process_events() has come:  *)
(* which of the events it has popped are counted, and which of the penalties *)
(* they amount to are recorded and announced.                                *)
(***************************************************************************)
EXTENDS PenaltyEnforcer, FiniteSetTheorems, TLAPS

\* The head of the batch has been counted and is still being dealt with.
Fining == pc \in {"exchange", "issue", "link"}

\* How many of the events popped have been counted, or skipped.
Judged == Len(got) - Len(batch) + (IF Fining THEN 1 ELSE 0)

\* How many of the first n elements of events are e.
CountOfFirst(events, n, e) == Cardinality({i \in 1 .. n : events[i] = e})

\* A link that is sure has been made, what was sure at the call still is, and the drain
\* has come to a place that was not.
DrainIsComplete ==
    /\ sure \intersect unlinked = {} /\ due \subseteq sure
    /\ pc # "drain" => Len(got) + 1 \notin due

\* Nothing is announced while the queue is drained.
IssuesComeLater ==
    /\ Len(got) <= Len(sent)
    /\ pc = "drain" => issued = {}
    /\ AnnouncementsLeft

\* The batch is what has been popped and not been dealt with.
BatchIsRest ==
    /\ Len(batch) <= Len(got)
    /\ \A k \in 1 .. Len(batch) : batch[k] = got[Len(got) - Len(batch) + k]
    /\ pc = "idle" => batch = <<>>

\* The warnings are those of the events judged so far.
WarningsAreJudged ==
    \A d \in Drivers : warnings_[d] = CountOfFirst(got, Judged, TrackLimits(d))

\* A driver is fined for the third warning, who else has three of them has been.
HeadIsThird ==
    Fining => /\ batch # <<>> /\ Counts(Head(batch))
              /\ warnings_[Head(batch).driver] = Warnings

\* Driver d is the one being fined, and the call is at one of the labels.
BeingFined(d, labels) == pc \in labels /\ Head(batch).driver = d

PenaltyOf(d) ==
    /\ states_[d] # "NONE" <=> warnings_[d] >= Warnings /\ ~BeingFined(d, {"exchange"})
    /\ Count(sent, PenaltyIssued(d)) =
         IF warnings_[d] >= Warnings /\ ~BeingFined(d, {"exchange", "issue"}) THEN 1 ELSE 0

\* Every driver with three warnings has the penalty, announced once.
PenaltiesFollowWarnings == \A d \in Drivers : PenaltyOf(d)

EnforcerInv ==
    /\ TypeOK /\ DrainIsComplete /\ IssuesComeLater /\ BatchIsRest
    /\ WarningsAreJudged /\ HeadIsThird /\ PenaltiesFollowWarnings

-----------------------------------------------------------------------------
\* The queue, the batch and the counts, step by step.

\* One place more in a sequence is one more occurrence of what it holds.
LEMMA OneMore ==
    ASSUME NEW s, NEW t, NEW n \in Nat, NEW e, \A i \in 1 .. n : t[i] = s[i]
    PROVE  /\ CountOfFirst(s, n, e) \in Nat
           /\ CountOfFirst(t, n + 1, e) = CountOfFirst(s, n, e) + (IF t[n + 1] = e THEN 1 ELSE 0)
<1> DEFINE S == {i \in 1 .. n : s[i] = e}
           T == {i \in 1 .. n + 1 : t[i] = e}
<1>1. S \in SUBSET (1 .. n) /\ n + 1 \notin S
  OBVIOUS
<1>2. T = IF t[n + 1] = e THEN S \cup {n + 1} ELSE S
  <2>1. \A i : i \in 1 .. n + 1 <=> i \in 1 .. n \/ i = n + 1
    OBVIOUS
  <2>2. \A i : i \in T <=> i \in S \/ (i = n + 1 /\ t[n + 1] = e)
    BY <2>1
  <2> QED
    BY <2>2
<1> HIDE DEF S, T
<1>3. IsFiniteSet(1 .. n)
  <2>1. 1 \in Int /\ n \in Int
    OBVIOUS
  <2> QED
    BY <2>1, FS_Interval
<1>4. IsFiniteSet(S) /\ Cardinality(S) \in Nat
  BY <1>1, <1>3, FS_Subset, FS_CardinalityType
<1>5. Cardinality(S \cup {n + 1}) = Cardinality(S) + 1
  BY <1>1, <1>4, FS_AddElement
<1>6. Cardinality(T) = Cardinality(S) + (IF t[n + 1] = e THEN 1 ELSE 0)
  BY <1>2, <1>4, <1>5
<1> QED
  BY <1>4, <1>6 DEF S, T, CountOfFirst

\* Events, and how they differ.
LEMMA Events ==
    /\ \A d \in Drivers : TrackLimits(d) \in Event /\ PenaltyIssued(d) \in Event
    /\ WorkerEvent \subseteq Event
    /\ \A c, d \in Drivers : /\ TrackLimits(c) = TrackLimits(d) => c = d
                             /\ PenaltyIssued(c) = PenaltyIssued(d) => c = d
    /\ \A e \in WorkerEvent, d \in Drivers : e # PenaltyIssued(d)
    /\ \A e \in Event : Counts(e) <=> \E d \in Drivers : e = TrackLimits(d)
    /\ \A d \in Drivers : TrackLimits(d).driver = d
<1>1. /\ \A d \in Drivers : TrackLimits(d) \in Event /\ PenaltyIssued(d) \in Event
      /\ WorkerEvent \subseteq Event
  BY DEF Event, WorkerEvent
<1>2. \A d : /\ TrackLimits(d).driver = d /\ PenaltyIssued(d).driver = d
             /\ TrackLimits(d).type = "TRACK_LIMITS" /\ PenaltyIssued(d).type = "PENALTY_ISSUED"
  BY DEF TrackLimits, PenaltyIssued
<1>3. \A e \in WorkerEvent : (\E d \in Drivers : e = TrackLimits(d)) \/ e.type = "WEATHER_CHANGE"
  BY DEF WorkerEvent, WeatherChange
<1>4. \A e \in WorkerEvent, d \in Drivers : e # PenaltyIssued(d)
  BY <1>2, <1>3
<1>5. ASSUME NEW e \in Event PROVE Counts(e) <=> \E d \in Drivers : e = TrackLimits(d)
  <2>1. CASE \E d \in Drivers : e = TrackLimits(d)
    BY <1>2, <2>1 DEF Counts
  <2>2. CASE \E d \in Drivers : e = PenaltyIssued(d)
    BY <1>2, <2>2 DEF Counts
  <2>3. CASE e.type = "WEATHER_CHANGE"
    BY <1>2, <2>3 DEF Counts
  <2> QED
    BY <1>3, <2>1, <2>2, <2>3 DEF Event
<1> QED
  BY <1>1, <1>2, <1>4, <1>5

\* A push takes the next place.
LEMMA EnterEffect ==
    ASSUME TypeOK, NEW e \in Event, Queue!Enter(e)
    PROVE  /\ sent' \in Seq(Event) /\ Len(sent') = Len(sent) + 1 /\ Len(sent) \in Nat
           /\ sent'[Len(sent) + 1] = e /\ \A i \in 1 .. Len(sent) : sent'[i] = sent[i]
           /\ unlinked' = unlinked \cup {Len(sent) + 1} /\ got' = got
           /\ \A x : Count(sent', x) = Count(sent, x) + (IF e = x THEN 1 ELSE 0)
<1>1. sent \in Seq(Event) /\ sent' = Append(sent, e)
  BY DEF TypeOK, Queue!Enter
<1>2. Len(sent) \in Nat /\ Len(sent') = Len(sent) + 1 /\ sent' \in Seq(Event)
  BY <1>1
<1>3. sent'[Len(sent) + 1] = e /\ \A i \in 1 .. Len(sent) : sent'[i] = sent[i]
  BY <1>1
<1>4. ASSUME NEW x PROVE Count(sent', x) = Count(sent, x) + (IF e = x THEN 1 ELSE 0)
  <2>1. PICK n, s, t : n = Len(sent) /\ s = sent /\ t = sent'
    OBVIOUS
  <2>2. n \in Nat /\ t[n + 1] = e /\ \A i \in 1 .. n : t[i] = s[i]
    BY <1>2, <1>3, <2>1
  <2>3. CountOfFirst(t, n + 1, x) = CountOfFirst(s, n, x) + (IF t[n + 1] = x THEN 1 ELSE 0)
    BY <2>2, OneMore
  <2>4. Count(sent, x) = CountOfFirst(s, n, x)
    BY <2>1 DEF Count, CountOfFirst
  <2>5. n + 1 = Len(sent')
    BY <1>2, <2>1
  <2>6. Count(sent', x) = CountOfFirst(t, n + 1, x)
    BY <2>1, <2>5, Zenon DEF Count, CountOfFirst
  <2> QED
    BY <2>2, <2>3, <2>4, <2>6
<1> QED
  BY <1>2, <1>3, <1>4 DEF Queue!Enter

\* The drain moves the next event from the queue to the batch.
LEMMA DrainEffect ==
    ASSUME TypeOK, DrainPop
    PROVE  /\ got' \in Seq(Event) /\ Len(got') = Len(got) + 1 /\ Len(got) \in Nat
           /\ Len(got') <= Len(sent)
           /\ \A i \in 1 .. Len(got) : got'[i] = got[i]
           /\ batch' \in Seq(Event) /\ Len(batch') = Len(batch) + 1 /\ Len(batch) \in Nat
           /\ batch'[Len(batch) + 1] = got'[Len(got) + 1]
           /\ \A i \in 1 .. Len(batch) : batch'[i] = batch[i]
           /\ sent' = sent /\ unlinked' = unlinked
<1>1. /\ sent \in Seq(Event) /\ got \in Seq(Event) /\ batch \in Seq(Event)
      /\ Len(got) < Len(sent) /\ got' = Append(got, sent[Len(got) + 1])
      /\ batch' = Append(batch, Last(got')) /\ sent' = sent /\ unlinked' = unlinked
  BY DEF TypeOK, DrainPop, Queue!Receive, Queue!Reachable
<1>2. Len(got) \in Nat /\ Len(sent) \in Nat /\ Len(batch) \in Nat
  BY <1>1
<1>3. sent[Len(got) + 1] \in Event
  <2>1. Len(got) + 1 \in 1 .. Len(sent)
    BY <1>1, <1>2
  <2> QED
    BY <1>1, <2>1
<1>4. /\ got' \in Seq(Event) /\ Len(got') = Len(got) + 1
      /\ got'[Len(got) + 1] = sent[Len(got) + 1]
      /\ \A i \in 1 .. Len(got) : got'[i] = got[i]
  BY <1>1, <1>3
<1>5. Last(got') = got'[Len(got) + 1] /\ Last(got') \in Event
  BY <1>3, <1>4 DEF Last
<1>6. /\ batch' \in Seq(Event) /\ Len(batch') = Len(batch) + 1
      /\ batch'[Len(batch) + 1] = Last(got')
      /\ \A i \in 1 .. Len(batch) : batch'[i] = batch[i]
  BY <1>1, <1>5
<1>7. Len(got') <= Len(sent)
  BY <1>1, <1>2, <1>4
<1> QED
  BY <1>1, <1>2, <1>4, <1>5, <1>6, <1>7

\* The head and the rest of the batch.
LEMMA HeadAndTail ==
    ASSUME batch \in Seq(Event), batch # <<>>
    PROVE  /\ Len(batch) \in Nat \ {0} /\ Head(batch) = batch[1] /\ Head(batch) \in Event
           /\ Tail(batch) \in Seq(Event) /\ Len(Tail(batch)) = Len(batch) - 1
           /\ \A k \in 1 .. Len(batch) - 1 : Tail(batch)[k] = batch[k + 1]
<1>1. Len(batch) \in Nat \ {0} /\ Head(batch) = batch[1]
  OBVIOUS
<1>2. Head(batch) \in Event
  BY <1>1
<1>3. Tail(batch) \in Seq(Event) /\ Len(Tail(batch)) = Len(batch) - 1
  OBVIOUS
<1>4. \A k \in 1 .. Len(batch) - 1 : Tail(batch)[k] = batch[k + 1]
  BY <1>1
<1> QED
  BY <1>1, <1>2, <1>3, <1>4

-----------------------------------------------------------------------------
\* The invariant holds of the empty queue.
LEMMA InitInv == Init => EnforcerInv
<1> SUFFICES ASSUME Init PROVE EnforcerInv
  OBVIOUS
<1>1. /\ sent = <<>> /\ got = <<>> /\ unlinked = {} /\ sure = {} /\ pc = "idle" /\ batch = <<>>
      /\ due = {} /\ issued = {}
      /\ warnings_ = [d \in Drivers |-> 0] /\ states_ = [d \in Drivers |-> "NONE"]
  BY DEF Init, Queue!Init
<1>2. Len(sent) = 0 /\ Len(got) = 0 /\ Len(batch) = 0
  BY <1>1
<1>3. TypeOK
  <2>1. /\ pushing \in [Workers -> 0 .. Len(sent)]
        /\ extra_pit_time_ \in [Drivers -> {0, ExtraPitTicks}]
    BY <1>2 DEF Init
  <2>2. warnings_ \in [Drivers -> Nat] /\ states_ \in [Drivers -> PenaltyStates]
    BY <1>1 DEF PenaltyStates
  <2>3. sent \in Seq(Event) /\ got \in Seq(Event) /\ batch \in Seq(Event)
    BY <1>1
  <2> QED
    BY <1>1, <2>1, <2>2, <2>3 DEF TypeOK
<1>4. DrainIsComplete /\ IssuesComeLater /\ BatchIsRest /\ HeadIsThird
  BY <1>1, <1>2
  DEF DrainIsComplete, IssuesComeLater, AnnouncementsLeft, BatchIsRest, HeadIsThird, Fining
<1>5. \A s, e : Len(s) = 0 => Count(s, e) = 0
  <2>1. ASSUME NEW s, NEW e, Len(s) = 0 PROVE {i \in 1 .. Len(s) : s[i] = e} = {}
    BY <2>1
  <2> QED
    BY <2>1, FS_EmptySet DEF Count
<1>6. \A e : CountOfFirst(got, Judged, e) = 0
  <2>1. Judged = 0
    BY <1>1, <1>2 DEF Judged, Fining
  <2>2. \A e : {i \in 1 .. 0 : got[i] = e} = {}
    OBVIOUS
  <2> QED
    BY <2>1, <2>2, FS_EmptySet DEF CountOfFirst
<1>7. WarningsAreJudged
  BY <1>1, <1>6 DEF WarningsAreJudged
<1>8. PenaltiesFollowWarnings
  BY <1>1, <1>2, <1>5 DEF PenaltiesFollowWarnings, PenaltyOf, Warnings
<1> QED
  BY <1>3, <1>4, <1>7, <1>8 DEF EnforcerInv

-----------------------------------------------------------------------------
\* One step preserves the types.

\* Who is being fined is a driver.
LEMMA FinedDriver ==
    ASSUME TypeOK, HeadIsThird, Fining
    PROVE  /\ batch \in Seq(Event) /\ batch # <<>> /\ Head(batch).driver \in Drivers
           /\ PenaltyIssued(Head(batch).driver) \in Event
BY Events DEF TypeOK, HeadIsThird, Counts

\* The queue only grows; what is unlinked, pushed or sure is in it.
LEMMA QueueTypes ==
    ASSUME EnforcerInv, [Next]_vars
    PROVE  /\ Len(sent) \in Nat /\ sent' \in Seq(Event) /\ Len(sent') \in Nat
           /\ Len(sent) <= Len(sent')
           /\ unlinked' \subseteq 1 .. Len(sent') /\ sure' \subseteq 1 .. Len(sent')
           /\ pushing' \in [Workers -> 0 .. Len(sent')]
           /\ due' \subseteq 1 .. Len(sent') /\ issued' \subseteq 1 .. Len(sent')
<1>1. /\ sent \in Seq(Event) /\ unlinked \subseteq 1 .. Len(sent) /\ sure \subseteq 1 .. Len(sent)
      /\ pushing \in [Workers -> 0 .. Len(sent)]
      /\ due \subseteq 1 .. Len(sent) /\ issued \subseteq 1 .. Len(sent)
  BY DEF EnforcerInv, TypeOK
<1>2. Len(sent) \in Nat
  BY <1>1
<1>3. TypeOK /\ HeadIsThird
  BY DEF EnforcerInv
<1>4. ASSUME NEW w \in Workers, NEW e \in WorkerEvent, WorkerEnter(w, e)
      PROVE  /\ sent' \in Seq(Event) /\ Len(sent') = Len(sent) + 1
             /\ unlinked' = unlinked \cup {Len(sent) + 1}
             /\ pushing' = [pushing EXCEPT ![w] = Len(sent')] /\ sure' = sure
             /\ due' = due /\ issued' = issued
  BY <1>3, <1>4, EnterEffect, Events DEF WorkerEnter, history
<1>5. ASSUME Issue
      PROVE  /\ sent' \in Seq(Event) /\ Len(sent') = Len(sent) + 1
             /\ unlinked' = unlinked \cup {Len(sent) + 1}
             /\ pushing' = pushing /\ sure' = sure
             /\ due' = due /\ issued' = issued \cup {Len(sent')}
  <2>1. PenaltyIssued(Head(batch).driver) \in Event
    BY <1>3, <1>5, FinedDriver DEF Issue, Fining
  <2> QED
    BY <1>3, <1>5, <2>1, EnterEffect DEF Issue
<1>6. CASE \E w \in Workers, e \in WorkerEvent : WorkerEnter(w, e)
  <2>1. PICK w \in Workers, e \in WorkerEvent : WorkerEnter(w, e)
    BY <1>6
  <2>2. /\ sent' \in Seq(Event) /\ Len(sent') = Len(sent) + 1
        /\ unlinked' = unlinked \cup {Len(sent) + 1}
        /\ pushing' = [pushing EXCEPT ![w] = Len(sent')] /\ sure' = sure
        /\ due' = due /\ issued' = issued
    BY <2>1, <1>4
  <2>3. pushing' \in [Workers -> 0 .. Len(sent')]
    BY <1>1, <1>2, <2>2
  <2>4. 1 .. Len(sent) \subseteq 1 .. Len(sent') /\ Len(sent) + 1 \in 1 .. Len(sent')
    BY <1>2, <2>2
  <2>5. Len(sent') \in Nat /\ Len(sent) <= Len(sent')
    BY <1>2, <2>2
  <2>6. unlinked' \subseteq 1 .. Len(sent')
    BY <1>1, <2>2, <2>4
  <2>7. /\ sure' \subseteq 1 .. Len(sent')
        /\ due' \subseteq 1 .. Len(sent') /\ issued' \subseteq 1 .. Len(sent')
    BY <1>1, <2>2, <2>4
  <2> QED
    BY <1>2, <2>2, <2>3, <2>5, <2>6, <2>7
<1>7. CASE Issue
  <2>1. pushing' \in [Workers -> 0 .. Len(sent')]
    BY <1>1, <1>2, <1>5, <1>7
  <2>2. 1 .. Len(sent) \subseteq 1 .. Len(sent') /\ Len(sent) + 1 \in 1 .. Len(sent')
    BY <1>2, <1>5, <1>7
  <2>3. Len(sent') \in Nat /\ Len(sent) <= Len(sent') /\ Len(sent') \in 1 .. Len(sent')
    BY <1>2, <1>5, <1>7
  <2>4. unlinked' \subseteq 1 .. Len(sent')
    BY <1>1, <1>5, <1>7, <2>2
  <2>5. sure' \subseteq 1 .. Len(sent') /\ due' \subseteq 1 .. Len(sent')
    BY <1>1, <1>5, <1>7, <2>2
  <2>6. issued' \subseteq 1 .. Len(sent')
    BY <1>1, <1>5, <1>7, <2>2, <2>3
  <2> QED
    BY <1>2, <1>5, <1>7, <2>1, <2>3, <2>4, <2>5, <2>6
<1>8. CASE \E w \in Workers : WorkerLink(w)
  <2>1. PICK w \in Workers : WorkerLink(w)
    BY <1>8
  <2>2. /\ sent' = sent /\ unlinked' \subseteq unlinked /\ pushing' = [pushing EXCEPT ![w] = 0]
        /\ sure' = sure /\ due' = due /\ issued' = issued
    BY <2>1 DEF WorkerLink, Queue!Link, history
  <2>3. pushing' \in [Workers -> 0 .. Len(sent)]
    BY <1>1, <1>2, <2>2
  <2> QED
    BY <1>1, <1>2, <2>2, <2>3
<1>9. CASE Synchronise
  BY <1>1, <1>2, <1>9 DEF Synchronise, history
<1>10. CASE Call
  BY <1>1, <1>2, <1>10 DEF Call, queue
<1>11. CASE DrainPop
  BY <1>1, <1>2, <1>11 DEF DrainPop, Queue!Receive, history
<1>12. CASE IssueLink
  BY <1>1, <1>2, <1>12 DEF IssueLink, Queue!Link, history
<1>13. CASE UNCHANGED <<queue, history>>
  BY <1>1, <1>2, <1>13 DEF queue, history
<1> QED
  BY <1>6, <1>7, <1>8, <1>9, <1>10, <1>11, <1>12, <1>13
  DEF Next, process_events, DrainEnd, Skip, Warn, MakePending, Return, Transition,
      driver_entered_pits, driver_exited_pits, vars

\* The batch is a sequence of events that have been popped.
LEMMA BatchTypes ==
    ASSUME EnforcerInv, [Next]_vars
    PROVE  /\ got' \in Seq(Event) /\ batch' \in Seq(Event)
           /\ pc' \in {"idle", "drain", "process", "exchange", "issue", "link"}
<1>1. /\ got \in Seq(Event) /\ batch \in Seq(Event)
      /\ pc \in {"idle", "drain", "process", "exchange", "issue", "link"}
  BY DEF EnforcerInv, TypeOK
<1>2. TypeOK /\ HeadIsThird
  BY DEF EnforcerInv
<1>3. CASE DrainPop
  BY <1>1, <1>2, <1>3, DrainEffect DEF DrainPop
<1>4. CASE Skip \/ Warn \/ MakePending \/ IssueLink
  <2>1. batch # <<>> /\ got' = got /\ batch' \in {batch, Tail(batch)}
    BY <1>2, <1>4 DEF Skip, Warn, MakePending, IssueLink, HeadIsThird, Fining, queue, Queue!Link
  <2>2. batch' \in Seq(Event)
    BY <1>1, <2>1, HeadAndTail
  <2> QED
    BY <1>1, <1>4, <2>1, <2>2 DEF Skip, Warn, MakePending, IssueLink
<1>5. CASE UNCHANGED <<got, batch>>
  BY <1>1, <1>5
  DEF Next, process_events, WorkerLink, WorkerEnter, Synchronise, Call, DrainPop, DrainEnd, Skip,
      Warn, MakePending, Issue, IssueLink, Return, Returns, Transition, driver_entered_pits,
      driver_exited_pits, vars
<1> QED
  BY <1>3, <1>4, <1>5
  DEF Next, process_events, WorkerLink, WorkerEnter, Synchronise, Call, DrainEnd, Issue, Return,
      Transition, driver_entered_pits, driver_exited_pits, vars, queue, board, history,
      Queue!Enter, Queue!Link

\* Warnings are counted, states move along and the extra time is set.
LEMMA BoardTypes ==
    ASSUME EnforcerInv, [Next]_vars
    PROVE  /\ warnings_' \in [Drivers -> Nat] /\ states_' \in [Drivers -> PenaltyStates]
           /\ extra_pit_time_' \in [Drivers -> {0, ExtraPitTicks}]
<1>1. /\ warnings_ \in [Drivers -> Nat] /\ states_ \in [Drivers -> PenaltyStates]
      /\ extra_pit_time_ \in [Drivers -> {0, ExtraPitTicks}]
  BY DEF EnforcerInv, TypeOK
<1>2. CASE Warn
  <2>1. PICK d \in Drivers : /\ warnings_' = [warnings_ EXCEPT ![d] = @ + 1]
                             /\ states_' = states_ /\ extra_pit_time_' = extra_pit_time_
    BY <1>2 DEF Warn, Counts
  <2> QED
    BY <1>1, <2>1
<1>3. CASE MakePending
  BY <1>1, <1>3 DEF MakePending, Moved, PenaltyStates
<1>4. CASE IssueLink
  BY <1>1, <1>4 DEF IssueLink
<1>5. CASE \E d \in Drivers : driver_entered_pits(d) \/ driver_exited_pits(d)
  BY <1>1, <1>5 DEF driver_entered_pits, driver_exited_pits, Transition, PenaltyStates
<1>6. CASE UNCHANGED board
  BY <1>1, <1>6 DEF board
<1> QED
  BY <1>2, <1>3, <1>4, <1>5, <1>6
  DEF Next, process_events, WorkerLink, WorkerEnter, Synchronise, Call, DrainPop, DrainEnd, Skip,
      Issue, Return, vars

\* The types are preserved.
LEMMA TypeStep == EnforcerInv /\ [Next]_vars => TypeOK'
BY QueueTypes, BatchTypes, BoardTypes DEF TypeOK

-----------------------------------------------------------------------------
\* One step preserves what relates the queue to the call in progress.

\* The drain ends at the first place that is not sure, and a push comes after all that are.
LEMMA DrainStep == EnforcerInv /\ [Next]_vars => DrainIsComplete'
<1> SUFFICES ASSUME EnforcerInv, [Next]_vars PROVE DrainIsComplete'
  OBVIOUS
<1>1. /\ sure \intersect unlinked = {} /\ due \subseteq sure
      /\ pc # "drain" => Len(got) + 1 \notin due
  BY DEF EnforcerInv, DrainIsComplete
<1>2. /\ sure \subseteq 1 .. Len(sent) /\ Len(sent) \in Nat /\ Len(got) \in Nat
      /\ Len(sent) + 1 \notin sure
  BY QueueTypes DEF EnforcerInv, TypeOK
<1>3. TypeOK /\ HeadIsThird
  BY DEF EnforcerInv
<1>4. CASE \E w \in Workers, e \in WorkerEvent : WorkerEnter(w, e)
  <2>1. /\ unlinked' = unlinked \cup {Len(sent) + 1}
        /\ sure' = sure /\ due' = due /\ got' = got /\ pc' = pc
    BY <1>3, <1>4, EnterEffect, Events DEF WorkerEnter, history
  <2> QED
    BY <1>1, <1>2, <2>1 DEF DrainIsComplete
<1>5. CASE \E w \in Workers : WorkerLink(w)
  BY <1>1, <1>5 DEF DrainIsComplete, WorkerLink, Queue!Link, history
<1>6. CASE Synchronise
  BY <1>1, <1>2, <1>6 DEF DrainIsComplete, Synchronise, history
<1>7. CASE Call
  BY <1>1, <1>7 DEF DrainIsComplete, Call, queue
<1>8. CASE DrainPop
  BY <1>1, <1>8 DEF DrainIsComplete, DrainPop, Queue!Receive, history
<1>9. CASE DrainEnd
  <2>1. Len(got) + 1 \notin sure
    BY <1>1, <1>2, <1>9 DEF DrainEnd, NothingToPop, Queue!Reachable
  <2> QED
    BY <1>1, <1>9, <2>1 DEF DrainIsComplete, DrainEnd, queue, history
<1>10. CASE Issue
  <2>1. /\ unlinked' = unlinked \cup {Len(sent) + 1}
        /\ sure' = sure /\ due' = due /\ got' = got /\ pc # "drain"
    BY <1>3, <1>10, EnterEffect, FinedDriver DEF Issue, Fining
  <2> QED
    BY <1>1, <1>2, <2>1 DEF DrainIsComplete
<1>11. CASE IssueLink
  BY <1>1, <1>11 DEF DrainIsComplete, IssueLink, Queue!Link, history
<1>12. CASE UNCHANGED <<queue, history>> /\ (pc' = "drain" => pc = "drain")
            /\ (pc = "drain" => pc' = "drain")
  BY <1>1, <1>12 DEF DrainIsComplete, queue, history
<1> QED
  BY <1>4, <1>5, <1>6, <1>7, <1>8, <1>9, <1>10, <1>11, <1>12
  DEF Next, process_events, Skip, Warn, MakePending, Return, Returns, Transition,
      driver_entered_pits, driver_exited_pits, vars

\* Announcements are pushed after the drain, so they stand behind all it popped.
LEMMA IssuesStep == EnforcerInv /\ [Next]_vars => IssuesComeLater'
<1> SUFFICES ASSUME EnforcerInv, [Next]_vars PROVE IssuesComeLater'
  OBVIOUS
<1>1. /\ Len(got) <= Len(sent)
      /\ pc = "drain" => issued = {}
      /\ \A i \in issued : i > Len(got)
  BY DEF EnforcerInv, IssuesComeLater, AnnouncementsLeft
<1>2. /\ Len(sent) \in Nat /\ Len(sent') \in Nat /\ Len(sent) <= Len(sent') /\ Len(got) \in Nat
  BY QueueTypes DEF EnforcerInv, TypeOK
<1>3. TypeOK /\ HeadIsThird
  BY DEF EnforcerInv
<1>4. CASE DrainPop
  <2>1. /\ Len(got') <= Len(sent') /\ issued' = {}
    BY <1>1, <1>3, <1>4, DrainEffect DEF DrainPop, history
  <2> QED
    BY <2>1 DEF IssuesComeLater, AnnouncementsLeft
<1>5. CASE Issue
  <2>1. /\ got' = got /\ issued' = issued \cup {Len(sent')} /\ pc' = "link"
        /\ Len(sent') = Len(sent) + 1
    BY <1>3, <1>5, EnterEffect, FinedDriver DEF Issue, Fining
  <2> QED
    BY <1>1, <1>2, <2>1 DEF IssuesComeLater, AnnouncementsLeft
<1>6. CASE Call
  BY <1>1, <1>6 DEF Call, queue, IssuesComeLater, AnnouncementsLeft
<1>7. CASE got' = got /\ issued' = issued /\ (pc' = "drain" => pc = "drain")
  BY <1>1, <1>2, <1>7 DEF IssuesComeLater, AnnouncementsLeft
<1> QED
  BY <1>4, <1>5, <1>6, <1>7
  DEF Next, process_events, WorkerEnter, WorkerLink, Synchronise, DrainEnd, Skip, Warn, MakePending,
      IssueLink, Return, Returns, Transition, driver_entered_pits, driver_exited_pits, vars, queue,
      history, Queue!Enter, Queue!Link

-----------------------------------------------------------------------------
\* One step preserves what relates the batch to the queue and the counters.

\* Where an event is taken off the batch, the next event popped is judged.
LEMMA TailIsRest ==
    ASSUME TypeOK, BatchIsRest, batch # <<>>, got' = got, batch' = Tail(batch)
    PROVE  /\ Len(batch') <= Len(got)
           /\ \A k \in 1 .. Len(batch') : batch'[k] = got[Len(got) - Len(batch') + k]
<1>1. batch \in Seq(Event) /\ Len(got) \in Nat
  BY DEF TypeOK
<1>2. /\ Len(batch) \in Nat \ {0} /\ Len(batch') = Len(batch) - 1
      /\ \A k \in 1 .. Len(batch) - 1 : batch'[k] = batch[k + 1]
  BY <1>1, HeadAndTail
<1>3. /\ Len(batch) <= Len(got)
      /\ \A k \in 1 .. Len(batch) : batch[k] = got[Len(got) - Len(batch) + k]
  BY DEF BatchIsRest
<1>4. ASSUME NEW k \in 1 .. Len(batch')
      PROVE  batch'[k] = got[Len(got) - Len(batch') + k]
  <2>1. k + 1 \in 1 .. Len(batch) /\ k \in 1 .. Len(batch) - 1
    BY <1>2
  <2>2. batch'[k] = got[Len(got) - Len(batch) + (k + 1)]
    BY <1>2, <1>3, <2>1
  <2>3. Len(got) - Len(batch) + (k + 1) = Len(got) - Len(batch') + k
    BY <1>1, <1>2
  <2> QED
    BY <2>2, <2>3
<1> QED
  BY <1>1, <1>2, <1>3, <1>4

\* The batch stays the rest of what has been popped.
LEMMA BatchStep == EnforcerInv /\ [Next]_vars => BatchIsRest'
<1> SUFFICES ASSUME EnforcerInv, [Next]_vars PROVE BatchIsRest'
  OBVIOUS
<1>1. TypeOK /\ BatchIsRest /\ HeadIsThird
  BY DEF EnforcerInv
<1>2. CASE DrainPop
  <2>1. pc' = "drain"
    BY <1>2 DEF DrainPop
  <2>2. Len(batch') <= Len(got')
    BY <1>1, <1>2, DrainEffect DEF BatchIsRest
  <2>3. ASSUME NEW k \in 1 .. Len(batch')
        PROVE  batch'[k] = got'[Len(got') - Len(batch') + k]
    <3>1. /\ Len(batch) \in Nat /\ Len(got) \in Nat /\ Len(batch) <= Len(got)
          /\ Len(batch') = Len(batch) + 1 /\ Len(got') = Len(got) + 1
      BY <1>1, <1>2, DrainEffect DEF BatchIsRest
    <3>2. CASE k = Len(batch) + 1
      BY <1>1, <1>2, <3>1, <3>2, DrainEffect
    <3>3. CASE k # Len(batch) + 1
      <4>1. /\ k \in 1 .. Len(batch) /\ Len(got) - Len(batch) + k \in 1 .. Len(got)
            /\ Len(got') - Len(batch') + k = Len(got) - Len(batch) + k
        BY <3>1, <3>3
      <4>2. batch'[k] = batch[k] /\ batch[k] = got[Len(got) - Len(batch) + k]
        BY <1>1, <1>2, <4>1, DrainEffect DEF BatchIsRest
      <4>3. got'[Len(got) - Len(batch) + k] = got[Len(got) - Len(batch) + k]
        BY <1>1, <1>2, <4>1, DrainEffect
      <4> QED
        BY <4>1, <4>2, <4>3
    <3> QED
      BY <3>2, <3>3
  <2> QED
    BY <2>1, <2>2, <2>3 DEF BatchIsRest
<1>3. CASE batch # <<>> /\ got' = got /\ batch' = Tail(batch) /\ pc' # "idle"
  BY <1>1, <1>3, TailIsRest DEF BatchIsRest
<1>4. CASE got' = got /\ batch' = batch /\ (pc' = "idle" => pc = "idle" \/ batch = <<>>)
  BY <1>1, <1>4 DEF BatchIsRest
<1>5. CASE Skip \/ Warn \/ MakePending \/ IssueLink
  <2>1. batch # <<>> /\ got' = got /\ batch' \in {batch, Tail(batch)} /\ pc' # "idle"
    BY <1>1, <1>5 DEF Skip, Warn, MakePending, IssueLink, HeadIsThird, Fining, queue, Queue!Link
  <2> QED
    BY <1>3, <1>4, <2>1
<1> QED
  BY <1>2, <1>4, <1>5
  DEF Next, process_events, WorkerEnter, WorkerLink, Synchronise, Call, DrainEnd, Issue,
      Return, Returns, Transition, driver_entered_pits, driver_exited_pits, vars, queue,
      Queue!Enter, Queue!Link

\* Counts over the same first elements are the same.
LEMMA SameCount ==
    ASSUME NEW s, NEW t, NEW n, \A i \in 1 .. n : t[i] = s[i], NEW e
    PROVE  CountOfFirst(t, n, e) = CountOfFirst(s, n, e)
<1>1. {i \in 1 .. n : t[i] = e} = {i \in 1 .. n : s[i] = e}
  OBVIOUS
<1> QED
  BY <1>1 DEF CountOfFirst

\* The event at the head of the batch is the first that has not been judged.
LEMMA HeadIsNext ==
    ASSUME TypeOK, BatchIsRest, batch # <<>>, ~Fining
    PROVE  /\ Judged \in Nat /\ Judged < Len(got) /\ Len(got) \in Nat
           /\ got[Judged + 1] = Head(batch) /\ Head(batch) \in Event
           /\ Len(batch) \in Nat \ {0} /\ Len(Tail(batch)) = Len(batch) - 1
           /\ Judged = Len(got) - Len(batch)
<1>1. batch \in Seq(Event) /\ Len(got) \in Nat
  BY DEF TypeOK
<1>2. /\ Len(batch) \in Nat \ {0} /\ Head(batch) = batch[1] /\ Head(batch) \in Event
      /\ Len(Tail(batch)) = Len(batch) - 1
  BY <1>1, HeadAndTail
<1>3. Len(batch) <= Len(got) /\ batch[1] = got[Len(got) - Len(batch) + 1]
  BY <1>2 DEF BatchIsRest
<1>4. Judged = Len(got) - Len(batch)
  BY <1>1, <1>2 DEF Judged
<1> QED
  BY <1>1, <1>2, <1>3, <1>4

\* A step that judges the head of the batch counts it for its driver, and for no other.
LEMMA WarningsStep == EnforcerInv /\ [Next]_vars => WarningsAreJudged'
<1> SUFFICES ASSUME EnforcerInv, [Next]_vars PROVE WarningsAreJudged'
  OBVIOUS
<1>1. TypeOK /\ BatchIsRest /\ HeadIsThird /\ WarningsAreJudged
  BY DEF EnforcerInv
<1>2. Len(got) \in Nat /\ Len(batch) \in Nat /\ Len(batch) <= Len(got)
      /\ warnings_ \in [Drivers -> Nat]
  BY <1>1 DEF TypeOK, BatchIsRest
<1>3. CASE DrainPop
  <2>1. /\ Judged = Len(got) - Len(batch) /\ Judged' = Judged /\ warnings_' = warnings_
        /\ Judged \in Nat /\ Judged <= Len(got)
    <3>1. ~Fining /\ ~Fining' /\ warnings_' = warnings_
      BY <1>3 DEF Fining, DrainPop, board
    <3>2. Judged = Len(got) - Len(batch) /\ Judged' = Len(got') - Len(batch')
      BY <1>1, <1>2, <1>3, <3>1, DrainEffect DEF Judged
    <3>3. Len(got') = Len(got) + 1 /\ Len(batch') = Len(batch) + 1
      BY <1>1, <1>3, DrainEffect
    <3> QED
      BY <1>2, <3>1, <3>2, <3>3
  <2>2. PICK n, s, t : n = Judged /\ s = got /\ t = got'
    OBVIOUS
  <2>3. \A i \in 1 .. n : t[i] = s[i]
    BY <1>1, <1>2, <1>3, <2>1, <2>2, DrainEffect
  <2>4. \A e : CountOfFirst(t, n, e) = CountOfFirst(s, n, e)
    BY <2>3, SameCount
  <2> QED
    BY <1>1, <2>1, <2>2, <2>4 DEF WarningsAreJudged
<1>4. ASSUME batch # <<>>, ~Fining, got' = got, Judged' = Judged + 1,
             \A d \in Drivers : warnings_'[d] =
                 warnings_[d] + (IF Head(batch) = TrackLimits(d) THEN 1 ELSE 0)
      PROVE  WarningsAreJudged'
  <2>1. PICK n, s : n = Judged /\ s = got
    OBVIOUS
  <2>2. n \in Nat /\ s[n + 1] = Head(batch)
    BY <1>1, <1>4, <2>1, HeadIsNext
  <2>3. ASSUME NEW d \in Drivers
        PROVE  warnings_'[d] = CountOfFirst(s, n + 1, TrackLimits(d))
    <3>1. CountOfFirst(s, n + 1, TrackLimits(d)) =
            CountOfFirst(s, n, TrackLimits(d)) + (IF s[n + 1] = TrackLimits(d) THEN 1 ELSE 0)
      BY <2>2, OneMore
    <3>2. warnings_[d] = CountOfFirst(s, n, TrackLimits(d))
      BY <1>1, <2>1 DEF WarningsAreJudged
    <3> QED
      BY <1>4, <2>2, <3>1, <3>2
  <2> QED
    BY <1>4, <2>1, <2>3 DEF WarningsAreJudged
<1>5. CASE Skip
  <2>1. batch # <<>> /\ ~Fining /\ got' = got /\ warnings_' = warnings_
        /\ pc' = "process" /\ batch' = Tail(batch) /\ ~Counts(Head(batch))
    BY <1>5 DEF Skip, Fining, queue, board
  <2>2. Judged' = Judged + 1
    BY <1>1, <2>1, HeadIsNext DEF Judged, Fining
  <2>3. \A d \in Drivers : Head(batch) # TrackLimits(d)
    BY <1>1, <2>1, HeadIsNext, Events
  <2> QED
    BY <1>2, <1>4, <2>1, <2>2, <2>3
<1>6. CASE Warn
  <2>1. PICK c \in Drivers : c = Head(batch).driver /\ warnings_' = [warnings_ EXCEPT ![c] = @ + 1]
    BY <1>6 DEF Warn, Counts
  <2>2. /\ batch # <<>> /\ ~Fining /\ got' = got /\ Counts(Head(batch))
        /\ (pc' = "exchange" /\ batch' = batch) \/ (pc' = "process" /\ batch' = Tail(batch))
    BY <1>6 DEF Warn, Fining, queue
  <2>3. Judged' = Judged + 1
    BY <1>1, <2>2, HeadIsNext DEF Judged, Fining
  <2>4. \A d \in Drivers : Head(batch) = TrackLimits(d) <=> c = d
    BY <1>1, <2>1, <2>2, HeadIsNext, Events
  <2>5. \A d \in Drivers : warnings_'[d] =
           warnings_[d] + (IF Head(batch) = TrackLimits(d) THEN 1 ELSE 0)
    BY <1>2, <2>1, <2>4
  <2> QED
    BY <1>4, <2>2, <2>3, <2>5
<1>7. CASE got' = got /\ Judged' = Judged /\ warnings_' = warnings_
  BY <1>1, <1>7 DEF WarningsAreJudged
<1>8. CASE MakePending \/ Issue \/ IssueLink
  <2>1. Fining /\ batch \in Seq(Event) /\ batch # <<>> /\ Len(Tail(batch)) = Len(batch) - 1
    BY <1>1, <1>8, FinedDriver, HeadAndTail DEF MakePending, Issue, IssueLink, Fining
  <2>2. /\ got' = got /\ warnings_' = warnings_
        /\ \/ Fining' /\ batch' = batch
           \/ ~Fining' /\ batch' = Tail(batch)
    BY <1>8 DEF MakePending, Issue, IssueLink, Fining, queue, board, Queue!Enter, Queue!Link
  <2>3. Judged' = Judged
    <3>1. CASE Fining' /\ batch' = batch
      BY <2>1, <2>2, <3>1, Zenon DEF Judged
    <3>2. CASE ~Fining' /\ batch' = Tail(batch)
      <4>1. Judged = Len(got) - Len(batch) + 1
        BY <2>1, Zenon DEF Judged
      <4>2. Judged' = Len(got) - (Len(batch) - 1) + 0
        BY <2>1, <2>2, <3>2, Zenon DEF Judged
      <4>3. Len(got) \in Nat /\ Len(batch) \in Nat
        BY <1>2, <2>1
      <4> HIDE DEF Judged, Fining
      <4> QED
        BY <4>1, <4>2, <4>3
    <3> QED
      BY <2>2, <3>1, <3>2
  <2> QED
    BY <1>7, <2>2, <2>3
<1>9. CASE got' = got /\ batch' = batch /\ warnings_' = warnings_ /\ (Fining' <=> Fining)
  <2>1. Judged' = Judged
    BY <1>9 DEF Judged
  <2> QED
    BY <1>7, <1>9, <2>1
<1> QED
  BY <1>3, <1>5, <1>6, <1>8, <1>9
  DEF Next, process_events, WorkerEnter, WorkerLink, Synchronise, Call, DrainEnd, Return, Returns,
      Transition, driver_entered_pits, driver_exited_pits, vars, queue, board, Fining,
      Queue!Enter, Queue!Link

-----------------------------------------------------------------------------
\* One step preserves what relates the counters to the penalties.

\* A fine starts at the third warning and keeps its driver until the penalty is announced.
LEMMA HeadStep == EnforcerInv /\ [Next]_vars => HeadIsThird'
<1> SUFFICES ASSUME EnforcerInv, [Next]_vars PROVE HeadIsThird'
  OBVIOUS
<1>1. TypeOK /\ HeadIsThird
  BY DEF EnforcerInv
<1>2. CASE Warn
  <2>1. PICK c \in Drivers : c = Head(batch).driver /\ warnings_' = [warnings_ EXCEPT ![c] = @ + 1]
    BY <1>2 DEF Warn, Counts
  <2>2. CASE pc' = "exchange"
    <3>1. batch' = batch /\ batch # <<>> /\ Counts(Head(batch)) /\ warnings_[c] + 1 = Warnings
      BY <1>2, <2>1, <2>2 DEF Warn, Reaches
    <3>2. warnings_'[c] = Warnings
      BY <1>1, <2>1, <3>1 DEF TypeOK
    <3> QED
      BY <2>1, <3>1, <3>2 DEF HeadIsThird
  <2>3. CASE ~Fining'
    BY <2>3 DEF HeadIsThird
  <2> QED
    BY <1>2, <2>2, <2>3 DEF Warn, Fining
<1>3. CASE ~Fining'
  BY <1>3 DEF HeadIsThird
<1>4. CASE Fining /\ batch' = batch /\ warnings_' = warnings_
  BY <1>1, <1>4 DEF HeadIsThird
<1>5. CASE MakePending \/ Issue \/ IssueLink
  BY <1>3, <1>4, <1>5 DEF MakePending, Issue, IssueLink, Fining, board
<1>6. CASE UNCHANGED <<pc, batch, warnings_>>
  BY <1>3, <1>4, <1>6 DEF Fining
<1> QED
  BY <1>2, <1>3, <1>5, <1>6
  DEF Next, process_events, WorkerEnter, WorkerLink, Synchronise, Call, DrainPop, DrainEnd, Skip,
      Return, Returns, Transition, driver_entered_pits, driver_exited_pits, vars, board, Fining

\* A driver has a penalty, announced once, as soon as the third warning has been dealt with.
LEMMA PenaltiesStep == EnforcerInv /\ [Next]_vars => PenaltiesFollowWarnings'
<1> SUFFICES ASSUME EnforcerInv, [Next]_vars, NEW d \in Drivers PROVE PenaltyOf(d)'
  BY DEF PenaltiesFollowWarnings
<1>1. TypeOK /\ HeadIsThird /\ PenaltyOf(d)
  BY DEF EnforcerInv, PenaltiesFollowWarnings
<1>2. warnings_ \in [Drivers -> Nat] /\ states_ \in [Drivers -> PenaltyStates]
  BY <1>1 DEF TypeOK
<1>3. CASE \E w \in Workers, e \in WorkerEvent : WorkerEnter(w, e)
  <2>1. PICK w \in Workers, e \in WorkerEvent : WorkerEnter(w, e)
    BY <1>3
  <2>2. e \in Event /\ e # PenaltyIssued(d) /\ Queue!Enter(e) /\ UNCHANGED <<pc, batch, board>>
    BY <2>1, Events DEF WorkerEnter
  <2>3. Count(sent', PenaltyIssued(d)) =
          Count(sent, PenaltyIssued(d)) + (IF e = PenaltyIssued(d) THEN 1 ELSE 0)
    BY <1>1, <2>2, EnterEffect
  <2>4. Count(sent', PenaltyIssued(d)) = Count(sent, PenaltyIssued(d))
    BY <1>1, <2>2, <2>3 DEF PenaltyOf
  <2> QED
    BY <1>1, <2>2, <2>4 DEF PenaltyOf, BeingFined, board
<1>4. CASE Warn
  <2>1. PICK c \in Drivers : /\ c = Head(batch).driver
                             /\ warnings_' = [warnings_ EXCEPT ![c] = @ + 1]
    BY <1>4 DEF Warn, Counts
  <2>2. /\ sent' = sent /\ states_' = states_ /\ pc = "process"
        /\ IF warnings_[c] + 1 = Warnings THEN pc' = "exchange" /\ batch' = batch
                                          ELSE pc' = "process"
    BY <1>4, <2>1 DEF Warn, Reaches, queue
  <2>3. /\ states_[d] # "NONE" <=> warnings_[d] >= Warnings
        /\ Count(sent, PenaltyIssued(d)) = IF warnings_[d] >= Warnings THEN 1 ELSE 0
    BY <1>1, <2>2 DEF PenaltyOf, BeingFined
  <2>4. Count(sent', PenaltyIssued(d)) = Count(sent, PenaltyIssued(d))
    BY <2>2
  <2>5. CASE c = d
    <3>1. warnings_[d] \in Nat /\ warnings_'[d] = warnings_[d] + 1
      BY <1>2, <2>1, <2>5
    <3>2. CASE warnings_[d] + 1 = Warnings
      <4>1. \A labels : BeingFined(d, labels)' <=> "exchange" \in labels
        BY <2>1, <2>2, <2>5, <3>2 DEF BeingFined
      <4>2. warnings_[d] < Warnings
        BY <3>1, <3>2 DEF Warnings
      <4>3. states_[d] = "NONE" /\ Count(sent, PenaltyIssued(d)) = 0
        BY <2>3, <3>1, <4>2 DEF Warnings
      <4> QED
        BY <2>2, <2>4, <4>1, <4>3 DEF PenaltyOf
    <3>3. CASE warnings_[d] + 1 # Warnings
      <4>1. \A labels : "process" \notin labels => ~BeingFined(d, labels)'
        BY <2>2, <2>5, <3>3 DEF BeingFined
      <4>2. warnings_'[d] >= Warnings <=> warnings_[d] >= Warnings
        BY <3>1, <3>3 DEF Warnings
      <4> QED
        BY <2>2, <2>3, <2>4, <4>1, <4>2 DEF PenaltyOf
    <3> QED
      BY <3>2, <3>3
  <2>6. CASE c # d
    <3>1. \A labels : "process" \notin labels => ~BeingFined(d, labels)'
      BY <2>1, <2>2, <2>6 DEF BeingFined
    <3>2. warnings_'[d] = warnings_[d]
      BY <1>2, <2>1, <2>6
    <3> QED
      BY <2>2, <2>3, <2>4, <3>1, <3>2 DEF PenaltyOf
  <2> QED
    BY <2>5, <2>6
<1>5. CASE MakePending
  <2>1. PICK c \in Drivers : c = Head(batch).driver /\ warnings_[c] = Warnings
    BY <1>1, <1>5 DEF MakePending, HeadIsThird, Fining, Counts
  <2>2. PenaltyOf(c)
    BY DEF EnforcerInv, PenaltiesFollowWarnings
  <2>3. states_[c] = "NONE"
    BY <1>5, <2>1, <2>2 DEF MakePending, PenaltyOf, BeingFined
  <2>4. /\ states_' = [states_ EXCEPT ![c] = "PENDING"] /\ pc = "exchange" /\ pc' = "issue"
        /\ batch' = batch /\ warnings_' = warnings_ /\ sent' = sent
    BY <1>5, <2>1, <2>3 DEF MakePending, Moved, queue
  <2>5. Count(sent', PenaltyIssued(d)) = Count(sent, PenaltyIssued(d))
    BY <2>4
  <2>6. BeingFined(d, {"exchange", "issue"})' <=> BeingFined(d, {"exchange", "issue"})
    BY <2>4 DEF BeingFined
  <2>7. states_'[d] # "NONE" <=> warnings_'[d] >= Warnings /\ ~BeingFined(d, {"exchange"})'
    <3>1. ~BeingFined(d, {"exchange"})'
      BY <2>4 DEF BeingFined
    <3>2. CASE c = d
      <4>1. states_'[d] = "PENDING"
        BY <1>2, <2>4, <3>2
      <4>2. warnings_'[d] >= Warnings
        BY <2>1, <2>4, <3>2 DEF Warnings
      <4> QED
        BY <3>1, <4>1, <4>2
    <3>3. CASE c # d
      <4>1. states_'[d] = states_[d] /\ warnings_'[d] = warnings_[d]
        BY <1>2, <2>4, <3>3
      <4>2. ~BeingFined(d, {"exchange"})
        BY <2>1, <3>3 DEF BeingFined
      <4> QED
        BY <1>1, <3>1, <4>1, <4>2 DEF PenaltyOf
    <3> QED
      BY <3>2, <3>3
  <2> QED
    BY <1>1, <2>4, <2>5, <2>6, <2>7 DEF PenaltyOf
<1>6. CASE Issue
  <2>1. PICK c \in Drivers : /\ c = Head(batch).driver /\ warnings_[c] = Warnings
                             /\ PenaltyIssued(c) \in Event
    BY <1>1, <1>6, Events DEF Issue, HeadIsThird, Fining, Counts
  <2>2. /\ Queue!Enter(PenaltyIssued(c)) /\ pc = "issue" /\ pc' = "link"
        /\ batch' = batch /\ warnings_' = warnings_ /\ states_' = states_
    BY <1>6, <2>1 DEF Issue, board
  <2>3. Count(sent', PenaltyIssued(d)) =
          Count(sent, PenaltyIssued(d)) + (IF PenaltyIssued(c) = PenaltyIssued(d) THEN 1 ELSE 0)
    BY <1>1, <2>1, <2>2, EnterEffect
  <2>4. PenaltyIssued(c) = PenaltyIssued(d) <=> c = d
    BY Events
  <2>5. ~BeingFined(d, {"exchange"}) /\ ~BeingFined(d, {"exchange"})'
        /\ ~BeingFined(d, {"exchange", "issue"})'
    BY <2>2 DEF BeingFined
  <2>6. BeingFined(d, {"exchange", "issue"}) <=> c = d
    BY <2>1, <2>2 DEF BeingFined
  <2>7. Count(sent', PenaltyIssued(d)) = IF warnings_'[d] >= Warnings THEN 1 ELSE 0
    <3>1. CASE c = d
      BY <1>1, <2>1, <2>2, <2>3, <2>4, <2>6, <3>1 DEF PenaltyOf, Warnings
    <3>2. CASE c # d
      BY <1>1, <2>2, <2>3, <2>4, <2>6, <3>2 DEF PenaltyOf
    <3> QED
      BY <3>1, <3>2
  <2> QED
    BY <1>1, <2>2, <2>5, <2>7 DEF PenaltyOf
<1>7. CASE \E c \in Drivers : driver_entered_pits(c) \/ driver_exited_pits(c)
  <2>1. PICK c \in Drivers : driver_entered_pits(c) \/ driver_exited_pits(c)
    BY <1>7
  <2>2. sent' = sent /\ warnings_' = warnings_ /\ pc' = pc /\ batch' = batch
    BY <2>1 DEF driver_entered_pits, driver_exited_pits, Transition, queue
  <2>3. states_'[d] # "NONE" <=> states_[d] # "NONE"
    BY <1>2, <2>1 DEF driver_entered_pits, driver_exited_pits, Transition
  <2> QED
    BY <1>1, <2>2, <2>3 DEF PenaltyOf, BeingFined
<1>8. CASE sent' = sent /\ warnings_' = warnings_ /\ states_' = states_
           /\ \/ pc' = pc /\ batch' = batch
              \/ {pc, pc'} \intersect {"exchange", "issue"} = {}
  BY <1>1, <1>8 DEF PenaltyOf, BeingFined
<1>9. CASE DrainPop \/ IssueLink
  BY <1>8, <1>9 DEF DrainPop, IssueLink, board, Queue!Receive, Queue!Link
<1> QED
  BY <1>3, <1>4, <1>5, <1>6, <1>7, <1>8, <1>9
  DEF Next, process_events, WorkerLink, Synchronise, Call, DrainEnd, Skip, Return, Returns, vars,
      queue, board, Queue!Link

-----------------------------------------------------------------------------
\* The invariant holds in every reachable state.
LEMMA Invariance == Spec => []EnforcerInv
<1>1. EnforcerInv /\ [Next]_vars => EnforcerInv'
  BY TypeStep, DrainStep, IssuesStep, BatchStep, WarningsStep, HeadStep, PenaltiesStep
  DEF EnforcerInv
<1> QED
  BY InitInv, <1>1, PTL DEF Spec

(* Every variable keeps the type of the member or local it stands for.         *)
THEOREM TypeCorrect == Spec => []TypeOK
<1>1. EnforcerInv => TypeOK
  BY DEF EnforcerInv
<1> QED
  BY Invariance, <1>1, PTL

(* Between two calls of process_events() the warnings of every driver are the  *)
(* TRACK_LIMITS events popped for that driver, whatever the workers, the pits  *)
(* and the order of the pushes.                                                *)
THEOREM WarningsAreCounted == Spec => []WarningsCounted
<1>1. EnforcerInv => WarningsCounted
  <2> SUFFICES ASSUME EnforcerInv, pc = "idle"
               PROVE  \A d \in Drivers : warnings_[d] = Count(got, TrackLimits(d))
    BY DEF WarningsCounted
  <2>1. got \in Seq(Event) /\ batch = <<>>
    BY DEF EnforcerInv, TypeOK, BatchIsRest
  <2>2. Judged = Len(got)
    BY <2>1 DEF Judged, Fining
  <2> QED
    BY <2>2 DEF EnforcerInv, WarningsAreJudged, Count, CountOfFirst
<1> QED
  BY Invariance, <1>1, PTL

(* Between two calls a driver has exactly one penalty, announced exactly once, *)
(* if there were three warnings or more, and none otherwise: compare_exchange  *)
(* moves a state away from NONE once, whatever driver_entered_pits() and       *)
(* driver_exited_pits() do meanwhile.                                          *)
THEOREM OnePenalty == Spec => []OnePenaltyForThreeWarnings
<1>1. EnforcerInv => OnePenaltyForThreeWarnings
  BY DEF EnforcerInv, PenaltiesFollowWarnings, PenaltyOf, BeingFined, OnePenaltyForThreeWarnings
<1> QED
  BY Invariance, <1>1, PTL

(* A call never pops an announcement it has pushed itself, because its drain   *)
(* ends before the first one is pushed.                                        *)
THEOREM AnnouncementsStay == Spec => []AnnouncementsLeft
<1>1. EnforcerInv => AnnouncementsLeft
  BY DEF EnforcerInv, IssuesComeLater
<1> QED
  BY Invariance, <1>1, PTL

(* A call processes every event that was sure to be in the queue when it       *)
(* began and had nothing unsure before it.                                     *)
THEOREM DrainProcessesSure == Spec => []SurePrefixProcessed
<1>1. EnforcerInv => SurePrefixProcessed
  <2> SUFFICES ASSUME EnforcerInv, pc = "idle", NEW i \in due,
                      ((1 .. i) \ due) \subseteq (1 .. Len(got))
               PROVE  i <= Len(got)
    BY DEF SurePrefixProcessed
  <2>1. Len(got) \in Nat /\ i \in Nat /\ Len(got) + 1 \notin due
    <3>1. got \in Seq(Event) /\ sent \in Seq(Event) /\ i \in 1 .. Len(sent)
      BY DEF EnforcerInv, TypeOK
    <3> QED
      BY <3>1 DEF EnforcerInv, DrainIsComplete
  <2> SUFFICES ASSUME i > Len(got) PROVE FALSE
    BY <2>1
  <2>2. Len(got) + 1 \in (1 .. i) \ due /\ Len(got) + 1 \notin 1 .. Len(got)
    BY <2>1
  <2> QED
    BY <2>2
<1> QED
  BY Invariance, <1>1, PTL

-----------------------------------------------------------------------------
\* What the calls between two moments amount to, for a caller that does not look inside
\* them: the calls of RaceControl are single steps.

\* Nothing is being processed; what has been popped, the board and the announcements are these.
Between(g, w, s, a) ==
    /\ pc = "idle" /\ got = g /\ warnings_ = w /\ states_ = s
    /\ \A d \in Drivers : Count(sent, PenaltyIssued(d)) = a[d]

\* The warnings for d among the events popped after the first n.
WarningsSince(n, d) == Cardinality({i \in n + 1 .. Len(got) : got[i] = TrackLimits(d)})

\* A driver without a penalty is fined when the warnings come to three.
FinedSince(w, s, n, d) == s[d] = "NONE" /\ w[d] + WarningsSince(n, d) >= Warnings

CallsSince(g, w, s, a) ==
    pc = "idle" => \A d \in Drivers :
       /\ warnings_[d] = w[d] + WarningsSince(Len(g), d)
       /\ states_[d] # "NONE" <=> s[d] # "NONE" \/ FinedSince(w, s, Len(g), d)
       /\ Count(sent, PenaltyIssued(d)) = a[d] + (IF FinedSince(w, s, Len(g), d) THEN 1 ELSE 0)

\* What the invariant leaves of such a moment: its events are the first of those popped since.
Follows(g, w, s, a) ==
    /\ g \in Seq(Event) /\ Len(g) <= Len(got) /\ \A i \in 1 .. Len(g) : got[i] = g[i]
    /\ \A d \in Drivers :
         /\ w[d] = CountOfFirst(g, Len(g), TrackLimits(d))
         /\ s[d] # "NONE" <=> w[d] >= Warnings
         /\ a[d] = IF w[d] >= Warnings THEN 1 ELSE 0

\* The warnings for d among the events of such a moment and since make those of all events.
LEMMA WarningsAdd ==
    ASSUME NEW g, NEW d, Len(g) \in Nat, Len(got) \in Nat, Len(g) <= Len(got),
           \A i \in 1 .. Len(g) : got[i] = g[i]
    PROVE  /\ CountOfFirst(g, Len(g), TrackLimits(d)) \in Nat
           /\ WarningsSince(Len(g), d) \in Nat
           /\ CountOfFirst(got, Len(got), TrackLimits(d)) =
                CountOfFirst(g, Len(g), TrackLimits(d)) + WarningsSince(Len(g), d)
<1>1. PICK n, m, t, e : n = Len(g) /\ m = Len(got) /\ t = got /\ e = TrackLimits(d)
  OBVIOUS
<1>2. n \in Nat /\ m \in Nat /\ n <= m /\ \A i \in 1 .. n : t[i] = g[i]
  BY <1>1
<1> DEFINE S == {i \in 1 .. n : g[i] = e}
           R == {i \in n + 1 .. m : t[i] = e}
           T == {i \in 1 .. m : t[i] = e}
<1>3. S \in SUBSET (1 .. n) /\ R \in SUBSET (n + 1 .. m) /\ S \cap R = {}
  BY <1>2
<1>4. T = S \cup R
  <2>1. \A i : i \in 1 .. m <=> i \in 1 .. n \/ i \in n + 1 .. m
    BY <1>2
  <2>2. \A i \in 1 .. n : i \in S <=> t[i] = e
    BY <1>2
  <2>3. \A i : i \in T <=> i \in S \/ i \in R
    BY <2>1, <2>2
  <2> HIDE DEF S, R, T
  <2> QED
    BY <2>3
<1> HIDE DEF S, R, T
<1>5. IsFiniteSet(S) /\ IsFiniteSet(R)
  <2>1. 1 \in Int /\ n \in Int /\ n + 1 \in Int /\ m \in Int
    BY <1>2
  <2>2. IsFiniteSet(1 .. n) /\ IsFiniteSet(n + 1 .. m)
    BY <2>1, FS_Interval
  <2> QED
    BY <1>3, <2>2, FS_Subset
<1>6. Cardinality(S) \in Nat /\ Cardinality(R) \in Nat
  BY <1>5, FS_CardinalityType
<1>7. Cardinality(S \cup R) = Cardinality(S) + Cardinality(R) - Cardinality(S \cap R)
  BY <1>5, FS_Union
<1>8. Cardinality(S \cap R) = 0
  BY <1>3, FS_EmptySet
<1>9. Cardinality(T) = Cardinality(S) + Cardinality(R)
  BY <1>4, <1>6, <1>7, <1>8
<1>10. /\ CountOfFirst(g, Len(g), TrackLimits(d)) = Cardinality(S)
       /\ CountOfFirst(got, Len(got), TrackLimits(d)) = Cardinality(T)
       /\ WarningsSince(Len(g), d) = Cardinality(R)
  BY <1>1, Zenon DEF S, R, T, CountOfFirst, WarningsSince
<1> QED
  BY <1>6, <1>9, <1>10

\* Between two calls everything follows from what has been popped.
LEMMA IdleFacts ==
    ASSUME EnforcerInv, pc = "idle"
    PROVE  /\ got \in Seq(Event)
           /\ \A d \in Drivers :
                /\ warnings_[d] = CountOfFirst(got, Len(got), TrackLimits(d))
                /\ states_[d] # "NONE" <=> warnings_[d] >= Warnings
                /\ Count(sent, PenaltyIssued(d)) = IF warnings_[d] >= Warnings THEN 1 ELSE 0
<1>1. got \in Seq(Event) /\ batch = <<>>
  BY DEF EnforcerInv, TypeOK, BatchIsRest
<1>2. Judged = Len(got)
  BY <1>1 DEF Judged, Fining
<1>3. \A d \in Drivers : warnings_[d] = CountOfFirst(got, Len(got), TrackLimits(d))
  BY <1>2 DEF EnforcerInv, WarningsAreJudged
<1>4. \A d \in Drivers :
        /\ states_[d] # "NONE" <=> warnings_[d] >= Warnings
        /\ Count(sent, PenaltyIssued(d)) = IF warnings_[d] >= Warnings THEN 1 ELSE 0
  BY DEF EnforcerInv, PenaltiesFollowWarnings, PenaltyOf, BeingFined
<1> QED
  BY <1>1, <1>3, <1>4

\* Events are popped in order and none is given back.
LEMMA FollowsStep ==
    ASSUME NEW g, NEW w, NEW s, NEW a, EnforcerInv, Follows(g, w, s, a), [Next]_vars
    PROVE  Follows(g, w, s, a)'
<1>1. CASE DrainPop
  <2>1. /\ Len(got') = Len(got) + 1 /\ Len(got) \in Nat
        /\ \A i \in 1 .. Len(got) : got'[i] = got[i]
    BY <1>1, DrainEffect DEF EnforcerInv
  <2>2. g \in Seq(Event) /\ Len(g) <= Len(got) /\ \A i \in 1 .. Len(g) : got[i] = g[i]
    BY DEF Follows
  <2>3. Len(g) \in Nat
    BY <2>2
  <2>4. Len(g) <= Len(got') /\ \A i \in 1 .. Len(g) : i \in 1 .. Len(got)
    BY <2>1, <2>2, <2>3
  <2>5. \A i \in 1 .. Len(g) : got'[i] = g[i]
    BY <2>1, <2>2, <2>4
  <2> QED
    BY <2>2, <2>4, <2>5, Zenon DEF Follows
<1>2. CASE got' = got
  BY <1>2, Zenon DEF Follows
<1> QED
  BY <1>1, <1>2
  DEF Next, process_events, WorkerEnter, WorkerLink, Synchronise, Call, DrainEnd, Skip, Warn,
      MakePending, Issue, IssueLink, Return, Transition, driver_entered_pits,
      driver_exited_pits, vars, queue, Queue!Enter, Queue!Link

(* From one moment between two calls of process_events() to any later one, all *)
(* the calls and the pit visits between them amount to one: each driver's      *)
(* warnings grow by the TRACK_LIMITS events popped since, and those fined, and *)
(* announced once, are exactly the ones without a penalty who come to three.   *)
(* RaceControl takes a call as this one step.                                  *)
THEOREM CallsAreSteps ==
    ASSUME NEW g, NEW w, NEW s, NEW a
    PROVE  Spec => [](Between(g, w, s, a) => []CallsSince(g, w, s, a))
<1>1. ASSUME EnforcerInv, Between(g, w, s, a) PROVE Follows(g, w, s, a)
  <2>1. /\ pc = "idle" /\ got = g /\ warnings_ = w /\ states_ = s
        /\ \A d \in Drivers : Count(sent, PenaltyIssued(d)) = a[d]
    BY <1>1 DEF Between
  <2>2. /\ g \in Seq(Event)
        /\ \A d \in Drivers :
             /\ w[d] = CountOfFirst(g, Len(g), TrackLimits(d))
             /\ s[d] # "NONE" <=> w[d] >= Warnings
             /\ a[d] = IF w[d] >= Warnings THEN 1 ELSE 0
    BY <1>1, <2>1, IdleFacts
  <2>3. Len(g) \in Nat
    BY <2>2
  <2>4. Len(g) <= Len(got) /\ \A i \in 1 .. Len(g) : got[i] = g[i]
    BY <2>1, <2>3
  <2> QED
    BY <2>2, <2>4, Zenon DEF Follows
<1>2. EnforcerInv /\ Follows(g, w, s, a) /\ [Next]_vars => Follows(g, w, s, a)'
  BY FollowsStep
<1>3. ASSUME EnforcerInv, Follows(g, w, s, a) PROVE CallsSince(g, w, s, a)
  <2> SUFFICES ASSUME pc = "idle", NEW d \in Drivers
               PROVE  /\ warnings_[d] = w[d] + WarningsSince(Len(g), d)
                      /\ states_[d] # "NONE" <=> s[d] # "NONE" \/ FinedSince(w, s, Len(g), d)
                      /\ Count(sent, PenaltyIssued(d)) =
                           a[d] + (IF FinedSince(w, s, Len(g), d) THEN 1 ELSE 0)
    BY DEF CallsSince
  <2>1. /\ got \in Seq(Event) /\ warnings_[d] = CountOfFirst(got, Len(got), TrackLimits(d))
        /\ states_[d] # "NONE" <=> warnings_[d] >= Warnings
        /\ Count(sent, PenaltyIssued(d)) = IF warnings_[d] >= Warnings THEN 1 ELSE 0
    BY <1>3, IdleFacts
  <2>2. /\ g \in Seq(Event) /\ Len(g) <= Len(got) /\ \A i \in 1 .. Len(g) : got[i] = g[i]
        /\ w[d] = CountOfFirst(g, Len(g), TrackLimits(d))
        /\ s[d] # "NONE" <=> w[d] >= Warnings
        /\ a[d] = IF w[d] >= Warnings THEN 1 ELSE 0
    BY <1>3 DEF Follows
  <2>3. Len(g) \in Nat /\ Len(got) \in Nat
    BY <2>1, <2>2
  <2>4. /\ w[d] \in Nat /\ WarningsSince(Len(g), d) \in Nat
        /\ warnings_[d] = w[d] + WarningsSince(Len(g), d)
    <3>1. /\ CountOfFirst(g, Len(g), TrackLimits(d)) \in Nat
          /\ WarningsSince(Len(g), d) \in Nat
          /\ CountOfFirst(got, Len(got), TrackLimits(d)) =
               CountOfFirst(g, Len(g), TrackLimits(d)) + WarningsSince(Len(g), d)
      BY <2>2, <2>3, WarningsAdd, Zenon
    <3> QED
      BY <2>1, <2>2, <3>1
  <2>5. FinedSince(w, s, Len(g), d) <=> w[d] < Warnings /\ warnings_[d] >= Warnings
    BY <2>2, <2>4 DEF FinedSince, Warnings
  <2>6. w[d] >= Warnings => warnings_[d] >= Warnings
    BY <2>4 DEF Warnings
  <2>7. w[d] < Warnings <=> ~(w[d] >= Warnings)
    BY <2>4 DEF Warnings
  <2> QED
    BY <2>1, <2>2, <2>4, <2>5, <2>6, <2>7
<1> QED
  BY Invariance, <1>1, <1>2, <1>3, PTL DEF Spec

-----------------------------------------------------------------------------
(* The events_ queue of this model behaves as MpscChannel, which MpscQueue is  *)
(* proved to implement: what is proved here holds of the linked queue.         *)
THEOREM UsesTheQueue == Spec => Queue!Spec
<1>1. Init => Queue!Init
  BY DEF Init
<1>2. ASSUME EnforcerInv, [Next]_vars PROVE [Queue!Next]_(Queue!vars)
  <2>1. CASE \E w \in Workers, e \in WorkerEvent : WorkerEnter(w, e)
    BY <2>1, Events DEF WorkerEnter, Queue!Next
  <2>2. CASE \E w \in Workers : WorkerLink(w)
    BY <2>2 DEF WorkerLink, Queue!Next, Queue!Link
  <2>3. CASE DrainPop
    BY <2>3 DEF DrainPop, Queue!Next
  <2>4. CASE Issue
    <3>1. PICK e \in Event : e = PenaltyIssued(Head(batch).driver)
      BY <1>2, <2>4, FinedDriver DEF EnforcerInv, Issue, Fining
    <3>2. Queue!Enter(e)
      BY <2>4, <3>1 DEF Issue, Queue!Enter
    <3> QED
      BY <3>2 DEF Queue!Next
  <2>5. CASE IssueLink
    BY <2>5 DEF IssueLink, Queue!Next, Queue!Link
  <2>6. CASE UNCHANGED <<sent, unlinked, got>>
    BY <2>6 DEF Queue!vars
  <2> QED
    BY <1>2, <2>1, <2>2, <2>3, <2>4, <2>5, <2>6
    DEF Next, process_events, Synchronise, Call, DrainEnd, Skip, Warn, MakePending, Return,
        Transition, driver_entered_pits, driver_exited_pits, vars, queue
<1> QED
  BY Invariance, <1>1, <1>2, PTL DEF Spec, Queue!Spec
=============================================================================
