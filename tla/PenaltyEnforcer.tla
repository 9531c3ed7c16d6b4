--------------------------- MODULE PenaltyEnforcer ---------------------------
(***************************************************************************)
(* The penalty enforcer and the threads around it: workers (the track      *)
(* limits and weather tasks) push race control events while one thread calls *)
(* process_events(), which drains the queue into a batch, counts warnings,   *)
(* moves a driver to PENDING at the third and pushes the announcement onto   *)
(* the same queue; any other thread may report pit entries and exits.        *)
(*                                                                         *)
(* The queue is MpscChannel, which MpscQueue implements.  `sure` holds the   *)
(* places whose links happen before the enforcer's next load: those it made  *)
(* itself and those of threads it has synchronised with (a join, a future    *)
(* found ready).  The load of any other link may still read nullptr.         *)
(***************************************************************************)
EXTENDS Naturals, Sequences, FiniteSets, SequencesExt

CONSTANTS
  Workers,    \* the threads that push race control events
  Drivers,    \* the entries of DRIVERS
  NoDriver,   \* the driver_id of an event about nobody
  MaxEvents   \* bound: how many events the workers push

ASSUME EnforcerAssumption == NoDriver \notin Drivers /\ MaxEvents \in Nat

VARIABLES
  sent, unlinked, got,                \* the event queue (MpscChannel)
  pushing,                            \* the place each worker has not linked yet, or 0
  sure,                               \* see above
  pc,                                 \* where process_events() is
  batch,                              \* its local: events drained and not processed
  warnings_, states_, extra_pit_time_,
  due,                                \* what was sure to be queued at the call (history)
  issued                              \* the places of this call's announcements (history)

queue == <<sent, unlinked, got, pushing, sure>>
board == <<warnings_, states_, extra_pit_time_>>
history == <<due, issued>>
vars == <<queue, pc, batch, board, history>>

TrackLimits(d) == [type |-> "TRACK_LIMITS", driver |-> d]
PenaltyIssued(d) == [type |-> "PENALTY_ISSUED", driver |-> d]
WeatherChange == [type |-> "WEATHER_CHANGE", driver |-> NoDriver]

WorkerEvent == {TrackLimits(d) : d \in Drivers} \union {WeatherChange}
Event == WorkerEvent \union {PenaltyIssued(d) : d \in Drivers}

Queue == INSTANCE MpscChannel WITH Items <- Event

PenaltyStates == {"NONE", "PENDING", "SERVING", "SERVED"}
Warnings == 3

ExtraPitTicks == 3

Init ==
    /\ Queue!Init
    /\ pushing = [w \in Workers |-> 0]
    /\ sure = {}
    /\ pc = "idle"
    /\ batch = <<>>
    /\ warnings_ = [d \in Drivers |-> 0]
    /\ states_ = [d \in Drivers |-> "NONE"]
    /\ extra_pit_time_ = [d \in Drivers |-> 0]
    /\ due = {} /\ issued = {}

-----------------------------------------------------------------------------
\* The workers: events_.push(), in the queue's two steps.

FromWorkers == SelectSeq(sent, LAMBDA e : e \in WorkerEvent)

WorkerEnter(w, e) ==
    /\ pushing[w] = 0 /\ Len(FromWorkers) < MaxEvents
    /\ Queue!Enter(e)
    /\ pushing' = [pushing EXCEPT ![w] = Len(sent')]
    /\ UNCHANGED <<sure, pc, batch, board, history>>

WorkerLink(w) ==
    /\ pushing[w] # 0
    /\ Queue!Link(pushing[w])
    /\ pushing' = [pushing EXCEPT ![w] = 0]
    /\ UNCHANGED <<sure, pc, batch, board, history>>

\* The caller of process_events() synchronises with a worker that has pushed.
Synchronise ==
    /\ pc = "idle"
    /\ sure' = 1 .. Len(sent) \ unlinked
    /\ UNCHANGED <<sent, unlinked, got, pushing, pc, batch, board, history>>

-----------------------------------------------------------------------------
\* process_events()

Call ==
    /\ pc = "idle" /\ pc' = "drain"
    /\ due' = sure /\ issued' = {}
    /\ UNCHANGED <<queue, batch, board>>

\* while (events_.pop(ev)) batch.push_back(std::move(ev))
DrainPop ==
    /\ pc = "drain"
    /\ Queue!Receive
    /\ batch' = Append(batch, Last(got'))
    /\ UNCHANGED <<pushing, sure, pc, board, history>>

OneIsEnough == batch # <<>>  \* fault: one event is taken per call

\* pop() returns false.
NothingToPop == ~Queue!Reachable \/ Len(got) + 1 \notin sure

DrainEnd ==
    /\ pc = "drain" /\ NothingToPop
    /\ pc' = "process"
    /\ UNCHANGED <<queue, batch, board, history>>

AnyType(e) == e.driver \in Drivers  \* fault: the type of the event is not looked at

Counts(e) == e.type = "TRACK_LIMITS" /\ e.driver \in Drivers

\* Not TRACK_LIMITS, or a driver driver_index() does not find: continue.
Skip ==
    /\ pc = "process" /\ batch # <<>> /\ ~Counts(Head(batch))
    /\ batch' = Tail(batch)
    /\ UNCHANGED <<queue, pc, board, history>>

ReachesLate(d) == warnings_[d] = Warnings  \* fault: compared before the increment
Reaches(d) == warnings_[d] + 1 = Warnings

\* count = warnings_[idx].fetch_add(1) + 1; if (count == 3) ...
Warn ==
    /\ pc = "process" /\ batch # <<>> /\ Counts(Head(batch))
    /\ LET d == Head(batch).driver IN
         /\ warnings_' = [warnings_ EXCEPT ![d] = @ + 1]
         /\ IF Reaches(d) THEN pc' = "exchange" /\ UNCHANGED batch
                          ELSE UNCHANGED pc /\ batch' = Tail(batch)
    /\ UNCHANGED <<queue, states_, extra_pit_time_, history>>

Unmoved(d) == states_  \* fault: the penalty is announced and the state is not moved
Moved(d) == [states_ EXCEPT ![d] = "PENDING"]

\* states_[idx].compare_exchange_strong(NONE, PENDING)
MakePending ==
    /\ pc = "exchange"
    /\ IF states_[Head(batch).driver] = "NONE"
         THEN states_' = Moved(Head(batch).driver) /\ pc' = "issue" /\ UNCHANGED batch
         ELSE UNCHANGED states_ /\ pc' = "process" /\ batch' = Tail(batch)
    /\ UNCHANGED <<queue, warnings_, extra_pit_time_, history>>

\* events_.push(PENALTY_ISSUED): its place in the queue
Issue ==
    /\ pc = "issue" /\ pc' = "link"
    /\ Queue!Enter(PenaltyIssued(Head(batch).driver))
    /\ issued' = issued \union {Len(sent')}
    /\ UNCHANGED <<pushing, sure, batch, board, due>>

\* Its link; extra_pit_time_[idx].store(...)
IssueLink ==
    /\ pc = "link" /\ pc' = "process"
    /\ \E i \in issued \intersect unlinked : Queue!Link(i) /\ sure' = sure \union {i}
    /\ extra_pit_time_' = [extra_pit_time_ EXCEPT ![Head(batch).driver] = ExtraPitTicks]
    /\ batch' = Tail(batch)
    /\ UNCHANGED <<pushing, warnings_, states_, history>>

\* Fault: one loop that pops and processes until the queue is empty.
PopsAgain == IF Queue!Reachable THEN "drain" ELSE "idle"
Returns == "idle"

Return ==
    /\ pc = "process" /\ batch = <<>>
    /\ pc' = Returns
    /\ UNCHANGED <<queue, batch, board, history>>

-----------------------------------------------------------------------------
\* The two transitions of a pit stop, by any thread.

Transition(d, from, to) ==
    /\ states_' = [states_ EXCEPT ![d] = IF @ = from THEN to ELSE @]
    /\ UNCHANGED <<queue, pc, batch, warnings_, extra_pit_time_, history>>

driver_entered_pits(d) == Transition(d, "PENDING", "SERVING")

driver_exited_pits(d) == Transition(d, "SERVING", "SERVED")

-----------------------------------------------------------------------------
process_events == Call \/ DrainPop \/ DrainEnd \/ Skip \/ Warn \/ MakePending
                     \/ Issue \/ IssueLink \/ Return

Next ==
    \/ \E w \in Workers : WorkerLink(w) \/ \E e \in WorkerEvent : WorkerEnter(w, e)
    \/ Synchronise
    \/ process_events
    \/ \E d \in Drivers : driver_entered_pits(d) \/ driver_exited_pits(d)

Spec == Init /\ [][Next]_vars

(* process_events() is called every tick and always returns; a worker's push  *)
(* is finished; a link that has been made becomes visible to a pop() that is   *)
(* retried.  Nobody has to push an event or to go to the pits.                 *)
Fairness ==
    /\ WF_vars(process_events) /\ SF_vars(DrainPop)
    /\ \A w \in Workers : WF_vars(WorkerLink(w))

FairSpec == Spec /\ Fairness

-----------------------------------------------------------------------------
\* Every variable has the type of the member or local it stands for.
TypeOK ==
    /\ sent \in Seq(Event) /\ got \in Seq(Event) /\ unlinked \subseteq 1 .. Len(sent)
    /\ pushing \in [Workers -> 0 .. Len(sent)]
    /\ sure \subseteq 1 .. Len(sent)
    /\ pc \in {"idle", "drain", "process", "exchange", "issue", "link"}
    /\ batch \in Seq(Event)
    /\ warnings_ \in [Drivers -> Nat]
    /\ states_ \in [Drivers -> PenaltyStates]
    /\ extra_pit_time_ \in [Drivers -> {0, ExtraPitTicks}]
    /\ due \subseteq 1 .. Len(sent) /\ issued \subseteq 1 .. Len(sent)

Count(events, e) == Cardinality({i \in 1 .. Len(events) : events[i] = e})

(* Between two calls a driver's warnings are the TRACK_LIMITS events popped   *)
(* for that driver: no event is lost between the queue, the batch and the     *)
(* counters, and no other event is counted.                                   *)
WarningsCounted ==
    pc = "idle" => \A d \in Drivers : warnings_[d] = Count(got, TrackLimits(d))

(* Between two calls a driver has been penalised, and the penalty announced,  *)
(* exactly once if there were three warnings or more and never otherwise,     *)
(* whenever the pits were visited.                                            *)
OnePenaltyForThreeWarnings ==
    pc = "idle" => \A d \in Drivers :
       /\ Count(sent, PenaltyIssued(d)) = IF warnings_[d] >= Warnings THEN 1 ELSE 0
       /\ states_[d] # "NONE" <=> warnings_[d] >= Warnings

(* A call never pops an announcement it has pushed itself: whatever is pushed *)
(* while the batch is processed is left in the queue for the next consumer.   *)
AnnouncementsLeft == \A i \in issued : i > Len(got)

(* A call processes every event that was sure to be in the queue when it      *)
(* began, as far as nothing that was not stands before it: the drain stops at *)
(* an unfinished push and at nothing else.                                    *)
SurePrefixProcessed ==
    pc = "idle" => \A i \in due : ((1 .. i) \ due) \subseteq (1 .. Len(got)) => i <= Len(got)

(* Three violations lead to a penalty: a driver whose third TRACK_LIMITS      *)
(* event has taken its place in the queue is penalised in the end.            *)
PenaltyFollows ==
    \A d \in Drivers : Count(sent, TrackLimits(d)) >= Warnings ~> states_[d] # "NONE"

=============================================================================
