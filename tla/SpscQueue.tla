------------------------------ MODULE SpscQueue ------------------------------
(***************************************************************************)
(* SpscQueue<T, Capacity>: the lock-free ring buffer between the telemetry  *)
(* generator (producer) and the lap-time consumer, at the grain of its      *)
(* atomic accesses and under the release/acquire memory model.              *)
(*                                                                         *)
(* tail_ and head_ each have one writer, so the modification order of       *)
(* either is the sequence of its stores; the other thread's load may read   *)
(* any store not older than the last one it read.  A slot remembers the     *)
(* number of its last write and of its last read: a data race is an access  *)
(* to a slot whose last conflicting access is not known to the thread.      *)
(***************************************************************************)
EXTENDS Naturals, Sequences, MemoryOrder

CONSTANTS
  Capacity,   \* the template parameter
  Items,      \* the values of T that are pushed
  NoItem,     \* T{}, what a slot holds before its first write
  MaxItems    \* bound: how many pushes succeed in a behaviour

\* The two static_asserts.  Capacity = 2^k makes `& MASK` the same as `% Capacity`.
ASSUME SpscAssumption ==
    /\ Capacity \in Nat \ {0, 1}
    /\ \E k \in 1 .. Capacity : Capacity = 2 ^ k
    /\ NoItem \notin Items
    /\ MaxItems \in Nat

VARIABLES
  tail_, head_,             \* stores to the atomics, oldest first: [index, carries]
  head_cache_, tail_cache_, \* the producer's copy of head_, the consumer's of tail_
  buffer_,                  \* slot -> [item, wrote, read]
  pc,                       \* where each thread is inside push() or pop()
  pos,                      \* which store of the other's atomic each thread read last
  accesses,                 \* how many slot accesses each thread has made
  knows,                    \* how many of the other's accesses happen before its next step
  item, out,                \* push()'s argument, pop()'s out parameter
  accepted, received        \* items push() accepted, items pop() returned (history)

vars == <<tail_, head_, head_cache_, tail_cache_, buffer_, pc, pos, accesses,
          knows, item, out, accepted, received>>

Thread == {"producer", "consumer"}
Slot == 0 .. (Capacity - 1)

WrapUnmasked(i) == i + 1  \* fault: the mask forgotten
Wrap(i) == (i + 1) % Capacity

\* The memory orders of the four cross-thread accesses.
RelaxedStore == "relaxed"  \* fault: a store that publishes nothing
TailStore == "release"
TailLoad  == "acquire"
HeadStore == "release"
HeadLoad  == "acquire"

\* A thread's own relaxed load of the atomic it alone writes.
Own(stores) == stores[Len(stores)].index

GoTo(t, label) == pc' = [pc EXCEPT ![t] = label]

Access(t) == accesses' = [accesses EXCEPT ![t] = @ + 1]

\* Thread t's load reads the i-th store of the other thread's atomic.
Load(t, order, stores, i) ==
    /\ i \in pos[t] .. Len(stores)
    /\ pos' = [pos EXCEPT ![t] = i]
    /\ knows' = [knows EXCEPT ![t] = Learned(order, @, stores[i].carries)]

Init ==
    /\ tail_ = <<[index |-> 0, carries |-> 0]>>
    /\ head_ = <<[index |-> 0, carries |-> 0]>>
    /\ head_cache_ = 0 /\ tail_cache_ = 0
    /\ buffer_ = [s \in Slot |-> [item |-> NoItem, wrote |-> 0, read |-> 0]]
    /\ pc = [t \in Thread |-> "idle"]
    /\ pos = [t \in Thread |-> 1]
    /\ accesses = [t \in Thread |-> 0]
    /\ knows = [t \in Thread |-> 0]
    /\ item = NoItem /\ out = NoItem
    /\ accepted = <<>> /\ received = <<>>

-----------------------------------------------------------------------------
\* push(): the caller drops the item or calls again when it returns false.

\* Compute next and compare it with the cached head.
PushBegin(v) ==
    /\ pc["producer"] = "idle"
    /\ Len(accepted) < MaxItems
    /\ item' = v
    /\ GoTo("producer", IF Wrap(Own(tail_)) = head_cache_ THEN "refresh" ELSE "access")
    /\ UNCHANGED <<tail_, head_, head_cache_, tail_cache_, buffer_, pos, accesses,
                   knows, out, accepted, received>>

\* Fault: the full test repeats the one before the load.
PushRefreshTestsOldCache(i) ==
    /\ pc["producer"] = "refresh"
    /\ Load("producer", HeadLoad, head_, i)
    /\ head_cache_' = head_[i].index
    /\ GoTo("producer", IF Wrap(Own(tail_)) = head_cache_ THEN "idle" ELSE "access")
    /\ UNCHANGED <<tail_, head_, tail_cache_, buffer_, accesses, item, out,
                   accepted, received>>

\* Fault: no second full test after the load.
PushRefreshThenWrites(i) ==
    /\ pc["producer"] = "refresh"
    /\ Load("producer", HeadLoad, head_, i)
    /\ head_cache_' = head_[i].index
    /\ GoTo("producer", "access")
    /\ UNCHANGED <<tail_, head_, tail_cache_, buffer_, accesses, item, out,
                   accepted, received>>

\* Refresh head_cache_ from head_; return false if the queue still looks full.
PushRefresh(i) ==
    /\ pc["producer"] = "refresh"
    /\ Load("producer", HeadLoad, head_, i)
    /\ head_cache_' = head_[i].index
    /\ GoTo("producer", IF Wrap(Own(tail_)) = head_cache_' THEN "idle" ELSE "access")
    /\ UNCHANGED <<tail_, head_, tail_cache_, buffer_, accesses, item, out,
                   accepted, received>>

\* buffer_[tail] = item
PushWrite ==
    /\ pc["producer"] = "access"
    /\ Access("producer")
    /\ buffer_' = [buffer_ EXCEPT ![Own(tail_)].item = item,
                                  ![Own(tail_)].wrote = accesses["producer"] + 1]
    /\ GoTo("producer", "publish")
    /\ UNCHANGED <<tail_, head_, head_cache_, tail_cache_, pos, knows, item, out,
                   accepted, received>>

\* tail_.store(next); return true
PushPublish ==
    /\ pc["producer"] = "publish"
    /\ tail_' = Append(tail_, [index |-> Wrap(Own(tail_)),
                               carries |-> Carried(TailStore, accesses["producer"])])
    /\ accepted' = Append(accepted, item)
    /\ GoTo("producer", "idle")
    /\ UNCHANGED <<head_, head_cache_, tail_cache_, buffer_, pos, accesses, knows,
                   item, out, received>>

-----------------------------------------------------------------------------
\* pop()

PopBegin ==
    /\ pc["consumer"] = "idle"
    /\ GoTo("consumer", IF Own(head_) = tail_cache_ THEN "refresh" ELSE "access")
    /\ UNCHANGED <<tail_, head_, head_cache_, tail_cache_, buffer_, pos, accesses,
                   knows, item, out, accepted, received>>

\* Fault: the loaded tail is not kept in the cache.
PopRefreshKeepsOldCache(i) ==
    /\ pc["consumer"] = "refresh"
    /\ Load("consumer", TailLoad, tail_, i)
    /\ GoTo("consumer", IF Own(head_) = tail_cache_ THEN "idle" ELSE "access")
    /\ UNCHANGED <<tail_, head_, head_cache_, tail_cache_, buffer_, accesses, item,
                   out, accepted, received>>

\* Refresh tail_cache_ from tail_; return false if the queue still looks empty.
PopRefresh(i) ==
    /\ pc["consumer"] = "refresh"
    /\ Load("consumer", TailLoad, tail_, i)
    /\ tail_cache_' = tail_[i].index
    /\ GoTo("consumer", IF Own(head_) = tail_cache_' THEN "idle" ELSE "access")
    /\ UNCHANGED <<tail_, head_, head_cache_, buffer_, accesses, item, out,
                   accepted, received>>

\* out = buffer_[head]
PopRead ==
    /\ pc["consumer"] = "access"
    /\ Access("consumer")
    /\ out' = buffer_[Own(head_)].item
    /\ buffer_' = [buffer_ EXCEPT ![Own(head_)].read = accesses["consumer"] + 1]
    /\ GoTo("consumer", "publish")
    /\ UNCHANGED <<tail_, head_, head_cache_, tail_cache_, pos, knows, item,
                   accepted, received>>

\* Fault: the index moves without the mask's wrap-around being a step of one.
PopPublishSkips ==
    /\ pc["consumer"] = "publish"
    /\ head_' = Append(head_, [index |-> Wrap(Wrap(Own(head_))),
                               carries |-> Carried(HeadStore, accesses["consumer"])])
    /\ received' = Append(received, out)
    /\ GoTo("consumer", "idle")
    /\ UNCHANGED <<tail_, head_cache_, tail_cache_, buffer_, pos, accesses, knows,
                   item, out, accepted>>

\* head_.store(head + 1); return true
PopPublish ==
    /\ pc["consumer"] = "publish"
    /\ head_' = Append(head_, [index |-> Wrap(Own(head_)),
                               carries |-> Carried(HeadStore, accesses["consumer"])])
    /\ received' = Append(received, out)
    /\ GoTo("consumer", "idle")
    /\ UNCHANGED <<tail_, head_cache_, tail_cache_, buffer_, pos, accesses, knows,
                   item, out, accepted>>

-----------------------------------------------------------------------------
Producer ==
    \/ \E v \in Items : PushBegin(v)
    \/ \E i \in 1 .. Len(head_) : PushRefresh(i)
    \/ PushWrite
    \/ PushPublish

Consumer ==
    \/ PopBegin
    \/ \E i \in 1 .. Len(tail_) : PopRefresh(i)
    \/ PopRead
    \/ PopPublish

Next == Producer \/ Consumer

Spec == Init /\ [][Next]_vars

(* Both threads keep running and keep calling push() and pop() (the stress    *)
(* test and the benchmarks spin; the generator ticks and the consumer polls). *)
(* A store becomes visible to the other thread after finitely many loads.     *)
Fairness ==
    /\ WF_vars(Producer) /\ WF_vars(Consumer)
    /\ SF_vars(PushRefresh(Len(head_)))
    /\ SF_vars(PopRefresh(Len(tail_)))

FairSpec == Spec /\ Fairness

-----------------------------------------------------------------------------
\* Every variable has the type of the member or local it stands for.
TypeOK ==
    /\ tail_ \in Seq([index : Slot, carries : Nat]) /\ tail_ # <<>>
    /\ head_ \in Seq([index : Slot, carries : Nat]) /\ head_ # <<>>
    /\ head_cache_ \in Slot /\ tail_cache_ \in Slot
    /\ buffer_ \in [Slot -> [item : Items \union {NoItem}, wrote : Nat, read : Nat]]
    /\ pc \in [Thread -> {"idle", "refresh", "access", "publish"}]
    /\ pos \in [Thread -> Nat \ {0}]
    /\ accesses \in [Thread -> Nat]
    /\ knows \in [Thread -> Nat]
    /\ item \in Items \union {NoItem} /\ out \in Items \union {NoItem}
    /\ accepted \in Seq(Items) /\ received \in Seq(Items \union {NoItem})

(* No data race on buffer_: when the producer is about to overwrite a slot,   *)
(* the consumer's last read of it happens before; when the consumer is about  *)
(* to read a slot, the producer's last write of it happens before.  This is   *)
(* what the acquire/release annotations of push() and pop() are for.          *)
NoDataRace ==
    /\ pc["producer"] = "access" => buffer_[Own(tail_)].read <= knows["producer"]
    /\ pc["consumer"] = "access" => buffer_[Own(head_)].wrote <= knows["consumer"]

(* FIFO, nothing lost, duplicated or invented: what pop() has returned is a   *)
(* prefix of what push() accepted, whatever was stale in either cache.        *)
FifoOrder ==
    /\ Len(received) <= Len(accepted)
    /\ \A k \in 1 .. Len(received) : received[k] = accepted[k]

(* push() returns false only if the head_ it loaded says that Capacity - 1    *)
(* items are queued ("truly full"), pop() only if the tail_ it loaded says    *)
(* that none is ("truly empty"): no slot but the sentinel is ever wasted.     *)
RefusalIsJustified ==
    [][/\ (pc["producer"] = "refresh" /\ pc'["producer"] = "idle")
             => Len(accepted) - (pos'["producer"] - 1) = Capacity - 1
       /\ (pc["consumer"] = "refresh" /\ pc'["consumer"] = "idle")
             => Len(received) = pos'["consumer"] - 1]_vars

(* The ring buffer implements the channel of Capacity - 1 items; push() takes *)
(* effect at the store of tail_, pop() at the store of head_.                 *)
Channel == INSTANCE SpscChannel
             WITH Bound <- Capacity - 1, sent <- accepted, got <- received,
                  got_seen <- pos["producer"] - 1, sent_seen <- pos["consumer"] - 1
ImplementsChannel == Channel!Spec

(* Producer retrying and consumer polling, every item gets through: a stale   *)
(* cache never makes one side wait for the other for ever.                    *)
EverythingDelivered == <>(Len(received) = MaxItems)

=============================================================================
