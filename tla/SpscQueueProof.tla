--------------------------- MODULE SpscQueueProof ---------------------------
(***************************************************************************)
(* Proofs about SpscQueue for every capacity, item set and number of        *)
(* pushes.  The inductive invariant relates every index, cache, history     *)
(* and slot to four counters: items sent, items got, and how much of each   *)
(* the other thread has seen.                                               *)
(***************************************************************************)
EXTENDS SpscQueue, Integers, SequenceTheorems, TLAPS

Sent == Len(accepted)
Got == Len(received)
SentSeen == pos["consumer"] - 1
GotSeen == pos["producer"] - 1

Publishing(t) == IF pc[t] = "publish" THEN 1 ELSE 0

\* The n-th store of an index says that n - 1 items went through, and carries
\* the n - 1 slot accesses they took.
StoresInv ==
    /\ Len(tail_) = Sent + 1
    /\ Len(head_) = Got + 1
    /\ \A n \in 1 .. Len(tail_) : tail_[n].index = (n - 1) % Capacity /\ tail_[n].carries = n - 1
    /\ \A n \in 1 .. Len(head_) : head_[n].index = (n - 1) % Capacity /\ head_[n].carries = n - 1

\* What a thread has seen of the other's index is what its cache holds.
CacheInv ==
    /\ head_cache_ = GotSeen % Capacity
    /\ tail_cache_ = SentSeen % Capacity

\* The slot accesses a thread knows of are those of the items it has seen go
\* through, and the window of queued and unseen items fits the ring.
WindowInv ==
    /\ knows["producer"] = GotSeen /\ knows["consumer"] = SentSeen
    /\ GotSeen <= Got /\ Got <= SentSeen /\ SentSeen <= Sent
    /\ Sent - GotSeen <= Capacity - 1
    /\ accesses["producer"] = Sent + Publishing("producer")
    /\ accesses["consumer"] = Got + Publishing("consumer")

\* What each thread has established when it is past its first test.
StageInv ==
    /\ pc["producer"] = "refresh" => Sent - GotSeen = Capacity - 1
    /\ pc["producer"] \in {"access", "publish"} => Sent - GotSeen < Capacity - 1
    /\ pc["producer"] # "idle" => item \in Items
    /\ pc["consumer"] = "refresh" => Got = SentSeen
    /\ pc["consumer"] \in {"access", "publish"} => Got < SentSeen
    /\ pc["consumer"] = "publish" => out = accepted[Got + 1]

\* The slots of the queued items hold them, and a slot's last read was of an
\* item that belongs there.
BufferInv ==
    /\ \A k \in (Got + 1) .. Sent :
          /\ buffer_[(k - 1) % Capacity].item = accepted[k]
          /\ buffer_[(k - 1) % Capacity].wrote = k
    /\ pc["producer"] = "publish" => /\ buffer_[Sent % Capacity].item = item
                                     /\ buffer_[Sent % Capacity].wrote = Sent + 1
    /\ \A s \in Slot : buffer_[s].read > 0 =>
          /\ buffer_[s].read <= accesses["consumer"]
          /\ (buffer_[s].read - 1) % Capacity = s

IndInv == TypeOK /\ StoresInv /\ CacheInv /\ WindowInv /\ StageInv /\ BufferInv /\ FifoOrder

-----------------------------------------------------------------------------
\* Arithmetic of ring-buffer indices: positions counted without end and their
\* remainders modulo the capacity.

\* Division with remainder.
LEMMA DivMod ==
    ASSUME NEW a \in Nat, NEW C \in Nat \ {0}
    PROVE  /\ a \div C \in Int
           /\ (a % C) \in 0 .. (C - 1)
           /\ a = C * (a \div C) + (a % C)
BY SMT

\* A multiple of C below C is not positive.
LEMMA MultipleBelow ==
    ASSUME NEW C \in Nat \ {0}, NEW d \in Int, C * d < C
    PROVE  d <= 0
BY SMT

\* A positive multiple of C has a positive factor.
LEMMA MultiplePositive ==
    ASSUME NEW C \in Nat \ {0}, NEW d \in Int, C * d > 0
    PROVE  d >= 1
BY SMT

\* Multiplication distributes over subtraction.
LEMMA Distribute ==
    ASSUME NEW C \in Int, NEW p \in Int, NEW q \in Int
    PROVE  C * (p - q) = C * p - C * q
BY SMT

\* Two positions less than C apart have different remainders.
LEMMA ModDiffers ==
    ASSUME NEW a \in Nat, NEW b \in Nat, NEW C \in Nat \ {0}, b < a, a - b < C
    PROVE  a % C # b % C
<1> DEFINE p == a \div C
           q == b \div C
<1> SUFFICES ASSUME a % C = b % C PROVE FALSE
    OBVIOUS
<1>1. /\ p \in Int /\ q \in Int
      /\ a = C * p + (a % C) /\ b = C * q + (b % C)
      /\ (a % C) \in 0 .. (C - 1)
  BY DivMod
<1> HIDE DEF p, q
<1>2. C * (p - q) = a - b
  <2>1. C * (p - q) = C * p - C * q
    BY <1>1, Distribute
  <2>. QED BY <1>1, <2>1
<1>3. p - q <= 0
  BY <1>1, <1>2, MultipleBelow
<1>4. p - q >= 1
  BY <1>1, <1>2, MultiplePositive
<1>. QED BY <1>1, <1>3, <1>4

\* The remainder in a division is unique.
LEMMA RemainderUnique ==
    ASSUME NEW C \in Nat \ {0}, NEW p \in Int, NEW q \in Int,
           NEW r \in 0 .. (C - 1), NEW s \in 0 .. (C - 1),
           C * p + r = C * q + s
    PROVE  r = s
<1>1. C * (p - q) = s - r
  <2>1. C * (p - q) = C * p - C * q
    BY Distribute
  <2>. QED BY <2>1
<1>2. C * (q - p) = r - s
  <2>1. C * (q - p) = C * q - C * p
    BY Distribute
  <2>. QED BY <2>1
<1>3. p - q <= 0
  BY <1>1, MultipleBelow
<1>4. q - p <= 0
  BY <1>2, MultipleBelow
<1>5. p = q
  BY <1>3, <1>4
<1>. QED BY <1>5

\* The index of the next position is the successor of the index, wrapped.
LEMMA ModSuccessor ==
    ASSUME NEW a \in Nat, NEW C \in Nat \ {0}
    PROVE  ((a % C) + 1) % C = (a + 1) % C
<1> DEFINE p == a \div C
           q == (a + 1) \div C
           m == a % C
           n == (a + 1) % C
<1>1. p \in Int /\ a = C * p + m /\ m \in 0 .. (C - 1)
  BY DivMod
<1>2. q \in Int /\ a + 1 = C * q + n /\ n \in 0 .. (C - 1)
  <2>1. a + 1 \in Nat
    OBVIOUS
  <2>. QED BY <2>1, DivMod
<1> HIDE DEF p, q, m, n
<1>3. CASE m + 1 < C
  <2>1. (m + 1) % C = m + 1
    BY <1>1, <1>3
  <2>2. C * p + (m + 1) = C * q + n
    BY <1>1, <1>2
  <2>3. m + 1 = n
    BY <2>2, <1>1, <1>2, <1>3, RemainderUnique
  <2>. QED BY <2>1, <2>3 DEF m, n
<1>4. CASE m + 1 = C
  <2>1. (m + 1) % C = 0
    BY <1>4
  <2>2. C * (p + 1) = C * p + C
    BY <1>1
  <2>3. C * (p + 1) + 0 = C * q + n
    BY <1>1, <1>2, <1>4, <2>2
  <2>4. 0 = n
    BY <2>3, <1>1, <1>2, <1>4, RemainderUnique
  <2>. QED BY <2>1, <2>4 DEF m, n
<1>. QED BY <1>1, <1>3, <1>4

\* Positions C apart share a slot.
LEMMA ModPeriod ==
    ASSUME NEW a \in Nat, NEW C \in Nat \ {0}
    PROVE  (a + C) % C = a % C
<1> DEFINE p == a \div C
           q == (a + C) \div C
           m == a % C
           n == (a + C) % C
<1>1. p \in Int /\ a = C * p + m /\ m \in 0 .. (C - 1)
  BY DivMod
<1>2. q \in Int /\ a + C = C * q + n /\ n \in 0 .. (C - 1)
  <2>1. a + C \in Nat
    OBVIOUS
  <2>. QED BY <2>1, DivMod
<1> HIDE DEF p, q, m, n
<1>3. C * (p + 1) = C * p + C
  BY <1>1
<1>4. C * (p + 1) + m = C * q + n
  BY <1>1, <1>2, <1>3
<1>5. m = n
  BY <1>4, <1>1, <1>2, RemainderUnique
<1>. QED BY <1>5 DEF m, n

-----------------------------------------------------------------------------
\* The capacity as the arithmetic lemmas want it.
LEMMA CapacityFact == Capacity \in Nat \ {0} /\ Capacity >= 2
BY SpscAssumption

\* Indices of positions are slots, and Wrap steps from one to the next.
LEMMA IndexFact ==
    ASSUME NEW a \in Nat
    PROVE  /\ a % Capacity \in Slot
           /\ Wrap(a % Capacity) = (a + 1) % Capacity
           /\ Wrap(a % Capacity) \in Slot
<1>1. /\ a % Capacity \in 0 .. (Capacity - 1)
      /\ ((a % Capacity) + 1) % Capacity = (a + 1) % Capacity
  BY CapacityFact, DivMod, ModSuccessor
<1>2. (a + 1) % Capacity \in 0 .. (Capacity - 1)
  <2>1. a + 1 \in Nat
    OBVIOUS
  <2>. QED BY <2>1, CapacityFact, DivMod
<1>. QED BY <1>1, <1>2 DEF Slot, Wrap

\* The full test is exact: next = head iff Capacity - 1 items lie between them.
LEMMA FullTest ==
    ASSUME NEW a \in Nat, NEW b \in Nat, b <= a, a - b <= Capacity - 1
    PROVE  (Wrap(a % Capacity) = b % Capacity) <=> (a - b = Capacity - 1)
<1>1. Wrap(a % Capacity) = (a + 1) % Capacity
  BY IndexFact
<1>2. CASE a - b = Capacity - 1
  <2>1. a + 1 = b + Capacity
    BY <1>2, CapacityFact
  <2>2. (b + Capacity) % Capacity = b % Capacity
    BY CapacityFact, ModPeriod
  <2>. QED BY <1>1, <1>2, <2>1, <2>2
<1>3. CASE a - b < Capacity - 1
  <2>1. (a + 1) \in Nat /\ b < a + 1 /\ (a + 1) - b < Capacity
    BY <1>3, CapacityFact
  <2>2. (a + 1) % Capacity # b % Capacity
    BY <2>1, CapacityFact, ModDiffers
  <2>. QED BY <1>1, <1>3, <2>2
<1>. QED BY <1>2, <1>3, CapacityFact

\* The empty test is exact: head = tail iff no item lies between them.
LEMMA EmptyTest ==
    ASSUME NEW a \in Nat, NEW b \in Nat, b <= a, a - b <= Capacity - 1
    PROVE  (b % Capacity = a % Capacity) <=> (b = a)
<1>1. CASE b < a
  <2>1. a - b < Capacity
    BY CapacityFact
  <2>2. a % Capacity # b % Capacity
    BY <1>1, <2>1, CapacityFact, ModDiffers
  <2>. QED BY <1>1, <2>2
<1>2. CASE b = a
  BY <1>2
<1>. QED BY <1>1, <1>2

\* The range of the counters.
LEMMA CounterFact ==
    ASSUME IndInv
    PROVE  Sent \in Nat /\ Got \in Nat /\ SentSeen \in Nat /\ GotSeen \in Nat
<1>1. /\ accepted \in Seq(Items) /\ received \in Seq(Items \union {NoItem})
      /\ pos \in [Thread -> Nat \ {0}]
  BY DEF IndInv, TypeOK
<1>2. pos["producer"] \in Nat \ {0} /\ pos["consumer"] \in Nat \ {0}
  BY <1>1 DEF Thread
<1>. QED BY <1>1, <1>2 DEF Sent, Got, SentSeen, GotSeen

\* What a thread reads of its own index.
LEMMA OwnFact ==
    ASSUME IndInv
    PROVE  Own(tail_) = Sent % Capacity /\ Own(head_) = Got % Capacity
<1>1. tail_[Sent + 1].index = Sent % Capacity
  <2>1. Sent + 1 \in 1 .. Len(tail_) /\ (Sent + 1) - 1 = Sent
    BY CounterFact DEF IndInv, StoresInv
  <2>. QED BY <2>1 DEF IndInv, StoresInv
<1>2. head_[Got + 1].index = Got % Capacity
  <2>1. Got + 1 \in 1 .. Len(head_) /\ (Got + 1) - 1 = Got
    BY CounterFact DEF IndInv, StoresInv
  <2>. QED BY <2>1 DEF IndInv, StoresInv
<1>. QED BY <1>1, <1>2 DEF Own, IndInv, StoresInv

\* An acquire load of a message that says more than is known teaches it.
LEMMA OrderFact ==
    ASSUME NEW a \in Nat, NEW b \in Nat, a <= b
    PROVE  Learned(HeadLoad, a, b) = b /\ Learned(TailLoad, a, b) = b
<1>1. HeadLoad \in AcquireOrders /\ TailLoad \in AcquireOrders
  BY DEF HeadLoad, TailLoad, AcquireOrders
<1>2. (IF b > a THEN b ELSE a) = b
  OBVIOUS
<1>. QED BY <1>1, <1>2 DEF Learned

-----------------------------------------------------------------------------
\* The invariant holds initially.
LEMMA InitInv == Init => IndInv
<1> SUFFICES ASSUME Init PROVE IndInv
    OBVIOUS
<1>1. 0 \in Slot /\ 0 % Capacity = 0
  BY CapacityFact DEF Slot
<1>2. TypeOK
  BY <1>1 DEF Init, TypeOK, Thread
<1>3. Sent = 0 /\ Got = 0 /\ SentSeen = 0 /\ GotSeen = 0
  BY DEF Init, Sent, Got, SentSeen, GotSeen, Thread
<1>4. StoresInv
  BY <1>1, <1>3 DEF Init, StoresInv
<1>5. CacheInv /\ WindowInv
  BY <1>1, <1>3, CapacityFact DEF Init, CacheInv, WindowInv, Publishing, Thread
<1>6. StageInv
  BY <1>3 DEF Init, StageInv, Thread
<1>7. BufferInv
  BY <1>3 DEF Init, BufferInv, Thread, Slot
<1>8. FifoOrder
  BY DEF Init, FifoOrder
<1>. QED BY <1>2, <1>4, <1>5, <1>6, <1>7, <1>8 DEF IndInv

\* Starting a push: only pc and item change.
LEMMA PushBeginInv == ASSUME IndInv, NEW v \in Items, PushBegin(v) PROVE IndInv'
<1>1. /\ pc \in [Thread -> {"idle", "refresh", "access", "publish"}]
      /\ pc["producer"] = "idle" /\ item' = v
      /\ UNCHANGED <<tail_, head_, head_cache_, tail_cache_, buffer_, pos, accesses,
                     knows, out, accepted, received>>
  BY DEF PushBegin, IndInv, TypeOK
<1>2. /\ pc' \in [Thread -> {"idle", "refresh", "access", "publish"}]
      /\ pc'["producer"] = IF Wrap(Own(tail_)) = head_cache_ THEN "refresh" ELSE "access"
      /\ pc'["consumer"] = pc["consumer"]
  BY <1>1 DEF PushBegin, GoTo, Thread
<1>3. (Wrap(Own(tail_)) = head_cache_) <=> (Sent - GotSeen = Capacity - 1)
  <2>1. /\ GotSeen <= Sent /\ Sent - GotSeen <= Capacity - 1
        /\ head_cache_ = GotSeen % Capacity
    BY CounterFact DEF IndInv, CacheInv, WindowInv
  <2>. QED BY <2>1, CounterFact, OwnFact, FullTest
<1>4. /\ Sent' = Sent /\ Got' = Got /\ SentSeen' = SentSeen /\ GotSeen' = GotSeen
      /\ Publishing("producer")' = Publishing("producer")
      /\ Publishing("consumer")' = Publishing("consumer")
  BY <1>1, <1>2 DEF Sent, Got, SentSeen, GotSeen, Publishing
<1>5. TypeOK'
  BY <1>1, <1>2 DEF IndInv, TypeOK
<1>6. StoresInv'
  BY <1>1, <1>4 DEF IndInv, StoresInv
<1>7. CacheInv' /\ WindowInv'
  BY <1>1, <1>4 DEF IndInv, CacheInv, WindowInv
<1>8. StageInv'
  <2>1. Sent - GotSeen <= Capacity - 1
    BY DEF IndInv, WindowInv
  <2>. QED BY <1>1, <1>2, <1>3, <1>4, <2>1, CounterFact, CapacityFact DEF IndInv, StageInv
<1>9. BufferInv'
  BY <1>1, <1>2, <1>4 DEF IndInv, BufferInv
<1>10. FifoOrder'
  BY <1>1 DEF IndInv, FifoOrder
<1>. QED BY <1>5, <1>6, <1>7, <1>8, <1>9, <1>10 DEF IndInv

\* Refreshing the cached head: the producer sees more of what was got.
LEMMA PushRefreshInv ==
    ASSUME IndInv, NEW i \in 1 .. Len(head_), PushRefresh(i)
    PROVE  IndInv'
<1>1. /\ pc \in [Thread -> {"idle", "refresh", "access", "publish"}]
      /\ pos \in [Thread -> Nat \ {0}] /\ knows \in [Thread -> Nat]
      /\ pc["producer"] = "refresh" /\ head_cache_' = head_[i].index
      /\ i \in pos["producer"] .. Len(head_)
      /\ UNCHANGED <<tail_, head_, tail_cache_, buffer_, accesses, item, out,
                     accepted, received>>
  BY DEF PushRefresh, Load, IndInv, TypeOK
<1>2. /\ pc' \in [Thread -> {"idle", "refresh", "access", "publish"}]
      /\ pc'["producer"] = IF Wrap(Own(tail_)) = head_cache_' THEN "idle" ELSE "access"
      /\ pc'["consumer"] = pc["consumer"]
  BY <1>1 DEF PushRefresh, GoTo, Thread
<1>3. GotSeen <= i - 1 /\ i - 1 <= Got /\ i - 1 \in Nat
  <2>1. pos["producer"] \in Nat \ {0}
    BY <1>1 DEF Thread
  <2>2. Len(head_) = Got + 1
    BY DEF IndInv, StoresInv
  <2>. QED BY <1>1, <2>1, <2>2, CounterFact DEF GotSeen
<1>4. head_[i].index = (i - 1) % Capacity /\ head_[i].carries = i - 1
  BY DEF IndInv, StoresInv
<1>5. /\ pos' \in [Thread -> Nat \ {0}] /\ pos'["producer"] = i
      /\ pos'["consumer"] = pos["consumer"]
  BY <1>1, <1>3 DEF PushRefresh, Load, Thread
<1>6. /\ knows' \in [Thread -> Nat] /\ knows'["producer"] = i - 1
      /\ knows'["consumer"] = knows["consumer"]
  <2>1. head_[i].carries = i - 1 /\ knows["producer"] = GotSeen
    BY <1>4 DEF IndInv, WindowInv
  <2>2. Learned(HeadLoad, GotSeen, i - 1) = i - 1
    BY <1>3, CounterFact, OrderFact
  <2>. QED BY <1>1, <1>3, <2>1, <2>2 DEF PushRefresh, Load, Thread
<1>7. /\ Sent' = Sent /\ Got' = Got /\ SentSeen' = SentSeen /\ GotSeen' = i - 1
      /\ Publishing("producer")' = Publishing("producer")
      /\ Publishing("consumer")' = Publishing("consumer")
  BY <1>1, <1>2, <1>5 DEF Sent, Got, SentSeen, GotSeen, Publishing
<1>8. /\ i - 1 <= Sent /\ Sent - (i - 1) <= Capacity - 1
      /\ (Wrap(Own(tail_)) = head_cache_') <=> (Sent - (i - 1) = Capacity - 1)
  <2>1. i - 1 <= Sent /\ Sent - (i - 1) <= Capacity - 1
    BY <1>3, CounterFact, CapacityFact DEF IndInv, WindowInv
  <2>. QED BY <1>1, <1>3, <1>4, <2>1, CounterFact, OwnFact, FullTest
<1>9. TypeOK'
  <2>1. head_cache_' \in Slot
    BY <1>1, <1>3, <1>4, IndexFact
  <2>. QED BY <1>1, <1>2, <1>5, <1>6, <2>1 DEF IndInv, TypeOK
<1>10. StoresInv'
  BY <1>1, <1>7 DEF IndInv, StoresInv
<1>11. CacheInv' /\ WindowInv'
  BY <1>1, <1>3, <1>4, <1>6, <1>7, <1>8 DEF IndInv, CacheInv, WindowInv
<1>12. StageInv'
  BY <1>1, <1>2, <1>7, <1>8, CounterFact, CapacityFact DEF IndInv, StageInv
<1>13. BufferInv'
  BY <1>1, <1>2, <1>7 DEF IndInv, BufferInv
<1>14. FifoOrder'
  BY <1>1 DEF IndInv, FifoOrder
<1>. QED BY <1>9, <1>10, <1>11, <1>12, <1>13, <1>14 DEF IndInv

\* Writing the slot at the tail: no queued item lives there.
LEMMA PushWriteInv == ASSUME IndInv, PushWrite PROVE IndInv'
<1>1. /\ pc \in [Thread -> {"idle", "refresh", "access", "publish"}]
      /\ accesses \in [Thread -> Nat]
      /\ buffer_ \in [Slot -> [item : Items \union {NoItem}, wrote : Nat, read : Nat]]
      /\ pc["producer"] = "access"
      /\ UNCHANGED <<tail_, head_, head_cache_, tail_cache_, pos, knows, item, out,
                     accepted, received>>
  BY DEF PushWrite, IndInv, TypeOK
<1>2. /\ pc' \in [Thread -> {"idle", "refresh", "access", "publish"}]
      /\ pc'["producer"] = "publish" /\ pc'["consumer"] = pc["consumer"]
  BY <1>1 DEF PushWrite, GoTo, Thread
<1>3. /\ Sent' = Sent /\ Got' = Got /\ SentSeen' = SentSeen /\ GotSeen' = GotSeen
      /\ Publishing("producer") = 0 /\ Publishing("producer")' = 1
      /\ Publishing("consumer")' = Publishing("consumer")
  BY <1>1, <1>2 DEF Sent, Got, SentSeen, GotSeen, Publishing
<1>4. /\ accesses' \in [Thread -> Nat]
      /\ accesses["producer"] = Sent /\ accesses'["producer"] = Sent + 1
      /\ accesses'["consumer"] = accesses["consumer"]
  <2>1. accesses["producer"] = Sent
    BY <1>3, CounterFact DEF IndInv, WindowInv
  <2>. QED BY <1>1, <2>1 DEF PushWrite, Access, Thread
<1>5. /\ Sent - GotSeen < Capacity - 1 /\ GotSeen <= Got /\ Got <= Sent
      /\ item \in Items
  BY <1>1, CounterFact DEF IndInv, WindowInv, StageInv
<1>6. Sent % Capacity \in Slot
  BY CounterFact, OwnFact, IndexFact
<1>7. buffer_' = [buffer_ EXCEPT ![Sent % Capacity].item = item,
                                 ![Sent % Capacity].wrote = Sent + 1]
  BY <1>4, CounterFact, OwnFact DEF PushWrite
<1>8. /\ buffer_'[Sent % Capacity].item = item
      /\ buffer_'[Sent % Capacity].wrote = Sent + 1
      /\ buffer_'[Sent % Capacity].read = buffer_[Sent % Capacity].read
      /\ \A s \in Slot : s # Sent % Capacity => buffer_'[s] = buffer_[s]
  BY <1>1, <1>6, <1>7
<1>9. TypeOK'
  <2>1. buffer_' \in [Slot -> [item : Items \union {NoItem}, wrote : Nat, read : Nat]]
    BY <1>1, <1>5, <1>6, <1>7, CounterFact
  <2>. QED BY <1>1, <1>2, <1>4, <2>1 DEF IndInv, TypeOK
<1>10. StoresInv' /\ CacheInv'
  BY <1>1, <1>3 DEF IndInv, StoresInv, CacheInv
<1>11. WindowInv'
  BY <1>1, <1>3, <1>4 DEF IndInv, WindowInv
<1>12. StageInv'
  BY <1>1, <1>2, <1>3 DEF IndInv, StageInv
<1>13. BufferInv'
  <2>1. ASSUME NEW k \in (Got + 1) .. Sent
        PROVE  (k - 1) % Capacity \in Slot /\ (k - 1) % Capacity # Sent % Capacity
    <3>1. k - 1 \in Nat /\ k - 1 < Sent /\ Sent - (k - 1) < Capacity
      BY <1>5, CounterFact, CapacityFact
    <3>2. (k - 1) % Capacity # Sent % Capacity
      BY <3>1, CounterFact, CapacityFact, ModDiffers
    <3>. QED BY <3>1, <3>2, IndexFact
  <2>2. \A k \in (Got + 1) .. Sent :
           /\ buffer_'[(k - 1) % Capacity].item = accepted'[k]
           /\ buffer_'[(k - 1) % Capacity].wrote = k
    BY <1>1, <1>8, <2>1 DEF IndInv, BufferInv
  <2>3. \A s \in Slot : buffer_'[s].read = buffer_[s].read
    BY <1>8
  <2>4. \A s \in Slot : buffer_'[s].read > 0 =>
          /\ buffer_'[s].read <= accesses'["consumer"]
          /\ (buffer_'[s].read - 1) % Capacity = s
    BY <1>4, <2>3 DEF IndInv, BufferInv
  <2>. QED BY <1>1, <1>3, <1>8, <2>2, <2>4 DEF BufferInv
<1>14. FifoOrder'
  BY <1>1 DEF IndInv, FifoOrder
<1>. QED BY <1>9, <1>10, <1>11, <1>12, <1>13, <1>14 DEF IndInv

\* The stores of an index: the n-th is n - 1 modulo the capacity.
StoresOf(stores, k) ==
    /\ stores \in Seq([index : Slot, carries : Nat]) /\ stores # <<>> /\ Len(stores) = k + 1
    /\ \A n \in 1 .. Len(stores) : stores[n].index = (n - 1) % Capacity /\ stores[n].carries = n - 1

\* One more store keeps them so.
LEMMA StoreAdded ==
    ASSUME NEW k \in Nat, NEW stores, StoresOf(stores, k)
    PROVE  StoresOf(Append(stores, [index |-> (k + 1) % Capacity, carries |-> k + 1]), k + 1)
<1> DEFINE Stores == [index : Slot, carries : Nat]
           store == [index |-> (k + 1) % Capacity, carries |-> k + 1]
           after == Append(stores, store)
<1>1. store \in Stores
  <2>1. k + 1 \in Nat
    OBVIOUS
  <2>2. (k + 1) % Capacity \in Slot
    BY <2>1, IndexFact
  <2> HIDE DEF Slot
  <2> QED
    BY <2>1, <2>2
<1>2. stores \in Seq(Stores) /\ Len(stores) = k + 1
  BY DEF StoresOf
<1>3. store.index = (k + 1) % Capacity /\ store.carries = k + 1
  OBVIOUS
<1> HIDE DEF Stores, store
<1>4. /\ after \in Seq(Stores) /\ after # <<>> /\ Len(after) = (k + 1) + 1
      /\ \A i \in 1 .. Len(stores) : after[i] = stores[i]
      /\ after[(k + 1) + 1] = store
  BY <1>1, <1>2, AppendProperties
<1> HIDE DEF after
<1>5. ASSUME NEW n \in 1 .. Len(after)
      PROVE  after[n].index = (n - 1) % Capacity /\ after[n].carries = n - 1
  <2>1. n = (k + 1) + 1 \/ n \in 1 .. Len(stores)
    BY <1>2, <1>4
  <2>2. CASE n = (k + 1) + 1
    <3>1. n - 1 = k + 1
      BY <2>2
    <3> QED
      BY <1>3, <1>4, <2>2, <3>1, Zenon
  <2>3. CASE n \in 1 .. Len(stores)
    BY <1>4, <2>3, Zenon DEF StoresOf
  <2> QED
    BY <2>1, <2>2, <2>3
<1> QED
  BY <1>4, <1>5, Zenon DEF StoresOf, after, store, Stores

\* Publishing the tail: one more item is sent.
LEMMA PushPublishInv == ASSUME IndInv, PushPublish PROVE IndInv'
<1>1. /\ pc \in [Thread -> {"idle", "refresh", "access", "publish"}]
      /\ tail_ \in Seq([index : Slot, carries : Nat]) /\ accepted \in Seq(Items)
      /\ pc["producer"] = "publish"
      /\ accepted' = Append(accepted, item)
      /\ UNCHANGED <<head_, head_cache_, tail_cache_, buffer_, pos, accesses, knows,
                     item, out, received>>
  BY DEF PushPublish, IndInv, TypeOK
<1>2. /\ pc' \in [Thread -> {"idle", "refresh", "access", "publish"}]
      /\ pc'["producer"] = "idle" /\ pc'["consumer"] = pc["consumer"]
  BY <1>1 DEF PushPublish, GoTo, Thread
<1>3. /\ Sent' = Sent + 1 /\ Got' = Got
      /\ SentSeen' = SentSeen /\ GotSeen' = GotSeen
      /\ Publishing("producer") = 1 /\ Publishing("producer")' = 0
      /\ Publishing("consumer")' = Publishing("consumer")
  BY <1>1, <1>2 DEF Sent, Got, SentSeen, GotSeen, Publishing
<1>4. /\ Sent - GotSeen < Capacity - 1 /\ Got <= SentSeen /\ SentSeen <= Sent
      /\ accesses["producer"] = Sent + 1 /\ item \in Items
  BY <1>1, <1>3, CounterFact DEF IndInv, WindowInv, StageInv
<1>5. /\ accepted' \in Seq(Items) /\ accepted'[Sent + 1] = item
      /\ \A k \in 1 .. Sent : accepted'[k] = accepted[k]
  BY <1>1, <1>4 DEF Sent
<1>6. tail_' = Append(tail_, [index |-> (Sent + 1) % Capacity, carries |-> Sent + 1])
  <2>1. Carried(TailStore, accesses["producer"]) = Sent + 1
    BY <1>4 DEF Carried, TailStore, ReleaseOrders
  <2>. QED BY <2>1, CounterFact, OwnFact, IndexFact DEF PushPublish
<1>a. StoresOf(tail_, Sent) /\ Sent \in Nat
  <2>1. tail_ \in Seq([index : Slot, carries : Nat]) /\ tail_ # <<>>
    BY DEF IndInv, TypeOK
  <2>. QED BY <2>1, CounterFact DEF IndInv, StoresInv, StoresOf
<1>b. StoresOf(tail_', Sent + 1)
  BY <1>6, <1>a, StoreAdded
<1>7. (Sent + 1) % Capacity \in Slot
  BY CounterFact, OwnFact, IndexFact
<1>8. TypeOK'
  <2>1. tail_' \in Seq([index : Slot, carries : Nat]) /\ tail_' # <<>>
    BY <1>b DEF StoresOf
  <2>. QED BY <1>1, <1>2, <1>5, <2>1 DEF IndInv, TypeOK
<1>9. StoresInv'
  BY <1>1, <1>3, <1>b DEF IndInv, StoresInv, StoresOf
<1>10. CacheInv'
  BY <1>1, <1>3 DEF IndInv, CacheInv
<1>11. WindowInv'
  <2>1. SentSeen <= Sent + 1 /\ (Sent + 1) - GotSeen <= Capacity - 1
    BY <1>4, CounterFact, CapacityFact
  <2>2. accesses'["producer"] = (Sent + 1) + 0
    BY <1>1, <1>4, CounterFact
  <2>. QED BY <1>1, <1>3, <2>1, <2>2 DEF IndInv, WindowInv
<1>12. StageInv'
  <2>1. /\ pc["consumer"] = "refresh" => Got = SentSeen
        /\ pc["consumer"] \in {"access", "publish"} => Got < SentSeen
        /\ pc["consumer"] = "publish" => out = accepted[Got + 1]
    BY DEF IndInv, StageInv
  <2>2. pc["consumer"] = "publish" => out' = accepted'[Got + 1]
    <3>1. ASSUME pc["consumer"] = "publish" PROVE Got + 1 \in 1 .. Sent
      BY <1>4, <2>1, <3>1, CounterFact DEF IndInv, WindowInv
    <3>. QED BY <1>1, <1>5, <2>1, <3>1
  <2>. QED BY <1>2, <1>3, <2>1, <2>2 DEF StageInv
<1>13. BufferInv'
  <2>1. ASSUME NEW k \in (Got + 1) .. (Sent + 1)
        PROVE  /\ buffer_[(k - 1) % Capacity].item = accepted'[k]
               /\ buffer_[(k - 1) % Capacity].wrote = k
    <3>1. CASE k = Sent + 1
      <4>1. k - 1 = Sent
        BY <3>1, CounterFact
      <4>. QED BY <1>1, <1>5, <3>1, <4>1 DEF IndInv, BufferInv
    <3>2. CASE k \in (Got + 1) .. Sent
      <4>1. k \in 1 .. Sent
        BY <3>2, CounterFact
      <4>. QED BY <1>5, <3>2, <4>1 DEF IndInv, BufferInv
    <3>. QED BY <3>1, <3>2, CounterFact
  <2>. QED BY <1>1, <1>2, <1>3, <2>1 DEF IndInv, BufferInv
<1>14. FifoOrder'
  <2>1. Got <= Sent /\ \A k \in 1 .. Got : received[k] = accepted[k]
    BY DEF IndInv, FifoOrder, Sent, Got
  <2>2. \A k \in 1 .. Got : k \in 1 .. Sent
    BY <2>1, CounterFact
  <2>3. Len(received') = Got /\ Len(accepted') = Sent + 1
    BY <1>1, <1>3 DEF Sent, Got
  <2>. QED BY <1>1, <1>5, <2>1, <2>2, <2>3, CounterFact DEF FifoOrder
<1>. QED BY <1>8, <1>9, <1>10, <1>11, <1>12, <1>13, <1>14 DEF IndInv

\* Starting a pop: only pc changes.
LEMMA PopBeginInv == ASSUME IndInv, PopBegin PROVE IndInv'
<1>1. /\ pc \in [Thread -> {"idle", "refresh", "access", "publish"}]
      /\ pc["consumer"] = "idle"
      /\ UNCHANGED <<tail_, head_, head_cache_, tail_cache_, buffer_, pos, accesses,
                     knows, item, out, accepted, received>>
  BY DEF PopBegin, IndInv, TypeOK
<1>2. /\ pc' \in [Thread -> {"idle", "refresh", "access", "publish"}]
      /\ pc'["consumer"] = IF Own(head_) = tail_cache_ THEN "refresh" ELSE "access"
      /\ pc'["producer"] = pc["producer"]
  BY <1>1 DEF PopBegin, GoTo, Thread
<1>3. Got <= SentSeen /\ SentSeen - Got <= Capacity - 1
  BY CounterFact, CapacityFact DEF IndInv, WindowInv
<1>4. (Own(head_) = tail_cache_) <=> (Got = SentSeen)
  <2>1. tail_cache_ = SentSeen % Capacity
    BY DEF IndInv, CacheInv
  <2>. QED BY <1>3, <2>1, CounterFact, OwnFact, EmptyTest
<1>5. /\ Sent' = Sent /\ Got' = Got /\ SentSeen' = SentSeen /\ GotSeen' = GotSeen
      /\ Publishing("producer")' = Publishing("producer")
      /\ Publishing("consumer")' = Publishing("consumer")
  BY <1>1, <1>2 DEF Sent, Got, SentSeen, GotSeen, Publishing
<1>6. TypeOK'
  BY <1>1, <1>2 DEF IndInv, TypeOK
<1>7. StoresInv' /\ CacheInv'
  BY <1>1, <1>5 DEF IndInv, StoresInv, CacheInv
<1>8. WindowInv'
  BY <1>1, <1>5 DEF IndInv, WindowInv
<1>9. StageInv'
  BY <1>1, <1>2, <1>3, <1>4, <1>5, CounterFact DEF IndInv, StageInv
<1>10. BufferInv'
  BY <1>1, <1>2, <1>5 DEF IndInv, BufferInv
<1>11. FifoOrder'
  BY <1>1 DEF IndInv, FifoOrder
<1>. QED BY <1>6, <1>7, <1>8, <1>9, <1>10, <1>11 DEF IndInv

\* Refreshing the cached tail: the consumer sees more of what was sent.
LEMMA PopRefreshInv ==
    ASSUME IndInv, NEW i \in 1 .. Len(tail_), PopRefresh(i)
    PROVE  IndInv'
<1>1. /\ pc \in [Thread -> {"idle", "refresh", "access", "publish"}]
      /\ pos \in [Thread -> Nat \ {0}] /\ knows \in [Thread -> Nat]
      /\ pc["consumer"] = "refresh" /\ tail_cache_' = tail_[i].index
      /\ i \in pos["consumer"] .. Len(tail_)
      /\ UNCHANGED <<tail_, head_, head_cache_, buffer_, accesses, item, out,
                     accepted, received>>
  BY DEF PopRefresh, Load, IndInv, TypeOK
<1>2. /\ pc' \in [Thread -> {"idle", "refresh", "access", "publish"}]
      /\ pc'["consumer"] = IF Own(head_) = tail_cache_' THEN "idle" ELSE "access"
      /\ pc'["producer"] = pc["producer"]
  BY <1>1 DEF PopRefresh, GoTo, Thread
<1>3. SentSeen <= i - 1 /\ i - 1 <= Sent /\ i - 1 \in Nat
  <2>1. pos["consumer"] \in Nat \ {0}
    BY <1>1 DEF Thread
  <2>2. Len(tail_) = Sent + 1
    BY DEF IndInv, StoresInv
  <2>. QED BY <1>1, <2>1, <2>2, CounterFact DEF SentSeen
<1>4. tail_[i].index = (i - 1) % Capacity /\ tail_[i].carries = i - 1
  BY DEF IndInv, StoresInv
<1>5. /\ pos' \in [Thread -> Nat \ {0}] /\ pos'["consumer"] = i
      /\ pos'["producer"] = pos["producer"]
  BY <1>1, <1>3 DEF PopRefresh, Load, Thread
<1>6. /\ knows' \in [Thread -> Nat] /\ knows'["consumer"] = i - 1
      /\ knows'["producer"] = knows["producer"]
  <2>1. tail_[i].carries = i - 1 /\ knows["consumer"] = SentSeen
    BY <1>4 DEF IndInv, WindowInv
  <2>2. Learned(TailLoad, SentSeen, i - 1) = i - 1
    BY <1>3, CounterFact, OrderFact
  <2>. QED BY <1>1, <1>3, <2>1, <2>2 DEF PopRefresh, Load, Thread
<1>7. /\ Sent' = Sent /\ Got' = Got /\ SentSeen' = i - 1 /\ GotSeen' = GotSeen
      /\ Publishing("producer")' = Publishing("producer")
      /\ Publishing("consumer")' = Publishing("consumer")
  BY <1>1, <1>2, <1>5 DEF Sent, Got, SentSeen, GotSeen, Publishing
<1>8. Got <= i - 1 /\ (i - 1) - Got <= Capacity - 1
  BY <1>3, CounterFact, CapacityFact DEF IndInv, WindowInv
<1>9. (Own(head_) = tail_cache_') <=> (Got = i - 1)
  BY <1>1, <1>3, <1>4, <1>8, CounterFact, OwnFact, EmptyTest
<1>10. TypeOK'
  <2>1. tail_cache_' \in Slot
    BY <1>1, <1>3, <1>4, IndexFact
  <2>. QED BY <1>1, <1>2, <1>5, <1>6, <2>1 DEF IndInv, TypeOK
<1>11. StoresInv' /\ CacheInv'
  BY <1>1, <1>4, <1>7 DEF IndInv, StoresInv, CacheInv
<1>12. WindowInv'
  BY <1>1, <1>3, <1>6, <1>7, <1>8 DEF IndInv, WindowInv
<1>13. StageInv'
  BY <1>1, <1>2, <1>7, <1>8, <1>9, CounterFact DEF IndInv, StageInv
<1>14. BufferInv'
  BY <1>1, <1>2, <1>7 DEF IndInv, BufferInv
<1>15. FifoOrder'
  BY <1>1 DEF IndInv, FifoOrder
<1>. QED BY <1>10, <1>11, <1>12, <1>13, <1>14, <1>15 DEF IndInv

\* Reading the slot at the head: it holds the oldest queued item.
LEMMA PopReadInv == ASSUME IndInv, PopRead PROVE IndInv'
<1>1. /\ pc \in [Thread -> {"idle", "refresh", "access", "publish"}]
      /\ accesses \in [Thread -> Nat]
      /\ buffer_ \in [Slot -> [item : Items \union {NoItem}, wrote : Nat, read : Nat]]
      /\ pc["consumer"] = "access"
      /\ UNCHANGED <<tail_, head_, head_cache_, tail_cache_, pos, knows, item,
                     accepted, received>>
  BY DEF PopRead, IndInv, TypeOK
<1>2. /\ pc' \in [Thread -> {"idle", "refresh", "access", "publish"}]
      /\ pc'["consumer"] = "publish" /\ pc'["producer"] = pc["producer"]
  BY <1>1 DEF PopRead, GoTo, Thread
<1>3. /\ Sent' = Sent /\ Got' = Got /\ SentSeen' = SentSeen /\ GotSeen' = GotSeen
      /\ Publishing("consumer") = 0 /\ Publishing("consumer")' = 1
      /\ Publishing("producer")' = Publishing("producer")
  BY <1>1, <1>2 DEF Sent, Got, SentSeen, GotSeen, Publishing
<1>4. /\ accesses' \in [Thread -> Nat]
      /\ accesses["consumer"] = Got /\ accesses'["consumer"] = Got + 1
      /\ accesses'["producer"] = accesses["producer"]
  <2>1. accesses["consumer"] = Got
    BY <1>3, CounterFact DEF IndInv, WindowInv
  <2>. QED BY <1>1, <2>1 DEF PopRead, Access, Thread
<1>5. Got < SentSeen /\ SentSeen <= Sent
  BY <1>1, CounterFact DEF IndInv, WindowInv, StageInv
<1>6. Got % Capacity \in Slot
  BY CounterFact, IndexFact
<1>7. /\ buffer_' = [buffer_ EXCEPT ![Got % Capacity].read = Got + 1]
      /\ out' = buffer_[Got % Capacity].item
  BY <1>4, OwnFact DEF PopRead
<1>8. /\ buffer_'[Got % Capacity].read = Got + 1
      /\ \A s \in Slot : /\ buffer_'[s].item = buffer_[s].item
                         /\ buffer_'[s].wrote = buffer_[s].wrote
                         /\ s # Got % Capacity => buffer_'[s].read = buffer_[s].read
  BY <1>1, <1>6, <1>7
<1>9. out' = accepted[Got + 1]
  <2>1. Got + 1 \in (Got + 1) .. Sent /\ (Got + 1) - 1 = Got
    BY <1>5, CounterFact
  <2>. QED BY <1>7, <2>1 DEF IndInv, BufferInv
<1>10. TypeOK'
  <2>1. buffer_' \in [Slot -> [item : Items \union {NoItem}, wrote : Nat, read : Nat]]
    BY <1>1, <1>6, <1>7, CounterFact
  <2>2. out' \in Items \union {NoItem}
    BY <1>1, <1>6, <1>7
  <2>. QED BY <1>1, <1>2, <1>4, <2>1, <2>2 DEF IndInv, TypeOK
<1>11. StoresInv' /\ CacheInv'
  BY <1>1, <1>3 DEF IndInv, StoresInv, CacheInv
<1>12. WindowInv'
  BY <1>1, <1>3, <1>4 DEF IndInv, WindowInv
<1>13. StageInv'
  BY <1>1, <1>2, <1>3, <1>5, <1>9 DEF IndInv, StageInv
<1>14. BufferInv'
  <2>1. ASSUME NEW k \in (Got + 1) .. Sent
        PROVE  /\ buffer_'[(k - 1) % Capacity].item = accepted[k]
               /\ buffer_'[(k - 1) % Capacity].wrote = k
    <3>1. (k - 1) % Capacity \in Slot
      <4>1. k - 1 \in Nat
        BY CounterFact
      <4>. QED BY <4>1, IndexFact
    <3>. QED BY <1>8, <3>1 DEF IndInv, BufferInv
  <2>2. Sent % Capacity \in Slot
    BY CounterFact, IndexFact
  <2>3. ASSUME NEW s \in Slot, buffer_'[s].read > 0
        PROVE  buffer_'[s].read <= Got + 1 /\ (buffer_'[s].read - 1) % Capacity = s
    <3>1. CASE s = Got % Capacity
      <4>1. buffer_'[s].read = Got + 1 /\ (Got + 1) - 1 = Got
        BY <1>8, <3>1, CounterFact
      <4>. QED BY <3>1, <4>1, CounterFact
    <3>2. CASE s # Got % Capacity
      <4>1. buffer_'[s].read = buffer_[s].read /\ buffer_[s].read \in Nat
        BY <1>1, <1>8, <3>2
      <4>2. buffer_[s].read <= Got /\ (buffer_[s].read - 1) % Capacity = s
        BY <1>4, <2>3, <4>1 DEF IndInv, BufferInv
      <4>3. buffer_[s].read <= Got + 1
        BY <4>1, <4>2, CounterFact
      <4>. QED BY <4>1, <4>2, <4>3
    <3>. QED BY <3>1, <3>2
  <2>. QED BY <1>1, <1>2, <1>3, <1>4, <1>8, <2>1, <2>2, <2>3 DEF IndInv, BufferInv
<1>15. FifoOrder'
  BY <1>1 DEF IndInv, FifoOrder
<1>. QED BY <1>10, <1>11, <1>12, <1>13, <1>14, <1>15 DEF IndInv

\* Publishing the head: one more item is got.
LEMMA PopPublishInv == ASSUME IndInv, PopPublish PROVE IndInv'
<1>1. /\ pc \in [Thread -> {"idle", "refresh", "access", "publish"}]
      /\ head_ \in Seq([index : Slot, carries : Nat])
      /\ received \in Seq(Items \union {NoItem}) /\ out \in Items \union {NoItem}
      /\ pc["consumer"] = "publish"
      /\ received' = Append(received, out)
      /\ UNCHANGED <<tail_, head_cache_, tail_cache_, buffer_, pos, accesses, knows,
                     item, out, accepted>>
  BY DEF PopPublish, IndInv, TypeOK
<1>2. /\ pc' \in [Thread -> {"idle", "refresh", "access", "publish"}]
      /\ pc'["consumer"] = "idle" /\ pc'["producer"] = pc["producer"]
  BY <1>1 DEF PopPublish, GoTo, Thread
<1>3. /\ Sent' = Sent /\ Got' = Got + 1
      /\ SentSeen' = SentSeen /\ GotSeen' = GotSeen
      /\ Publishing("consumer") = 1 /\ Publishing("consumer")' = 0
      /\ Publishing("producer")' = Publishing("producer")
  BY <1>1, <1>2 DEF Sent, Got, SentSeen, GotSeen, Publishing
<1>4. /\ Got < SentSeen /\ SentSeen <= Sent /\ GotSeen <= Got
      /\ accesses["consumer"] = Got + 1
  BY <1>1, <1>3, CounterFact DEF IndInv, WindowInv, StageInv
<1>5. out = accepted[Got + 1]
  BY <1>1 DEF IndInv, StageInv
<1>6. head_' = Append(head_, [index |-> (Got + 1) % Capacity, carries |-> Got + 1])
  <2>1. Carried(HeadStore, accesses["consumer"]) = Got + 1
    BY <1>4 DEF Carried, HeadStore, ReleaseOrders
  <2>. QED BY <2>1, CounterFact, OwnFact, IndexFact DEF PopPublish
<1>a. StoresOf(head_, Got) /\ Got \in Nat
  <2>1. head_ \in Seq([index : Slot, carries : Nat]) /\ head_ # <<>>
    BY DEF IndInv, TypeOK
  <2>. QED BY <2>1, CounterFact DEF IndInv, StoresInv, StoresOf
<1>b. StoresOf(head_', Got + 1)
  BY <1>6, <1>a, StoreAdded
<1>7. TypeOK'
  <2>1. (Got + 1) % Capacity \in Slot
    BY CounterFact, IndexFact
  <2>2. head_' \in Seq([index : Slot, carries : Nat]) /\ head_' # <<>>
    BY <1>b DEF StoresOf
  <2>3. out \in Items
    <3>1. Got + 1 \in 1 .. Sent
      BY <1>4, CounterFact
    <3>. QED BY <1>5, <3>1 DEF IndInv, TypeOK, Sent
  <2>4. received' \in Seq(Items \union {NoItem})
    BY <1>1, <2>3
  <2>. QED BY <1>1, <1>2, <2>2, <2>4 DEF IndInv, TypeOK
<1>8. StoresInv'
  BY <1>1, <1>3, <1>b DEF IndInv, StoresInv, StoresOf
<1>9. CacheInv'
  BY <1>1, <1>3 DEF IndInv, CacheInv
<1>10. WindowInv'
  <2>1. GotSeen <= Got + 1 /\ Got + 1 <= SentSeen
    BY <1>4, CounterFact
  <2>2. accesses'["consumer"] = (Got + 1) + 0
    BY <1>1, <1>4, CounterFact
  <2>. QED BY <1>1, <1>3, <2>1, <2>2 DEF IndInv, WindowInv
<1>11. StageInv'
  BY <1>1, <1>2, <1>3 DEF IndInv, StageInv
<1>12. BufferInv'
  <2>1. \A k \in ((Got + 1) + 1) .. Sent : k \in (Got + 1) .. Sent
    BY CounterFact
  <2>. QED BY <1>1, <1>2, <1>3, <2>1 DEF IndInv, BufferInv
<1>13. FifoOrder'
  <2>1. Got + 1 <= Sent
    BY <1>4, CounterFact
  <2>2. ASSUME NEW k \in 1 .. (Got + 1) PROVE received'[k] = accepted[k]
    <3>1. CASE k = Got + 1
      BY <1>1, <1>5, <3>1 DEF Got
    <3>2. CASE k \in 1 .. Got
      <4>1. received[k] = accepted[k]
        BY <3>2 DEF Got, IndInv, FifoOrder
      <4>. QED BY <1>1, <3>2, <4>1 DEF Got
    <3>. QED BY <3>1, <3>2, CounterFact
  <2>. QED BY <1>1, <1>3, <2>1, <2>2 DEF FifoOrder, Sent, Got
<1>. QED BY <1>7, <1>8, <1>9, <1>10, <1>11, <1>12, <1>13 DEF IndInv

-----------------------------------------------------------------------------
\* Every step of the queue preserves the invariant.
LEMMA StepInv == IndInv /\ [Next]_vars => IndInv'
<1> SUFFICES ASSUME IndInv, [Next]_vars PROVE IndInv'
    OBVIOUS
<1>1. CASE Producer
  <2>1. ASSUME NEW v \in Items, PushBegin(v) PROVE IndInv'
    BY <2>1, PushBeginInv
  <2>2. ASSUME NEW i \in 1 .. Len(head_), PushRefresh(i) PROVE IndInv'
    BY <2>2, PushRefreshInv
  <2>3. CASE PushWrite
    BY <2>3, PushWriteInv
  <2>4. CASE PushPublish
    BY <2>4, PushPublishInv
  <2>. QED BY <1>1, <2>1, <2>2, <2>3, <2>4 DEF Producer
<1>2. CASE Consumer
  <2>1. CASE PopBegin
    BY <2>1, PopBeginInv
  <2>2. ASSUME NEW i \in 1 .. Len(tail_), PopRefresh(i) PROVE IndInv'
    BY <2>2, PopRefreshInv
  <2>3. CASE PopRead
    BY <2>3, PopReadInv
  <2>4. CASE PopPublish
    BY <2>4, PopPublishInv
  <2>. QED BY <1>2, <2>1, <2>2, <2>3, <2>4 DEF Consumer
<1>3. CASE UNCHANGED vars
  <2>1. UNCHANGED <<tail_, head_, head_cache_, tail_cache_, buffer_, pc, pos, accesses,
                    knows, item, out, accepted, received>>
    BY <1>3 DEF vars
  <2>2. /\ Sent' = Sent /\ Got' = Got /\ SentSeen' = SentSeen /\ GotSeen' = GotSeen
        /\ Publishing("producer")' = Publishing("producer")
        /\ Publishing("consumer")' = Publishing("consumer")
    BY <2>1 DEF Sent, Got, SentSeen, GotSeen, Publishing
  <2>3. TypeOK' /\ FifoOrder'
    BY <2>1 DEF IndInv, TypeOK, FifoOrder
  <2>4. StoresInv' /\ CacheInv'
    BY <2>1, <2>2 DEF IndInv, StoresInv, CacheInv
  <2>5. WindowInv' /\ StageInv'
    BY <2>1, <2>2 DEF IndInv, WindowInv, StageInv
  <2>6. BufferInv'
    BY <2>1, <2>2 DEF IndInv, BufferInv
  <2>. QED BY <2>3, <2>4, <2>5, <2>6 DEF IndInv
<1>. QED BY <1>1, <1>2, <1>3 DEF Next

\* The invariant holds in every reachable state.
LEMMA Invariance == Spec => []IndInv
BY InitInv, StepInv, PTL DEF Spec

(* Every variable keeps its type, for every capacity and item set.            *)
THEOREM TypeCorrect == Spec => []TypeOK
<1>1. IndInv => TypeOK
  BY DEF IndInv
<1>. QED BY <1>1, Invariance, PTL

(* push() and pop() deliver the pushed items in order, none lost, duplicated  *)
(* or invented (spsc_queue.h push, pop).                                      *)
THEOREM FifoCorrect == Spec => []FifoOrder
<1>1. IndInv => FifoOrder
  BY DEF IndInv
<1>. QED BY <1>1, Invariance, PTL

(* The release stores and acquire loads of push() and pop() order every two   *)
(* conflicting accesses to a slot of buffer_.                                 *)
THEOREM RaceFree == Spec => []NoDataRace
<1>1. IndInv => NoDataRace
  <2> SUFFICES ASSUME IndInv PROVE NoDataRace
      OBVIOUS
  <2>1. ASSUME pc["producer"] = "access"
        PROVE  buffer_[Own(tail_)].read <= knows["producer"]
    <3>1. /\ Own(tail_) = Sent % Capacity /\ Sent % Capacity \in Slot
          /\ knows["producer"] = GotSeen
      BY CounterFact, OwnFact, IndexFact DEF IndInv, WindowInv
    <3>2. buffer_[Sent % Capacity].read \in Nat
      BY <3>1 DEF IndInv, TypeOK
    <3>3. CASE buffer_[Sent % Capacity].read > GotSeen
      <4>1. PICK r \in Nat : r = buffer_[Sent % Capacity].read
        BY <3>2
      <4>2. r > 0 /\ r > GotSeen
        BY <3>3, <4>1, CounterFact
      <4>3. r <= accesses["consumer"] /\ (r - 1) % Capacity = Sent % Capacity
        BY <3>1, <4>1, <4>2 DEF IndInv, BufferInv
      <4>4. accesses["consumer"] <= Sent
        BY CounterFact DEF IndInv, WindowInv, StageInv, Publishing
      <4>5. Sent - GotSeen < Capacity - 1
        BY <2>1 DEF IndInv, StageInv
      <4>6. r <= accesses["consumer"]
        BY <4>3
      <4>7. accesses["consumer"] \in Nat
        BY DEF IndInv, TypeOK, Thread
      <4>8. r - 1 \in Nat /\ r - 1 < Sent /\ Sent - (r - 1) < Capacity
        BY <4>2, <4>4, <4>5, <4>6, <4>7, CounterFact, CapacityFact
      <4>9. (r - 1) % Capacity # Sent % Capacity
        BY <4>8, CounterFact, CapacityFact, ModDiffers
      <4>. QED BY <4>3, <4>9
    <3>. QED BY <3>1, <3>2, <3>3, CounterFact
  <2>2. ASSUME pc["consumer"] = "access"
        PROVE  buffer_[Own(head_)].wrote <= knows["consumer"]
    <3>1. Own(head_) = Got % Capacity /\ knows["consumer"] = SentSeen
      BY OwnFact DEF IndInv, WindowInv
    <3>2. Got < SentSeen /\ SentSeen <= Sent
      BY <2>2 DEF IndInv, WindowInv, StageInv
    <3>3. Got + 1 \in (Got + 1) .. Sent /\ (Got + 1) - 1 = Got
      BY <3>2, CounterFact
    <3>4. buffer_[Got % Capacity].wrote = Got + 1
      BY <3>3 DEF IndInv, BufferInv
    <3>5. Got + 1 <= SentSeen
      BY <3>2, CounterFact
    <3>. QED BY <3>1, <3>4, <3>5
  <2>. QED BY <2>1, <2>2 DEF NoDataRace
<1>. QED BY <1>1, Invariance, PTL

(* A refused push really found Capacity - 1 items queued and a refused pop    *)
(* none, as of the index it loaded ("truly full", "truly empty").             *)
THEOREM RefusalsJustified == Spec => RefusalIsJustified
<1> DEFINE Refusals ==
      /\ (pc["producer"] = "refresh" /\ pc'["producer"] = "idle")
            => Len(accepted) - (pos'["producer"] - 1) = Capacity - 1
      /\ (pc["consumer"] = "refresh" /\ pc'["consumer"] = "idle")
            => Len(received) = pos'["consumer"] - 1
<1>1. IndInv /\ IndInv' /\ [Next]_vars => [Refusals]_vars
  <2> SUFFICES ASSUME IndInv, IndInv', Next PROVE Refusals
      OBVIOUS
  <2>1. pc \in [Thread -> {"idle", "refresh", "access", "publish"}]
    BY DEF IndInv, TypeOK
  <2>2. ASSUME NEW i \in 1 .. Len(head_), PushRefresh(i), pc'["producer"] = "idle"
        PROVE  Len(accepted) - (pos'["producer"] - 1) = Capacity - 1
    <3>1. Wrap(Own(tail_)) = head_cache_' /\ accepted' = accepted
      BY <2>1, <2>2 DEF PushRefresh, GoTo, Thread
    <3>2. head_cache_' = (pos'["producer"] - 1) % Capacity
      BY DEF IndInv, CacheInv, GotSeen
    <3>3. /\ pos'["producer"] - 1 \in Nat
          /\ pos'["producer"] - 1 <= Sent /\ Sent - (pos'["producer"] - 1) <= Capacity - 1
      <4>1. /\ pos'["producer"] \in Nat \ {0} /\ pos'["consumer"] \in Nat \ {0}
            /\ Len(received') \in Nat
        BY DEF IndInv, TypeOK, Thread
      <4>2. /\ pos'["producer"] - 1 <= Len(received')
            /\ Len(received') <= pos'["consumer"] - 1 /\ pos'["consumer"] - 1 <= Sent
            /\ Sent - (pos'["producer"] - 1) <= Capacity - 1
        BY <3>1 DEF IndInv, WindowInv, GotSeen, SentSeen, Sent, Got
      <4> DEFINE p == pos'["producer"]
                 c == pos'["consumer"]
                 g == Len(received')
      <4>3. p \in Nat \ {0} /\ c \in Nat \ {0} /\ g \in Nat /\ Sent \in Nat
        BY <4>1, CounterFact
      <4>4. p - 1 <= g /\ g <= c - 1 /\ c - 1 <= Sent
        BY <4>2, Zenon
      <4>5. Sent - (p - 1) <= Capacity - 1
        BY <4>2, Zenon
      <4> HIDE DEF p, c, g
      <4>6. p - 1 \in Nat /\ p - 1 <= Sent
        BY <4>3, <4>4
      <4>. QED BY <4>5, <4>6 DEF p
    <3>. QED BY <3>1, <3>2, <3>3, CounterFact, OwnFact, FullTest DEF Sent
  <2>3. ASSUME NEW i \in 1 .. Len(tail_), PopRefresh(i), pc'["consumer"] = "idle"
        PROVE  Len(received) = pos'["consumer"] - 1
    <3>1. /\ Own(head_) = tail_cache_'
          /\ accepted' = accepted /\ received' = received /\ pos'["producer"] = pos["producer"]
      BY <2>1, <2>3 DEF PopRefresh, GoTo, Thread, Load, IndInv, TypeOK
    <3>2. tail_cache_' = (pos'["consumer"] - 1) % Capacity
      BY DEF IndInv, CacheInv, SentSeen
    <3>3. /\ pos'["consumer"] - 1 \in Nat
          /\ Got <= pos'["consumer"] - 1 /\ (pos'["consumer"] - 1) - Got <= Capacity - 1
      <4>1. pos'["producer"] \in Nat \ {0} /\ pos'["consumer"] \in Nat \ {0}
        BY DEF IndInv, TypeOK, Thread
      <4>2. /\ pos'["producer"] - 1 <= Got
            /\ Got <= pos'["consumer"] - 1 /\ pos'["consumer"] - 1 <= Sent
            /\ Sent - (pos'["producer"] - 1) <= Capacity - 1
        BY <3>1 DEF IndInv, WindowInv, GotSeen, SentSeen, Sent, Got
      <4> DEFINE p == pos'["producer"]
                 c == pos'["consumer"]
      <4>3. p \in Nat \ {0} /\ c \in Nat \ {0} /\ Got \in Nat /\ Sent \in Nat /\ Capacity \in Nat
        BY <4>1, CounterFact, CapacityFact
      <4>4. p - 1 <= Got /\ Got <= c - 1 /\ c - 1 <= Sent
        BY <4>2, Zenon
      <4>5. Sent - (p - 1) <= Capacity - 1
        BY <4>2, Zenon
      <4> HIDE DEF p, c
      <4>6. c - 1 \in Nat /\ (c - 1) - Got <= Capacity - 1
        BY <4>3, <4>4, <4>5
      <4>. QED BY <4>4, <4>6 DEF c
    <3>4. Got = pos'["consumer"] - 1
      BY <3>1, <3>2, <3>3, CounterFact, OwnFact, EmptyTest
    <3>. QED BY <3>4 DEF Got
  <2>4. CASE Producer
    <3>1. ASSUME NEW v \in Items, PushBegin(v) PROVE Refusals
      BY <2>1, <3>1 DEF PushBegin, GoTo, Thread
    <3>2. ASSUME NEW i \in 1 .. Len(head_), PushRefresh(i) PROVE Refusals
      BY <2>1, <2>2, <3>2 DEF PushRefresh, GoTo, Thread
    <3>3. CASE PushWrite \/ PushPublish
      BY <2>1, <3>3 DEF PushWrite, PushPublish, GoTo, Thread
    <3>. QED BY <2>4, <3>1, <3>2, <3>3 DEF Producer
  <2>5. CASE Consumer
    <3>1. ASSUME NEW i \in 1 .. Len(tail_), PopRefresh(i) PROVE Refusals
      BY <2>1, <2>3, <3>1 DEF PopRefresh, GoTo, Thread
    <3>2. CASE PopBegin \/ PopRead \/ PopPublish
      BY <2>1, <3>2 DEF PopBegin, PopRead, PopPublish, GoTo, Thread
    <3>. QED BY <2>5, <3>1, <3>2 DEF Consumer
  <2>. QED BY <2>4, <2>5 DEF Next
<1>. QED BY <1>1, Invariance, PTL DEF Spec, RefusalIsJustified

(* The ring buffer implements the channel of Capacity - 1 items: an accepted  *)
(* push and a successful pop are its sends and receipts, a refresh of a cache *)
(* is a look at the other side, and every other step changes nothing in it.   *)
THEOREM Refinement == Spec => ImplementsChannel
<1>1. Init => Channel!Init
  BY DEF Init, Channel!Init, Thread
<1>2. IndInv /\ [Next]_vars => [Channel!Next]_Channel!vars
  <2> SUFFICES ASSUME IndInv, [Next]_vars
               PROVE  Channel!Next \/ UNCHANGED <<accepted, received, GotSeen, SentSeen>>
      BY DEF Channel!vars, GotSeen, SentSeen
  <2>1. CASE PushPublish
    <3>1. Sent - GotSeen < Capacity - 1 /\ item \in Items
      BY <2>1 DEF PushPublish, IndInv, StageInv
    <3>2. Sent - GotSeen # Capacity - 1
      BY <3>1, CounterFact, CapacityFact
    <3>3. Channel!Send(item)
      BY <2>1, <3>2 DEF PushPublish, Channel!Send, Channel!LooksFull, Sent, GotSeen
    <3>. QED BY <3>1, <3>3 DEF Channel!Next
  <2>2. CASE PopPublish
    <3>1. Got < SentSeen /\ out = accepted[Got + 1]
      BY <2>2 DEF PopPublish, IndInv, StageInv
    <3>2. Got # SentSeen
      BY <3>1, CounterFact
    <3>3. Channel!Receive
      BY <2>2, <3>1, <3>2 DEF PopPublish, Channel!Receive, Channel!LooksEmpty, Got, SentSeen
    <3>. QED BY <3>3 DEF Channel!Next
  <2>3. ASSUME NEW i \in 1 .. Len(head_), PushRefresh(i) PROVE Channel!Next
    <3>1. /\ pos \in [Thread -> Nat \ {0}] /\ pos["producer"] \in Nat \ {0}
          /\ Len(head_) = Len(received) + 1
      BY DEF IndInv, TypeOK, Thread, StoresInv, Got
    <3>2. /\ i \in pos["producer"] .. Len(head_) /\ pos'["producer"] = i
          /\ pos'["consumer"] = pos["consumer"]
          /\ UNCHANGED <<accepted, received>>
      BY <2>3, <3>1 DEF PushRefresh, Load, Thread
    <3>3. i - 1 \in (pos["producer"] - 1) .. Len(received) /\ i - 1 \in 0 .. Len(received)
      BY <3>1, <3>2, CounterFact DEF Got
    <3>4. Channel!SeeGot(i - 1)
      BY <3>2, <3>3 DEF Channel!SeeGot
    <3>. QED BY <3>3, <3>4 DEF Channel!Next
  <2>4. ASSUME NEW i \in 1 .. Len(tail_), PopRefresh(i) PROVE Channel!Next
    <3>1. /\ pos \in [Thread -> Nat \ {0}] /\ pos["consumer"] \in Nat \ {0}
          /\ Len(tail_) = Len(accepted) + 1
      BY DEF IndInv, TypeOK, Thread, StoresInv, Sent
    <3>2. /\ i \in pos["consumer"] .. Len(tail_) /\ pos'["consumer"] = i
          /\ pos'["producer"] = pos["producer"]
          /\ UNCHANGED <<accepted, received>>
      BY <2>4, <3>1 DEF PopRefresh, Load, Thread
    <3>3. i - 1 \in (pos["consumer"] - 1) .. Len(accepted) /\ i - 1 \in 0 .. Len(accepted)
      BY <3>1, <3>2, CounterFact DEF Sent
    <3>4. Channel!SeeSent(i - 1)
      BY <3>2, <3>3 DEF Channel!SeeSent
    <3>. QED BY <3>3, <3>4 DEF Channel!Next
  <2>5. CASE (\E v \in Items : PushBegin(v)) \/ PushWrite
    BY <2>5 DEF PushBegin, PushWrite, GotSeen, SentSeen
  <2>6. CASE PopBegin \/ PopRead
    BY <2>6 DEF PopBegin, PopRead, GotSeen, SentSeen
  <2>7. CASE UNCHANGED vars
    BY <2>7 DEF vars, GotSeen, SentSeen
  <2>. QED BY <2>1, <2>2, <2>3, <2>4, <2>5, <2>6, <2>7 DEF Next, Producer, Consumer
<1>. QED BY <1>1, <1>2, Invariance, PTL DEF Spec, ImplementsChannel, Channel!Spec
=============================================================================
