---------------------------- MODULE MpscQueueProof ----------------------------
(***************************************************************************)
(* Proofs about MpscQueue, for every set of pushing threads and any number  *)
(* of pushes: no node is used after its delete or accessed in a race, queue *)
(* order respects real time, the destructor leaks nothing, and the linked   *)
(* list implements the two-step channel.                                    *)
(*                                                                         *)
(* The nodes exchanged so far form a chain: the Sentinel, then `order`.     *)
(***************************************************************************)
EXTENDS MpscQueue, FiniteSetTheorems, SequenceTheorems, TLAPS

\* The k-th node of the chain.
Place(k) == IF k = 0 THEN Sentinel ELSE order[k]

IsInChain(n) == \E k \in 1 .. Len(order) : order[k] = n

\* The chain holds each push that is past its exchange once, and a push between its
\* exchange and its link knows the node before its own.
ChainInv ==
    /\ \A i, j \in 1 .. Len(order) : order[i] = order[j] => i = j
    /\ \A p \in Pushers, m \in 1 .. MaxPushes :
         IsInChain(<<p, m>>) <=> m <= made[p] /\ ~(m = made[p] /\ pc[p] = "exchange")
    /\ \A p \in Pushers : pc[p] \in {"exchange", "link"} => made[p] > 0
    /\ \A p \in Pushers : pc[p] = "link" =>
         \E k \in 1 .. Len(order) : order[k] = Current(p) /\ prev[p] = Place(k - 1)
    /\ tail_.node = Place(Len(order))
    /\ \A p \in Pushers : pc[p] = "advance" => p = Consumer

\* A node's next is the one after it in the chain once that push has made its link.
NextInv ==
    /\ \A k \in 1 .. Len(order) :
         next[Place(k - 1)].node = IF k \in Unlinked THEN Null ELSE order[k]
    /\ next[tail_.node].node = Null
    /\ \A n \in Push : ~IsInChain(n) => next[n].node = Null

\* The consumer follows the chain along the links that have been made.
PoppedInv ==
    /\ Len(popped) <= Len(order)
    /\ \A j \in 1 .. Len(popped) : popped[j] = order[j] /\ j \notin Unlinked
    /\ head_ = Place(Len(popped))
    /\ pc[Consumer] = "advance" =>
         Len(popped) < Len(order) /\ Len(popped) + 1 \notin Unlinked

\* The nodes behind the consumer's are freed, those from it on live.
HeapInv ==
    /\ \A p \in Pushers, m \in 1 .. MaxPushes : heap[<<p, m>>] = "unborn" <=> m > made[p]
    /\ \A k \in 0 .. Len(order) :
         heap[Place(k)] = IF k < Len(popped) \/ phase = "destroyed" THEN "freed" ELSE "live"
    /\ \A p \in Pushers : pc[p] = "exchange" => heap[Current(p)] = "live"
    /\ IsFiniteSet(Begun)

\* The destructor is alone, and has popped everything when it ends.
ClosingInv ==
    /\ phase # "open" => \A p \in Pushers : pc[p] \notin {"exchange", "link"}
    /\ phase = "destroyed" => Len(popped) = Len(order) /\ pc[Consumer] = "idle"

\* What is known of the nodes a thread holds or can reach by its next load.
KnownInv ==
    /\ \A p \in Pushers : pc[p] \in {"exchange", "link"} => <<"init", Current(p)>> \in known[p]
    /\ \A p \in Pushers : pc[p] = "link" => <<"init", prev[p]>> \in known[p]
    /\ \A t \in Thread : <<"init", Sentinel>> \in known[t]
    /\ tail_.node # Sentinel => <<"init", tail_.node>> \in tail_.carries
    /\ \A n \in Node : next[n].node # Null =>
         /\ {<<"init", n>>, <<"link", n>>, <<"init", next[n].node>>} \subseteq next[n].carries
         /\ \E t \in Thread : <<"link", n>> \in known[t]
         /\ phase # "open" => <<"link", n>> \in known[Consumer]
    /\ pc[Consumer] = "advance" => next[head_].carries \subseteq known[Consumer]

\* The pushes that had returned when a push was called are before it in the chain.
BeforeInv ==
    /\ \A k \in 1 .. Len(order) :
         \A n \in before[order[k]] : \E i \in 1 .. k - 1 : order[i] = n
    /\ \A p \in Pushers : pc[p] = "exchange" => \A n \in before[Current(p)] : IsInChain(n)

QueueInv ==
    /\ TypeOK /\ ChainInv /\ NextInv /\ PoppedInv /\ HeapInv /\ ClosingInv
    /\ KnownInv /\ BeforeInv

USE MpscAssumption
-----------------------------------------------------------------------------
\* Lemmas about the chain.

\* A push is its thread and its number.
LEMMA PushPairs ==
    /\ \A p \in Pushers, m \in 1 .. MaxPushes : <<p, m>> \in Push /\ <<p, m>> \in Node
    /\ \A n \in Push : \E p \in Pushers, m \in 1 .. MaxPushes : n = <<p, m>>
    /\ \A n \in Node : n = Sentinel \/ n \in Push
    /\ Sentinel \in Node /\ Sentinel \notin Push /\ Null \notin Node
BY DEF Push, Node

\* The nodes of the chain are nodes, and all different.
LEMMA ChainNodes ==
    ASSUME TypeOK, ChainInv
    PROVE  /\ Len(order) \in Nat /\ Len(popped) \in Nat
           /\ \A k \in 1 .. Len(order) : order[k] \in Push /\ Place(k) = order[k]
           /\ \A k \in 0 .. Len(order) : Place(k) \in Node
           /\ \A i, j \in 0 .. Len(order) : Place(i) = Place(j) => i = j
           /\ \A k \in 0 .. Len(order) : Place(k) = Sentinel \/ IsInChain(Place(k))
<1>1. Len(order) \in Nat /\ Len(popped) \in Nat
  BY DEF TypeOK
<1>2. \A k \in 1 .. Len(order) : order[k] \in Push /\ Place(k) = order[k]
  BY DEF TypeOK, Place
<1>3. Place(0) = Sentinel
  BY DEF Place
<1>4. \A k \in 0 .. Len(order) : k = 0 \/ k \in 1 .. Len(order)
  BY <1>1
<1>5. ASSUME NEW i \in 0 .. Len(order), NEW j \in 0 .. Len(order), Place(i) = Place(j)
      PROVE  i = j
  BY <1>2, <1>3, <1>4, <1>5, PushPairs DEF ChainInv
<1> QED
  BY <1>1, <1>2, <1>3, <1>4, <1>5, PushPairs DEF IsInChain

\* Which places are not linked depends on the chain and on who is between exchange and
\* link.
LEMMA UnlinkedStays ==
    ASSUME UNCHANGED order,
           \A p \in Pushers : pc'[p] = "link" <=> pc[p] = "link",
           \A p \in Pushers : pc[p] = "link" => made'[p] = made[p]
    PROVE  UNCHANGED Unlinked
BY DEF Unlinked, Current

\* The chain is that of `order`.
LEMMA ChainStays ==
    ASSUME UNCHANGED order
    PROVE  (\A k : Place(k)' = Place(k)) /\ (\A n : IsInChain(n)' <=> IsInChain(n))
BY DEF Place, IsInChain

\* The push in progress is a push.
LEMMA CurrentIsPush ==
    ASSUME TypeOK, ChainInv, NEW p \in Pushers, pc[p] \in {"exchange", "link"}
    PROVE  made[p] \in 1 .. MaxPushes /\ Current(p) \in Push
<1>1. made[p] \in 1 .. MaxPushes
  BY DEF TypeOK, ChainInv
<1> QED
  BY <1>1, PushPairs DEF Current

\* There is a number left for the push that is begun: each thread's pushes are among
\* the MaxPushes that the model allows.
LEMMA NumberLeft ==
    ASSUME TypeOK, HeapInv, NEW p \in Pushers, Cardinality(Begun) < MaxPushes
    PROVE  made[p] + 1 \in 1 .. MaxPushes
<1> DEFINE mine == {<<p, m>> : m \in 1 .. made[p]}
<1>1. made[p] \in 0 .. MaxPushes
  BY DEF TypeOK
<1>2. mine \subseteq Begun
  BY <1>1, PushPairs DEF Begun, HeapInv
<1>3. Cardinality(1 .. made[p]) = made[p] /\ IsFiniteSet(1 .. made[p])
  <2>1. made[p] \in Int /\ 1 \in Int
    BY <1>1
  <2>2. Cardinality(1 .. made[p]) = (IF 1 > made[p] THEN 0 ELSE made[p] - 1 + 1)
        /\ IsFiniteSet(1 .. made[p])
    BY <2>1, FS_Interval
  <2> QED
    BY <1>1, <2>2
<1>4. ExistsBijection(1 .. made[p], mine)
  <2> DEFINE f == [m \in 1 .. made[p] |-> <<p, m>>]
  <2>1. f \in Bijection(1 .. made[p], mine)
    BY DEF Bijection, Injection, Surjection, IsInjective
  <2> QED
    BY <2>1 DEF ExistsBijection
<1>5. Cardinality(mine) = made[p]
  BY <1>3, <1>4, FS_Bijection
<1>6. Cardinality(mine) <= Cardinality(Begun)
  BY <1>2, FS_Subset DEF HeapInv
<1>7. Cardinality(Begun) \in Nat
  BY FS_CardinalityType DEF HeapInv
<1> QED
  BY <1>1, <1>5, <1>6, <1>7

-----------------------------------------------------------------------------
\* What the two steps of a push do to the places that are not linked.

\* The exchange adds a place at the end that is not linked.
LEMMA ExchangeEnters ==
    ASSUME TypeOK, ChainInv, NEW p \in Pushers, PushExchange(p)
    PROVE  order' = Append(order, Current(p)) /\ Unlinked' = Unlinked \union {Len(order) + 1}
<1> DEFINE c == Current(p)
<1>1. /\ pc[p] = "exchange" /\ pc' = [pc EXCEPT ![p] = "link"]
      /\ order' = Append(order, c) /\ UNCHANGED made
  BY DEF PushExchange, GoTo
<1>2. p \in Thread /\ pc'[p] = "link" /\ \A q \in Thread : q # p => pc'[q] = pc[q]
  BY <1>1 DEF Thread, TypeOK
<1>3. made[p] \in 1 .. MaxPushes /\ c \in Push
  BY <1>1, CurrentIsPush
<1>4. \A q \in Pushers : Current(q)' = Current(q) /\ (q # p => Current(q) # c)
  BY <1>1 DEF Current
<1>5. ~IsInChain(c)
  BY <1>1, <1>3 DEF ChainInv, Current
<1>n. PICK n \in Nat : n = Len(order)
  BY ChainNodes
<1> HIDE DEF c
<1>6. /\ Len(order') = n + 1 /\ order'[n + 1] = c
      /\ \A k \in 1 .. n : order'[k] = order[k] /\ order[k] # c
  <2>1. order \in Seq(Push)
    BY DEF TypeOK
  <2>2. Len(order') = n + 1 /\ order'[n + 1] = c /\ \A k \in 1 .. n : order'[k] = order[k]
    BY <1>n, <1>1, <1>3, <2>1, AppendProperties
  <2>3. \A k \in 1 .. n : order[k] # c
    BY <1>n, <1>5 DEF IsInChain
  <2> QED
    BY <2>2, <2>3
<1>7. \A k \in 1 .. n + 1 : k \in 1 .. n \/ k = n + 1
  OBVIOUS
<1>8. ASSUME NEW k \in 1 .. n PROVE k \in Unlinked' <=> k \in Unlinked
  <2>1. k \in 1 .. Len(order') /\ k \in 1 .. Len(order)
    BY <1>n, <1>6
  <2>2. \A q \in Pushers : (pc'[q] = "link" /\ order'[k] = Current(q)')
                             <=> (pc[q] = "link" /\ order[k] = Current(q))
    BY <1>1, <1>2, <1>4, <1>6 DEF Thread, c
  <2> QED
    BY <2>1, <2>2 DEF Unlinked
<1>9. n + 1 \in Unlinked'
  BY <1>2, <1>4, <1>6 DEF Unlinked, c
<1>10. Unlinked \subseteq 1 .. n /\ Unlinked' \subseteq 1 .. n + 1
  BY <1>n, <1>6 DEF Unlinked
<1>11. Unlinked' = Unlinked \union {n + 1}
  BY <1>7, <1>8, <1>9, <1>10
<1> QED
  BY <1>n, <1>1, <1>11 DEF c

\* The store of the link links the place of the push, behind the node it remembers.
LEMMA StoreLinks ==
    ASSUME TypeOK, ChainInv, NEW p \in Pushers, PushLink(p)
    PROVE  \E k \in 1 .. Len(order) : /\ order[k] = Current(p) /\ prev[p] = Place(k - 1)
                                      /\ k \in Unlinked /\ Unlinked' = Unlinked \ {k}
<1> DEFINE c == Current(p)
<1>1. pc[p] = "link" /\ pc' = [pc EXCEPT ![p] = "idle"] /\ UNCHANGED <<order, made>>
  BY DEF PushLink, GoTo
<1>2. p \in Thread /\ pc'[p] = "idle" /\ \A q \in Thread : q # p => pc'[q] = pc[q]
  BY <1>1 DEF Thread, TypeOK
<1>3. \A q \in Pushers : Current(q)' = Current(q) /\ (q # p => Current(q) # c)
  BY <1>1 DEF Current
<1>n. PICK n \in Nat : n = Len(order)
  BY ChainNodes
<1>4. PICK k \in 1 .. n : order[k] = c /\ prev[p] = Place(k - 1)
  BY <1>n, <1>1 DEF ChainInv
<1>5. k \in Unlinked
  BY <1>n, <1>1, <1>4 DEF Unlinked
<1> HIDE DEF c
<1>6. \A j \in 1 .. n : j # k => order[j] # c
  BY <1>n, <1>4 DEF ChainInv
<1>7. ASSUME NEW j \in 1 .. n PROVE j \in Unlinked' <=> j \in Unlinked /\ j # k
  <2>1. \A q \in Pushers : (pc'[q] = "link" /\ order[j] = Current(q)')
                             <=> (q # p /\ pc[q] = "link" /\ order[j] = Current(q))
    BY <1>2, <1>3 DEF Thread
  <2>2. \A q \in Pushers : order[k] = Current(q) => q = p
    BY <1>3, <1>4
  <2>3. order[j] = Current(p) => j = k
    BY <1>6 DEF c
  <2>4. j \in Unlinked' <=> \E q \in Pushers : pc'[q] = "link" /\ order[j] = Current(q)'
    BY <1>n, <1>1 DEF Unlinked
  <2>5. j \in Unlinked <=> \E q \in Pushers : pc[q] = "link" /\ order[j] = Current(q)
    BY <1>n DEF Unlinked
  <2> QED
    BY <2>1, <2>2, <2>3, <2>4, <2>5
<1>8. Unlinked \subseteq 1 .. n /\ Unlinked' \subseteq 1 .. n
  BY <1>n, <1>1 DEF Unlinked
<1>9. Unlinked' = Unlinked \ {k}
  BY <1>5, <1>7, <1>8
<1> QED
  BY <1>n, <1>4, <1>5, <1>9 DEF c

-----------------------------------------------------------------------------

\* The invariant holds of the queue with its first dummy only.
LEMMA InitInv == Init => QueueInv
<1> SUFFICES ASSUME Init PROVE QueueInv
  OBVIOUS
<1> USE DEF Init
<1>0. Len(order) = 0 /\ Len(popped) = 0 /\ Place(0) = Sentinel
  BY DEF Place
<1>1. TypeOK
  BY PushPairs DEF TypeOK
<1>2. ChainInv
  BY <1>0 DEF ChainInv, IsInChain, Thread
<1>3. NextInv /\ PoppedInv
  BY <1>0, PushPairs DEF NextInv, PoppedInv, Thread
<1>4. HeapInv
  <2>1. Begun = {}
    BY PushPairs DEF Begun
  <2>2. \A p \in Pushers, m \in 1 .. MaxPushes : heap[<<p, m>>] = "unborn"
    BY PushPairs
  <2> QED
    BY <1>0, <2>1, <2>2, FS_EmptySet, PushPairs DEF HeapInv, Thread
<1>5. ClosingInv /\ KnownInv /\ BeforeInv
  BY <1>0 DEF ClosingInv, KnownInv, BeforeInv, Thread
<1> QED
  BY <1>1, <1>2, <1>3, <1>4, <1>5 DEF QueueInv

-----------------------------------------------------------------------------
\* Every step keeps the invariant.

\* new Node: the push becomes the thread's current one and is not in the chain yet.
LEMMA PushNewStep == ASSUME QueueInv, NEW p \in Pushers, PushNew(p) PROVE QueueInv'
<1> DEFINE c == <<p, made[p] + 1>>
<1>0. TypeOK /\ ChainInv /\ NextInv /\ PoppedInv /\ HeapInv /\ ClosingInv /\ KnownInv /\ BeforeInv
  BY DEF QueueInv
<1>1. /\ pc[p] = "idle" /\ phase = "open"
      /\ made' = [made EXCEPT ![p] = made[p] + 1] /\ pc' = [pc EXCEPT ![p] = "exchange"]
      /\ UNCHANGED <<tail_, head_, next, prev, phase, order, popped>>
  BY DEF PushNew, GoTo
<1>2. made[p] + 1 \in 1 .. MaxPushes /\ made[p] \in 0 .. MaxPushes
  BY <1>0, NumberLeft DEF PushNew, TypeOK
<1>3. c \in Push /\ c \in Node /\ c # Sentinel
  BY <1>2, PushPairs
<1>4. made'[p] = made[p] + 1 /\ Current(p)' = c
  BY <1>0, <1>1 DEF TypeOK, Current
<1>5. /\ heap' = [heap EXCEPT ![c] = "live"]
      /\ known' = [known EXCEPT ![p] = known[p] \union {<<"init", c>>}]
      /\ before' = [before EXCEPT ![c] = Returned]
  BY <1>4 DEF PushNew
<1>6. p \in Thread /\ pc'[p] = "exchange" /\ pc \in [Thread -> {"idle", "exchange", "link", "advance"}]
  BY <1>0, <1>1 DEF Thread, TypeOK
<1>7. \A q \in Pushers : q # p => pc'[q] = pc[q] /\ made'[q] = made[q] /\ Current(q)' = Current(q)
  BY <1>0, <1>1 DEF TypeOK, Current
<1>8. UNCHANGED Unlinked
  <2>1. \A q \in Pushers : pc'[q] = "link" <=> pc[q] = "link"
    BY <1>1, <1>6, <1>7
  <2>2. \A q \in Pushers : pc[q] = "link" => made'[q] = made[q]
    BY <1>1, <1>7
  <2> QED
    BY <1>1, <2>1, <2>2, UnlinkedStays
<1>9. (\A k : Place(k)' = Place(k)) /\ (\A n : IsInChain(n)' <=> IsInChain(n))
  BY <1>1, ChainStays
<1>10. ~IsInChain(c)
  BY <1>0, <1>2 DEF ChainInv
<1>11. \A k \in 0 .. Len(order) : Place(k) \in Node /\ Place(k) # c
  BY <1>0, <1>3, <1>10, ChainNodes
<1> HIDE DEF c
<1>12. TypeOK'
  <2>1. Returned \subseteq Push
    BY DEF Returned
  <2>2. made' \in [Pushers -> 0 .. MaxPushes]
    BY <1>0, <1>1, <1>2 DEF TypeOK
  <2>3. pc' \in [Thread -> {"idle", "exchange", "link", "advance"}]
    BY <1>0, <1>1 DEF TypeOK
  <2>4. known' \in [Thread -> SUBSET ({"init", "link"} \X Node)]
    <3>1. known[p] \union {<<"init", c>>} \in SUBSET ({"init", "link"} \X Node)
      BY <1>0, <1>3, <1>6 DEF TypeOK
    <3> QED
      BY <1>0, <1>5, <3>1 DEF TypeOK
  <2>5. heap' \in [Node -> {"unborn", "live", "freed"}] /\ before' \in [Push -> SUBSET Push]
    BY <1>0, <1>5, <2>1 DEF TypeOK
  <2> QED
    BY <1>0, <1>1, <2>2, <2>3, <2>4, <2>5 DEF TypeOK
<1>13. ChainInv'
  <2>1. ASSUME NEW q \in Pushers, NEW m \in 1 .. MaxPushes
        PROVE  IsInChain(<<q, m>>)' <=> m <= made'[q] /\ ~(m = made'[q] /\ pc'[q] = "exchange")
    <3>1. CASE q = p
      BY <1>0, <1>1, <1>2, <1>4, <1>6, <1>9, <3>1 DEF ChainInv
    <3>2. CASE q # p
      BY <1>0, <1>7, <1>9, <3>2 DEF ChainInv
    <3> QED
      BY <3>1, <3>2
  <2>2. \A q \in Pushers : pc'[q] \in {"exchange", "link"} => made'[q] > 0
    BY <1>0, <1>2, <1>4, <1>7 DEF ChainInv
  <2>3. \A q \in Pushers : pc'[q] = "link" =>
          \E k \in 1 .. Len(order) : order[k] = Current(q)' /\ prev[q] = Place(k - 1)
    BY <1>0, <1>6, <1>7 DEF ChainInv
  <2>4. \A q \in Pushers : pc'[q] = "advance" => q = Consumer
    BY <1>0, <1>6, <1>7 DEF ChainInv
  <2> QED
    BY <1>0, <1>1, <1>9, <2>1, <2>2, <2>3, <2>4 DEF ChainInv
<1>14. NextInv' /\ PoppedInv'
  <2>1. pc'[Consumer] = "advance" => pc[Consumer] = "advance"
    BY <1>1, <1>6
  <2> QED
    BY <1>0, <1>1, <1>8, <1>9, <2>1 DEF NextInv, PoppedInv
<1>15. HeapInv'
  <2>1. ASSUME NEW q \in Pushers, NEW m \in 1 .. MaxPushes
        PROVE  heap'[<<q, m>>] = "unborn" <=> m > made'[q]
    <3>0. <<q, m>> \in Node
      BY PushPairs
    <3>1. CASE <<q, m>> = c
      <4>1. q = p /\ m = made[p] + 1
        BY <3>1 DEF c
      <4>2. heap'[<<q, m>>] = "live"
        BY <1>0, <1>3, <1>5, <3>1 DEF TypeOK
      <4>3. ~(m > made'[q])
        BY <1>2, <1>4, <4>1
      <4> QED
        BY <4>2, <4>3
    <3>2. CASE <<q, m>> # c
      <4>1. heap'[<<q, m>>] = heap[<<q, m>>]
        BY <1>0, <1>5, <3>0, <3>2 DEF TypeOK
      <4>2. m > made'[q] <=> m > made[q]
        BY <1>2, <1>4, <1>7, <3>2 DEF c
      <4> QED
        BY <1>0, <4>1, <4>2 DEF HeapInv
    <3> QED
      BY <3>1, <3>2
  <2>2. \A k \in 0 .. Len(order) : heap'[Place(k)] = heap[Place(k)]
    BY <1>0, <1>5, <1>11 DEF TypeOK
  <2>3. ASSUME NEW q \in Pushers, pc'[q] = "exchange" PROVE heap'[Current(q)'] = "live"
    <3>1. CASE q = p
      BY <1>0, <1>3, <1>4, <1>5, <3>1 DEF TypeOK
    <3>2. CASE q # p
      <4>1. pc[q] = "exchange" /\ Current(q)' = Current(q)
        BY <1>7, <2>3, <3>2
      <4>2. Current(q) \in Node /\ heap[Current(q)] = "live"
        BY <1>0, <4>1, CurrentIsPush DEF Node, HeapInv
      <4> QED
        BY <1>0, <1>5, <4>1, <4>2 DEF TypeOK
    <3> QED
      BY <3>1, <3>2
  <2>4. IsFiniteSet(Begun')
    <3>1. Begun' = Begun \union {c}
      BY <1>0, <1>3, <1>5 DEF Begun, TypeOK, Node
    <3> QED
      BY <1>0, <3>1, FS_AddElement DEF HeapInv
  <2> QED
    BY <1>0, <1>1, <1>9, <2>1, <2>2, <2>3, <2>4 DEF HeapInv
<1>16. ClosingInv'
  BY <1>1 DEF ClosingInv
<1>17. KnownInv'
  <2>1. \A t \in Thread : known[t] \subseteq known'[t]
    BY <1>0, <1>5 DEF TypeOK
  <2>2. \A q \in Pushers : pc'[q] \in {"exchange", "link"} => <<"init", Current(q)'>> \in known'[q]
    <3>1. <<"init", c>> \in known'[p]
      BY <1>0, <1>5, <1>6 DEF TypeOK
    <3> QED
      BY <1>0, <1>4, <1>7, <2>1, <3>1 DEF KnownInv, Thread
  <2>3. \A q \in Pushers : pc'[q] = "link" => <<"init", prev[q]>> \in known'[q]
    BY <1>0, <1>6, <1>7, <2>1 DEF KnownInv, Thread
  <2>4. pc'[Consumer] = "advance" => pc[Consumer] = "advance"
    BY <1>1, <1>6
  <2>5. Consumer \in Thread
    BY DEF Thread
  <2> QED
    BY <1>0, <1>1, <2>1, <2>2, <2>3, <2>4, <2>5 DEF KnownInv
<1>18. BeforeInv'
  <2>1. \A n \in Returned : IsInChain(n)
    <3> SUFFICES ASSUME NEW q \in Pushers, NEW m \in 1 .. MaxPushes, <<q, m>> \in Returned
                 PROVE  IsInChain(<<q, m>>)
      BY PushPairs DEF Returned
    <3> QED
      BY <1>0 DEF ChainInv, Returned, Current
  <2>2. \A k \in 1 .. Len(order) : before'[order[k]] = before[order[k]]
    <3>1. \A k \in 1 .. Len(order) : order[k] \in Push /\ order[k] # c
      BY <1>0, <1>10, ChainNodes DEF IsInChain
    <3> QED
      BY <1>0, <1>5, <3>1 DEF TypeOK
  <2>3. ASSUME NEW q \in Pushers, pc'[q] = "exchange", NEW n \in before'[Current(q)']
        PROVE  IsInChain(n)
    <3>1. CASE q = p
      BY <1>0, <1>3, <1>4, <1>5, <2>1, <2>3, <3>1 DEF TypeOK
    <3>2. CASE q # p
      <4>1. pc[q] = "exchange" /\ Current(q)' = Current(q)
        BY <1>7, <2>3, <3>2
      <4>2. Current(q) \in Push /\ Current(q) # c
        BY <1>0, <3>2, <4>1, CurrentIsPush DEF Current, c
      <4> QED
        BY <1>0, <1>5, <2>3, <4>1, <4>2 DEF TypeOK, BeforeInv
    <3> QED
      BY <3>1, <3>2
  <2> QED
    <3>1. \A k \in 1 .. Len(order) : \A n \in before'[order[k]] :
             \E i \in 1 .. k - 1 : order[i] = n
      BY <1>0, <2>2 DEF BeforeInv
    <3> QED
      BY <1>1, <1>9, <2>3, <3>1 DEF BeforeInv
<1> QED
  BY <1>12, <1>13, <1>14, <1>15, <1>16, <1>17, <1>18 DEF QueueInv

\* The exchange: the node takes its place at the end of the chain, not linked yet.
LEMMA PushExchangeStep == ASSUME QueueInv, NEW p \in Pushers, PushExchange(p) PROVE QueueInv'
<1> DEFINE c == Current(p)
<1>0. TypeOK /\ ChainInv /\ NextInv /\ PoppedInv /\ HeapInv /\ ClosingInv /\ KnownInv /\ BeforeInv
  BY DEF QueueInv
<1>1. /\ pc[p] = "exchange" /\ pc' = [pc EXCEPT ![p] = "link"]
      /\ prev' = [prev EXCEPT ![p] = tail_.node] /\ order' = Append(order, c)
      /\ known' = [known EXCEPT ![p] = known[p] \union tail_.carries]
      /\ tail_' = [node |-> c, carries |-> known'[p]]
      /\ UNCHANGED <<head_, next, heap, made, phase, before, popped>>
  BY DEF PushExchange, GoTo, TailExchange, LearnedSet, CarriedSet, AcquireOrders, ReleaseOrders
<1>2. /\ p \in Thread /\ pc'[p] = "link" /\ prev'[p] = tail_.node
      /\ known'[p] = known[p] \union tail_.carries
      /\ \A q \in Thread : q # p => pc'[q] = pc[q] /\ known'[q] = known[q]
      /\ \A q \in Pushers : q # p => prev'[q] = prev[q]
  BY <1>0, <1>1 DEF Thread, TypeOK
<1>3. made[p] \in 1 .. MaxPushes /\ c \in Push /\ c \in Node /\ c # Sentinel
  BY <1>0, <1>1, CurrentIsPush, PushPairs DEF Node
<1>4. \A q \in Pushers : Current(q)' = Current(q) /\ (q # p => Current(q) # c)
  BY <1>1 DEF Current
<1>5. ~IsInChain(c)
  BY <1>0, <1>1, <1>3 DEF ChainInv, Current
<1>n. PICK n \in Nat : n = Len(order)
  BY <1>0, ChainNodes
<1>6. /\ n \in Nat /\ \A k \in 1 .. n : order[k] \in Push /\ Place(k) = order[k]
      /\ \A k \in 0 .. n : Place(k) \in Node
  BY <1>0, <1>n, ChainNodes
<1> HIDE DEF c
<1>7. /\ Len(order') = n + 1 /\ order'[n + 1] = c
      /\ \A k \in 1 .. n : order'[k] = order[k] /\ order[k] # c
  <2>1. order \in Seq(Push)
    BY <1>0 DEF TypeOK
  <2>2. /\ Len(order') = n + 1 /\ order'[n + 1] = c
        /\ \A k \in 1 .. n : order'[k] = order[k]
    BY <1>n, <1>1, <1>3, <2>1, AppendProperties
  <2>3. \A k \in 1 .. n : order[k] # c
    BY <1>n, <1>5 DEF IsInChain
  <2> QED
    BY <2>2, <2>3
<1>8. \A k \in 1 .. n + 1 : k \in 1 .. n \/ k = n + 1
  BY <1>6
<1>9. /\ Place(n + 1)' = c
      /\ \A k \in 0 .. n : Place(k)' = Place(k)
  BY <1>6, <1>7, <1>8 DEF Place
<1>10. \A m \in Push : IsInChain(m)' <=> IsInChain(m) \/ m = c
  BY <1>n, <1>6, <1>7, <1>8 DEF IsInChain
<1>11. Unlinked' = Unlinked \union {n + 1}
  BY <1>0, <1>n, ExchangeEnters
<1>12. phase = "open"
  BY <1>0, <1>1 DEF ClosingInv
<1>13. TypeOK'
  <2>1. order' \in Seq(Push)
    BY <1>0, <1>1, <1>3, AppendProperties DEF TypeOK
  <2>2. known' \in [Thread -> SUBSET ({"init", "link"} \X Node)]
    <3>1. known[p] \union tail_.carries \in SUBSET ({"init", "link"} \X Node)
      BY <1>0, <1>2 DEF TypeOK
    <3> QED
      BY <1>0, <1>1, <3>1 DEF TypeOK
  <2>3. tail_' \in [node : Node, carries : SUBSET ({"init", "link"} \X Node)]
    BY <1>1, <1>2, <1>3, <2>2
  <2>4. prev' \in [Pushers -> Node \union {Null}] /\ pc' \in [Thread -> {"idle", "exchange", "link", "advance"}]
    BY <1>0, <1>1 DEF TypeOK
  <2> QED
    BY <1>0, <1>1, <2>1, <2>2, <2>3, <2>4 DEF TypeOK
<1>14. ChainInv'
  <2>1. \A i, j \in 1 .. n + 1 : order'[i] = order'[j] => i = j
    BY <1>n, <1>0, <1>7, <1>8 DEF ChainInv
  <2>2. ASSUME NEW q \in Pushers, NEW m \in 1 .. MaxPushes
        PROVE  IsInChain(<<q, m>>)' <=> m <= made[q] /\ ~(m = made[q] /\ pc'[q] = "exchange")
    <3>0. <<q, m>> \in Push /\ q \in Thread
      BY PushPairs DEF Thread
    <3>1. CASE q = p /\ m = made[p]
      <4>1. <<q, m>> = c
        BY <3>1 DEF c, Current
      <4> QED
        BY <1>2, <1>3, <1>10, <3>0, <3>1, <4>1
    <3>2. CASE q = p /\ m # made[p]
      <4>1. <<q, m>> # c
        BY <3>2 DEF c, Current
      <4> QED
        BY <1>0, <1>10, <3>0, <3>2, <4>1 DEF ChainInv
    <3>3. CASE q # p
      <4>1. <<q, m>> # c
        BY <3>3 DEF c, Current
      <4> QED
        BY <1>0, <1>2, <1>10, <3>0, <3>3, <4>1 DEF ChainInv
    <3> QED
      BY <3>1, <3>2, <3>3
  <2>3. ASSUME NEW q \in Pushers, pc'[q] = "link"
        PROVE  \E k \in 1 .. n + 1 : order'[k] = Current(q)' /\ prev'[q] = Place(k - 1)'
    <3>1. CASE q = p
      <4>1. prev'[p] = Place(n)' /\ n + 1 \in 1 .. n + 1 /\ n + 1 - 1 = n
        BY <1>n, <1>0, <1>2, <1>6, <1>9 DEF ChainInv
      <4>2. order'[n + 1] = Current(p)'
        BY <1>4, <1>7 DEF c
      <4> QED
        BY <3>1, <4>1, <4>2
    <3>2. CASE q # p
      <4>1. pc[q] = "link" /\ prev'[q] = prev[q] /\ Current(q)' = Current(q)
        BY <1>2, <1>4, <2>3, <3>2 DEF Thread
      <4>2. PICK k \in 1 .. n : order[k] = Current(q) /\ prev[q] = Place(k - 1)
        BY <1>n, <1>0, <4>1 DEF ChainInv
      <4>3. k - 1 \in 0 .. n /\ k \in 1 .. n + 1
        BY <1>6
      <4> QED
        BY <1>7, <1>9, <4>1, <4>2, <4>3
    <3> QED
      BY <3>1, <3>2
  <2>4. \A q \in Pushers : pc'[q] \in {"exchange", "link"} => made[q] > 0
    BY <1>0, <1>2, <1>3 DEF ChainInv, Thread
  <2>5. \A q \in Pushers : pc'[q] = "advance" => q = Consumer
    BY <1>0, <1>2 DEF ChainInv, Thread
  <2> QED
    BY <1>1, <1>7, <1>9, <2>1, <2>2, <2>3, <2>4, <2>5 DEF ChainInv
<1>15. NextInv'
  <2>1. ASSUME NEW k \in 1 .. n + 1
        PROVE  next[Place(k - 1)'].node = IF k \in Unlinked' THEN Null ELSE order'[k]
    <3>1. k - 1 \in 0 .. n
      BY <1>6
    <3>2. CASE k \in 1 .. n
      <4>1. k # n + 1
        BY <1>6, <3>2
      <4> QED
        BY <1>n, <1>0, <1>7, <1>9, <1>11, <3>1, <3>2, <4>1 DEF NextInv
    <3>3. CASE k = n + 1
      <4>1. k - 1 = n
        BY <1>6, <3>3
      <4> QED
        BY <1>n, <1>0, <1>9, <1>11, <3>1, <3>3, <4>1 DEF NextInv, ChainInv
    <3> QED
      BY <1>8, <3>2, <3>3
  <2>2. next[c].node = Null
    BY <1>0, <1>3, <1>5 DEF NextInv
  <2>3. \A m \in Push : ~IsInChain(m)' => next[m].node = Null
    BY <1>0, <1>10 DEF NextInv
  <2> QED
    BY <1>1, <1>7, <2>1, <2>2, <2>3 DEF NextInv
<1>16. PoppedInv'
  <2>1. pc'[Consumer] = "advance" => pc[Consumer] = "advance"
    BY <1>2 DEF Thread
  <2>2. Len(popped) \in Nat /\ Len(popped) <= n
    BY <1>n, <1>0, ChainNodes DEF PoppedInv
  <2>3. Len(popped) \in 0 .. n /\ \A j \in 1 .. Len(popped) : j \in 1 .. n /\ j # n + 1
    BY <1>6, <2>2
  <2>4. \A j \in 1 .. Len(popped) : popped[j] = order'[j] /\ j \notin Unlinked'
    BY <1>0, <1>7, <1>11, <2>3 DEF PoppedInv
  <2>5. head_ = Place(Len(popped))'
    <3>1. PICK g \in 0 .. n : g = Len(popped)
      BY <2>3
    <3>2. head_ = Place(g) /\ g = Len(popped')
      BY <1>0, <1>1, <3>1 DEF PoppedInv
    <3> QED
      BY <1>9, <3>1, <3>2
  <2>6. pc'[Consumer] = "advance" => Len(popped) < n + 1 /\ Len(popped) + 1 \notin Unlinked'
    <3>1. pc'[Consumer] = "advance" => Len(popped) < n /\ Len(popped) + 1 \notin Unlinked
      BY <1>n, <1>0, <2>1 DEF PoppedInv
    <3>2. Len(popped) < n => Len(popped) + 1 # n + 1 /\ Len(popped) < n + 1
      BY <1>6, <2>2
    <3> QED
      BY <1>11, <3>1, <3>2
  <2>7. Len(popped) <= n + 1
    BY <1>6, <2>2
  <2> QED
    BY <1>1, <1>7, <2>4, <2>5, <2>6, <2>7 DEF PoppedInv
<1>17. HeapInv'
  <2>1. ASSUME NEW k \in 0 .. n + 1
        PROVE  heap[Place(k)'] = IF k < Len(popped) \/ phase = "destroyed" THEN "freed" ELSE "live"
    <3>1. CASE k \in 0 .. n
      BY <1>n, <1>0, <1>9, <3>1 DEF HeapInv
    <3>2. CASE k = n + 1
      <4>1. Len(popped) \in Nat /\ Len(popped) <= n
        BY <1>n, <1>0, ChainNodes DEF PoppedInv
      <4>2. ~(n + 1 < Len(popped))
        BY <1>6, <4>1
      <4>3. heap[c] = "live"
        BY <1>0, <1>1 DEF HeapInv, c
      <4> QED
        BY <1>9, <1>12, <3>2, <4>2, <4>3
    <3> QED
      BY <1>6, <3>1, <3>2
  <2>2. \A q \in Pushers : pc'[q] = "exchange" => heap[Current(q)'] = "live"
    BY <1>0, <1>2, <1>4 DEF HeapInv, Thread
  <2>3. UNCHANGED Begun
    BY <1>1 DEF Begun
  <2> QED
    BY <1>0, <1>1, <1>7, <2>1, <2>2, <2>3 DEF HeapInv
<1>18. ClosingInv'
  BY <1>1, <1>12 DEF ClosingInv
<1>19. KnownInv'
  <2>1. \A t \in Thread : known[t] \subseteq known'[t]
    BY <1>2
  <2>2. \A q \in Pushers : pc'[q] \in {"exchange", "link"} => <<"init", Current(q)'>> \in known'[q]
    BY <1>0, <1>1, <1>2, <1>4, <2>1 DEF KnownInv, Thread
  <2>3. \A q \in Pushers : pc'[q] = "link" => <<"init", prev'[q]>> \in known'[q]
    <3>1. <<"init", tail_.node>> \in known'[p]
      BY <1>0, <1>2, <2>1 DEF KnownInv
    <3> QED
      BY <1>0, <1>2, <2>1, <3>1 DEF KnownInv, Thread
  <2>4. <<"init", c>> \in known'[p]
    BY <1>0, <1>1, <1>2, <2>1 DEF KnownInv, c
  <2>5. pc'[Consumer] = "advance" => pc[Consumer] = "advance"
    BY <1>2 DEF Thread
  <2>6. Consumer \in Thread
    BY DEF Thread
  <2> QED
    BY <1>0, <1>1, <2>1, <2>2, <2>3, <2>4, <2>5, <2>6 DEF KnownInv
<1>20. BeforeInv'
  <2>1. ASSUME NEW k \in 1 .. n + 1, NEW m \in before[order'[k]]
        PROVE  \E i \in 1 .. k - 1 : order'[i] = m
    <3>1. CASE k \in 1 .. n
      <4>1. PICK i \in 1 .. k - 1 : order[i] = m
        BY <1>n, <1>0, <1>7, <2>1, <3>1 DEF BeforeInv
      <4>2. i \in 1 .. n
        BY <1>6, <3>1
      <4> QED
        BY <1>7, <4>1, <4>2
    <3>2. CASE k = n + 1
      <4>1. PICK i \in 1 .. n : order[i] = m
        BY <1>n, <1>0, <1>1, <1>7, <2>1, <3>2 DEF BeforeInv, IsInChain, c
      <4>2. i \in 1 .. k - 1
        BY <1>6, <3>2
      <4> QED
        BY <1>7, <4>1, <4>2
    <3> QED
      BY <1>8, <3>1, <3>2
  <2>2. ASSUME NEW q \in Pushers, pc'[q] = "exchange", NEW m \in before[Current(q)']
        PROVE  IsInChain(m)'
    <3>1. pc[q] = "exchange" /\ Current(q)' = Current(q)
      BY <1>2, <1>4, <2>2 DEF Thread
    <3>2. m \in Push
      BY <1>0, <2>2, <3>1, CurrentIsPush DEF TypeOK
    <3> QED
      BY <1>0, <1>10, <2>2, <3>1, <3>2 DEF BeforeInv
  <2> QED
    BY <1>1, <1>7, <2>1, <2>2 DEF BeforeInv
<1> QED
  BY <1>13, <1>14, <1>15, <1>16, <1>17, <1>18, <1>19, <1>20 DEF QueueInv

\* The link: the place of the push is linked now, and the consumer cannot be there yet.
LEMMA PushLinkStep == ASSUME QueueInv, NEW p \in Pushers, PushLink(p) PROVE QueueInv'
<1> DEFINE c == Current(p)
<1>0. TypeOK /\ ChainInv /\ NextInv /\ PoppedInv /\ HeapInv /\ ClosingInv /\ KnownInv /\ BeforeInv
  BY DEF QueueInv
<1>1. /\ pc[p] = "link" /\ pc' = [pc EXCEPT ![p] = "idle"]
      /\ known' = [known EXCEPT ![p] = known[p] \union {<<"link", prev[p]>>}]
      /\ next' = [next EXCEPT ![prev[p]] = [node |-> c, carries |-> known'[p]]]
      /\ UNCHANGED <<tail_, head_, heap, made, prev, phase, order, before, popped>>
  BY DEF PushLink, GoTo, LinkStore, CarriedSet, ReleaseOrders
<1>2. /\ p \in Thread /\ pc'[p] = "idle"
      /\ known'[p] = known[p] \union {<<"link", prev[p]>>}
      /\ \A q \in Thread : q # p => pc'[q] = pc[q] /\ known'[q] = known[q]
  BY <1>0, <1>1 DEF Thread, TypeOK
<1>3. c \in Push /\ c \in Node /\ c # Null
  BY <1>0, <1>1, CurrentIsPush, PushPairs DEF Node
<1>4. \A q \in Pushers : Current(q)' = Current(q) /\ (q # p => Current(q) # c)
  BY <1>1 DEF Current
<1>n. PICK n \in Nat : n = Len(order)
  BY <1>0, ChainNodes
<1>g. PICK g \in Nat : g = Len(popped) /\ g <= n
  BY <1>0, <1>n, ChainNodes DEF PoppedInv
<1>5. PICK k \in 1 .. n : /\ order[k] = c /\ prev[p] = Place(k - 1)
                          /\ k \in Unlinked /\ Unlinked' = Unlinked \ {k}
  BY <1>0, <1>n, StoreLinks
<1> HIDE DEF c
<1>6. /\ k - 1 \in 0 .. n /\ k - 1 # n /\ prev[p] \in Node
      /\ \A j \in 1 .. n : j - 1 \in 0 .. n /\ (j # k => j - 1 # k - 1)
  BY <1>0, <1>n, <1>5, ChainNodes
<1>7. (\A j : Place(j)' = Place(j)) /\ (\A m : IsInChain(m)' <=> IsInChain(m))
  BY <1>1, ChainStays
<1>8. \A j \in 0 .. n : j # k - 1 => Place(j) # prev[p]
  BY <1>0, <1>n, <1>5, <1>6, ChainNodes
<1>9. k \in Unlinked /\ Unlinked' = Unlinked \ {k}
  BY <1>5
<1>10. g <= k - 1
  <2>1. \A j \in 1 .. g : j # k
    BY <1>0, <1>g, <1>9 DEF PoppedInv
  <2> QED
    BY <1>5, <1>g, <2>1
<1>11. /\ next'[prev[p]].node = c /\ next'[prev[p]].carries = known'[p]
       /\ \A m \in Node : m # prev[p] => next'[m] = next[m]
  BY <1>0, <1>1, <1>6 DEF TypeOK
<1>12. TypeOK'
  <2>1. known'[p] \in SUBSET ({"init", "link"} \X Node)
    BY <1>0, <1>2, <1>6 DEF TypeOK
  <2>2. known' \in [Thread -> SUBSET ({"init", "link"} \X Node)]
    BY <1>0, <1>1, <1>2, <2>1 DEF TypeOK
  <2>3. [node |-> c, carries |-> known'[p]]
          \in [node : Node \union {Null}, carries : SUBSET ({"init", "link"} \X Node)]
    BY <1>3, <2>1
  <2>4. next' \in [Node -> [node : Node \union {Null}, carries : SUBSET ({"init", "link"} \X Node)]]
    BY <1>0, <1>1, <1>6, <2>3 DEF TypeOK
  <2>5. pc' \in [Thread -> {"idle", "exchange", "link", "advance"}]
    BY <1>0, <1>1 DEF TypeOK
  <2> QED
    BY <1>0, <1>1, <2>2, <2>4, <2>5 DEF TypeOK
<1>13. ChainInv'
  <2>1. \A q \in Pushers, m \in 1 .. MaxPushes :
          IsInChain(<<q, m>>)' <=> m <= made[q] /\ ~(m = made[q] /\ pc'[q] = "exchange")
    BY <1>0, <1>1, <1>2, <1>7 DEF ChainInv, Thread
  <2>2. \A q \in Pushers : pc'[q] \in {"exchange", "link"} => made[q] > 0
    BY <1>0, <1>2 DEF ChainInv, Thread
  <2>3. \A q \in Pushers : pc'[q] = "link" =>
          \E j \in 1 .. Len(order) : order[j] = Current(q)' /\ prev[q] = Place(j - 1)
    BY <1>0, <1>2, <1>4 DEF ChainInv, Thread
  <2>4. \A q \in Pushers : pc'[q] = "advance" => q = Consumer
    BY <1>0, <1>2 DEF ChainInv, Thread
  <2> QED
    BY <1>0, <1>1, <1>7, <2>1, <2>2, <2>3, <2>4 DEF ChainInv
<1>14. NextInv'
  <2>1. ASSUME NEW j \in 1 .. n
        PROVE  next'[Place(j - 1)].node = IF j \in Unlinked' THEN Null ELSE order[j]
    <3>1. CASE j = k
      BY <1>5, <1>9, <1>11, <3>1
    <3>2. CASE j # k
      <4>1. Place(j - 1) # prev[p] /\ Place(j - 1) \in Node
        BY <1>0, <1>n, <1>6, <1>8, <3>2, ChainNodes
      <4> QED
        BY <1>0, <1>n, <1>9, <1>11, <3>2, <4>1 DEF NextInv
    <3> QED
      BY <3>1, <3>2
  <2>2. next'[tail_.node].node = Null
    <3>1. tail_.node = Place(n) /\ n \in 0 .. n /\ tail_.node \in Node
      BY <1>0, <1>n DEF ChainInv, TypeOK
    <3>2. tail_.node # prev[p]
      BY <1>6, <1>8, <3>1
    <3> QED
      BY <1>0, <1>11, <3>1, <3>2 DEF NextInv
  <2>3. \A m \in Push : ~IsInChain(m) => next'[m].node = Null
    <3>1. prev[p] = Sentinel \/ IsInChain(prev[p])
      BY <1>0, <1>n, <1>5, <1>6, ChainNodes
    <3>2. \A m \in Push : ~IsInChain(m) => m # prev[p] /\ m \in Node
      BY <3>1, PushPairs DEF Node
    <3> QED
      BY <1>0, <1>11, <3>2 DEF NextInv
  <2> QED
    BY <1>n, <1>1, <1>7, <2>1, <2>2, <2>3 DEF NextInv
<1>15. PoppedInv'
  <2>1. pc'[Consumer] = "advance" => pc[Consumer] = "advance"
    BY <1>2 DEF Thread
  <2> QED
    BY <1>0, <1>1, <1>7, <1>9, <2>1 DEF PoppedInv
<1>16. HeapInv'
  <2>1. \A q \in Pushers : pc'[q] = "exchange" => heap[Current(q)'] = "live"
    BY <1>0, <1>2, <1>4 DEF HeapInv, Thread
  <2>2. UNCHANGED Begun
    BY <1>1 DEF Begun
  <2> QED
    BY <1>0, <1>1, <1>7, <2>1, <2>2 DEF HeapInv
<1>17. ClosingInv'
  BY <1>0, <1>1 DEF ClosingInv
<1>18. KnownInv'
  <2>1. \A t \in Thread : known[t] \subseteq known'[t]
    BY <1>2
  <2>2. \A q \in Pushers : pc'[q] \in {"exchange", "link"} =>
          pc[q] \in {"exchange", "link"} /\ (pc'[q] = "link" => pc[q] = "link")
    BY <1>2 DEF Thread
  <2>3. \A q \in Pushers :
          /\ pc'[q] \in {"exchange", "link"} => <<"init", Current(q)'>> \in known'[q]
          /\ pc'[q] = "link" => <<"init", prev[q]>> \in known'[q]
    BY <1>0, <1>4, <2>1, <2>2 DEF KnownInv, Thread
  <2>4. Consumer \in Thread /\ phase = "open"
    BY <1>0, <1>1 DEF Thread, ClosingInv
  <2>5. ASSUME NEW m \in Node, next'[m].node # Null
        PROVE  /\ {<<"init", m>>, <<"link", m>>, <<"init", next'[m].node>>} \subseteq next'[m].carries
               /\ \E t \in Thread : <<"link", m>> \in known'[t]
    <3>1. CASE m = prev[p]
      <4>1. <<"init", prev[p]>> \in known'[p] /\ <<"init", c>> \in known'[p]
        BY <1>0, <1>1, <1>2, <2>1 DEF KnownInv, c
      <4>2. <<"link", prev[p]>> \in known'[p]
        BY <1>2
      <4> QED
        BY <1>2, <1>11, <3>1, <4>1, <4>2
    <3>2. CASE m # prev[p]
      <4>1. next'[m] = next[m]
        BY <1>11, <3>2
      <4> QED
        BY <1>0, <2>1, <2>5, <4>1 DEF KnownInv
    <3> QED
      BY <3>1, <3>2
  <2>6. pc'[Consumer] = "advance" => next'[head_].carries \subseteq known'[Consumer]
    <3> SUFFICES ASSUME pc'[Consumer] = "advance" PROVE next'[head_].carries \subseteq known'[Consumer]
      OBVIOUS
    <3>1. pc[Consumer] = "advance"
      BY <1>2, <2>4
    <3>2. head_ = Place(g) /\ g < n /\ g + 1 \notin Unlinked /\ head_ \in Node
      BY <1>0, <1>n, <1>g, <3>1 DEF PoppedInv, TypeOK
    <3>3. g # k - 1 /\ g \in 0 .. n
      BY <1>5, <1>9, <3>2
    <3>4. next'[head_] = next[head_]
      BY <1>8, <1>11, <3>2, <3>3
    <3> QED
      BY <1>0, <2>1, <2>4, <3>1, <3>4 DEF KnownInv
  <2> QED
    BY <1>0, <1>1, <2>1, <2>3, <2>4, <2>5, <2>6 DEF KnownInv
<1>19. BeforeInv'
  BY <1>0, <1>1, <1>2, <1>4, <1>7 DEF BeforeInv, Thread
<1> QED
  BY <1>12, <1>13, <1>14, <1>15, <1>16, <1>17, <1>18, <1>19 DEF QueueInv

\* The load of a link that has been made.
LEMMA PopLoadStep == ASSUME QueueInv, PopLoad PROVE QueueInv'
<1>0. TypeOK /\ ChainInv /\ NextInv /\ PoppedInv /\ HeapInv /\ ClosingInv /\ KnownInv /\ BeforeInv
  BY DEF QueueInv
<1>1. /\ pc[Consumer] = "idle" /\ pc' = [pc EXCEPT ![Consumer] = "advance"]
      /\ phase # "destroyed" /\ next[head_].node # Null
      /\ known' = [known EXCEPT ![Consumer] = known[Consumer] \union next[head_].carries]
      /\ UNCHANGED <<tail_, head_, next, heap, made, prev, phase, order, before, popped>>
  BY DEF PopLoad, GoTo, NextLoad, LearnedSet, AcquireOrders
<1>2. /\ Consumer \in Thread /\ pc'[Consumer] = "advance"
      /\ known'[Consumer] = known[Consumer] \union next[head_].carries
      /\ \A q \in Thread : q # Consumer => pc'[q] = pc[q] /\ known'[q] = known[q]
  BY <1>0, <1>1 DEF Thread, TypeOK
<1>n. PICK n \in Nat : n = Len(order)
  BY <1>0, ChainNodes
<1>g. PICK g \in Nat : g = Len(popped) /\ g <= n
  BY <1>0, <1>n, ChainNodes DEF PoppedInv
<1>3. (\A j : Place(j)' = Place(j)) /\ (\A m : IsInChain(m)' <=> IsInChain(m))
  BY <1>1, ChainStays
<1>4. \A q \in Pushers : /\ pc'[q] \in {"exchange", "link"} <=> pc[q] \in {"exchange", "link"}
                         /\ pc'[q] = "link" <=> pc[q] = "link"
                         /\ pc'[q] = "exchange" <=> pc[q] = "exchange"
                         /\ Current(q)' = Current(q)
  BY <1>1, <1>2 DEF Thread, Current
<1>5. UNCHANGED Unlinked
  BY <1>1, <1>4, UnlinkedStays
<1>6. TypeOK'
  <2>1. known[Consumer] \union next[head_].carries \in SUBSET ({"init", "link"} \X Node)
    BY <1>0, <1>2 DEF TypeOK
  <2>2. known' \in [Thread -> SUBSET ({"init", "link"} \X Node)]
    BY <1>0, <1>1, <2>1 DEF TypeOK
  <2>3. pc' \in [Thread -> {"idle", "exchange", "link", "advance"}]
    BY <1>0, <1>1 DEF TypeOK
  <2> QED
    BY <1>0, <1>1, <2>2, <2>3 DEF TypeOK
<1>7. ChainInv'
  <2>1. \A q \in Pushers : pc'[q] = "advance" => q = Consumer
    BY <1>0, <1>2 DEF ChainInv, Thread
  <2> QED
    BY <1>0, <1>1, <1>3, <1>4, <2>1 DEF ChainInv
<1>8. NextInv'
  BY <1>0, <1>1, <1>3, <1>5 DEF NextInv
<1>9. PoppedInv'
  <2>1. head_ = Place(g)
    BY <1>0, <1>g DEF PoppedInv
  <2>2. g # n
    BY <1>0, <1>n, <1>1, <2>1 DEF NextInv, ChainInv
  <2>3. g < n /\ g + 1 \in 1 .. n /\ g + 1 - 1 = g
    BY <1>g, <2>2
  <2>4. g + 1 \notin Unlinked
    BY <1>0, <1>n, <1>1, <2>1, <2>3 DEF NextInv
  <2> QED
    BY <1>0, <1>n, <1>g, <1>1, <1>3, <1>5, <2>3, <2>4 DEF PoppedInv
<1>10. HeapInv'
  <2>1. UNCHANGED Begun
    BY <1>1 DEF Begun
  <2> QED
    BY <1>0, <1>1, <1>3, <1>4, <2>1 DEF HeapInv
<1>11. ClosingInv'
  BY <1>0, <1>1, <1>4 DEF ClosingInv
<1>12. KnownInv'
  <2>1. \A t \in Thread : known[t] \subseteq known'[t]
    BY <1>2
  <2>2. next[head_].carries \subseteq known'[Consumer]
    BY <1>2
  <2>3. \A q \in Pushers :
          /\ pc'[q] \in {"exchange", "link"} => <<"init", Current(q)'>> \in known'[q]
          /\ pc'[q] = "link" => <<"init", prev[q]>> \in known'[q]
    BY <1>0, <1>4, <2>1 DEF KnownInv, Thread
  <2> QED
    BY <1>0, <1>1, <1>2, <2>1, <2>2, <2>3 DEF KnownInv
<1>13. BeforeInv'
  BY <1>0, <1>1, <1>3, <1>4 DEF BeforeInv
<1> QED
  BY <1>6, <1>7, <1>8, <1>9, <1>10, <1>11, <1>12, <1>13 DEF QueueInv

\* The consumer moves one place along the chain and deletes the node it leaves.
LEMMA PopAdvanceStep == ASSUME QueueInv, PopAdvance PROVE QueueInv'
<1>0. TypeOK /\ ChainInv /\ NextInv /\ PoppedInv /\ HeapInv /\ ClosingInv /\ KnownInv /\ BeforeInv
  BY DEF QueueInv
<1>1. /\ pc[Consumer] = "advance" /\ pc' = [pc EXCEPT ![Consumer] = "idle"]
      /\ head_' = next[head_].node /\ popped' = Append(popped, head_')
      /\ heap' = [heap EXCEPT ![head_] = "freed"]
      /\ UNCHANGED <<tail_, next, made, prev, known, phase, order, before>>
  BY DEF PopAdvance, GoTo
<1>2. /\ Consumer \in Thread /\ pc'[Consumer] = "idle"
      /\ \A q \in Thread : q # Consumer => pc'[q] = pc[q]
  BY <1>0, <1>1 DEF Thread, TypeOK
<1>n. PICK n \in Nat : n = Len(order)
  BY <1>0, ChainNodes
<1>g. PICK g \in Nat : g = Len(popped) /\ g < n
  BY <1>0, <1>1, <1>n, ChainNodes DEF PoppedInv
<1>3. (\A j : Place(j)' = Place(j)) /\ (\A m : IsInChain(m)' <=> IsInChain(m))
  BY <1>1, ChainStays
<1>4. \A q \in Pushers : /\ pc'[q] = "link" <=> pc[q] = "link"
                         /\ pc'[q] = "exchange" <=> pc[q] = "exchange"
                         /\ Current(q)' = Current(q)
  BY <1>1, <1>2 DEF Thread, Current
<1>5. UNCHANGED Unlinked
  BY <1>1, <1>4, UnlinkedStays
<1>6. /\ g + 1 \in 1 .. n /\ g + 1 - 1 = g /\ g \in 0 .. n
      /\ head_ = Place(g) /\ g + 1 \notin Unlinked
  BY <1>0, <1>n, <1>g, <1>1 DEF PoppedInv
<1>7. head_' = order[g + 1] /\ head_' = Place(g + 1) /\ head_' \in Push
  <2>1. next[Place(g)].node = order[g + 1]
    BY <1>0, <1>n, <1>6 DEF NextInv
  <2>2. order[g + 1] \in Push /\ Place(g + 1) = order[g + 1]
    BY <1>0, <1>n, <1>6, ChainNodes
  <2> QED
    BY <1>1, <1>6, <2>1, <2>2
<1>8. /\ Len(popped') = g + 1 /\ popped'[g + 1] = order[g + 1]
      /\ \A j \in 1 .. g : popped'[j] = popped[j]
      /\ \A j \in 1 .. g + 1 : j \in 1 .. g \/ j = g + 1
  <2>1. popped \in Seq(Push)
    BY <1>0 DEF TypeOK
  <2> QED
    BY <1>g, <1>1, <1>7, <2>1, AppendProperties
<1>9. /\ \A k \in 0 .. n : Place(k) \in Node /\ (k # g => Place(k) # head_)
      /\ heap'[head_] = "freed" /\ \A m \in Node : m # head_ => heap'[m] = heap[m]
      /\ heap[head_] # "unborn"
  <2>1. \A k \in 0 .. n : Place(k) \in Node /\ (k # g => Place(k) # head_)
    BY <1>0, <1>n, <1>6, ChainNodes
  <2>2. head_ \in Node /\ heap \in [Node -> {"unborn", "live", "freed"}]
    BY <1>0 DEF TypeOK
  <2>3. heap[head_] # "unborn"
    BY <1>0, <1>n, <1>6 DEF HeapInv
  <2> QED
    BY <1>1, <2>1, <2>2, <2>3
<1>10. TypeOK'
  <2>1. popped' \in Seq(Push) /\ head_' \in Node
    BY <1>0, <1>1, <1>7, AppendProperties DEF TypeOK, Node
  <2>2. heap' \in [Node -> {"unborn", "live", "freed"}]
        /\ pc' \in [Thread -> {"idle", "exchange", "link", "advance"}]
    BY <1>0, <1>1 DEF TypeOK
  <2> QED
    BY <1>0, <1>1, <2>1, <2>2 DEF TypeOK
<1>11. ChainInv'
  <2>1. \A q \in Pushers : pc'[q] = "advance" => q = Consumer
    BY <1>0, <1>2 DEF ChainInv, Thread
  <2>2. \A q \in Pushers : pc'[q] \in {"exchange", "link"} => made[q] > 0
    BY <1>0, <1>4 DEF ChainInv
  <2> QED
    BY <1>0, <1>1, <1>3, <1>4, <2>1, <2>2 DEF ChainInv
<1>12. NextInv'
  BY <1>0, <1>1, <1>3, <1>5 DEF NextInv
<1>13. PoppedInv'
  <2>1. \A j \in 1 .. g + 1 : popped'[j] = order[j] /\ j \notin Unlinked
    BY <1>0, <1>g, <1>6, <1>8 DEF PoppedInv
  <2>2. g + 1 <= n
    BY <1>g
  <2> QED
    BY <1>n, <1>1, <1>2, <1>3, <1>5, <1>7, <1>8, <2>1, <2>2 DEF PoppedInv
<1>14. HeapInv'
  <2>1. \A q \in Pushers, m \in 1 .. MaxPushes : heap'[<<q, m>>] = "unborn" <=> heap[<<q, m>>] = "unborn"
    BY <1>9, PushPairs
  <2>2. ASSUME NEW k \in 0 .. n
        PROVE  heap'[Place(k)] = IF k < g + 1 \/ phase = "destroyed" THEN "freed" ELSE "live"
    <3>1. CASE k = g
      BY <1>6, <1>9, <3>1
    <3>2. CASE k # g
      <4>1. k < g + 1 <=> k < g
        BY <1>g, <3>2
      <4>2. heap'[Place(k)] = heap[Place(k)]
        BY <1>9, <3>2
      <4> QED
        BY <1>0, <1>n, <1>g, <4>1, <4>2 DEF HeapInv
    <3> QED
      BY <3>1, <3>2
  <2>3. ASSUME NEW q \in Pushers, pc'[q] = "exchange" PROVE heap'[Current(q)'] = "live"
    <3>1. pc[q] = "exchange" /\ Current(q)' = Current(q)
      BY <1>4, <2>3
    <3>2. ~IsInChain(Current(q)) /\ Current(q) \in Push /\ Current(q) \in Node
      BY <1>0, <3>1, CurrentIsPush DEF ChainInv, Current, Node
    <3>3. Current(q) # head_
      BY <1>0, <1>n, <1>6, <3>2, ChainNodes, PushPairs
    <3> QED
      BY <1>0, <1>9, <3>1, <3>2, <3>3 DEF HeapInv
  <2>4. UNCHANGED Begun
    <3>1. \A m \in Push : heap'[m] = "unborn" <=> heap[m] = "unborn"
      BY <1>9 DEF Node
    <3> QED
      BY <3>1 DEF Begun
  <2> QED
    BY <1>0, <1>n, <1>1, <1>3, <1>8, <2>1, <2>2, <2>3, <2>4 DEF HeapInv
<1>15. ClosingInv'
  BY <1>0, <1>1, <1>4 DEF ClosingInv
<1>16. KnownInv'
  BY <1>0, <1>1, <1>2, <1>4 DEF KnownInv
<1>17. BeforeInv'
  BY <1>0, <1>1, <1>3, <1>4 DEF BeforeInv
<1> QED
  BY <1>10, <1>11, <1>12, <1>13, <1>14, <1>15, <1>16, <1>17 DEF QueueInv

\* The destructor's thread knows all the links.
LEMMA DestroyBeginStep == ASSUME QueueInv, DestroyBegin PROVE QueueInv'
<1>0. TypeOK /\ ChainInv /\ NextInv /\ PoppedInv /\ HeapInv /\ ClosingInv /\ KnownInv /\ BeforeInv
  BY DEF QueueInv
<1>1. /\ phase = "open" /\ phase' = "closing" /\ \A t \in Thread : pc[t] = "idle"
      /\ known' = [known EXCEPT ![Consumer] = UNION {known[t] : t \in Thread}]
      /\ UNCHANGED <<tail_, head_, next, heap, pc, made, prev, order, before, popped>>
  BY DEF DestroyBegin
<1>2. /\ Consumer \in Thread /\ known'[Consumer] = UNION {known[t] : t \in Thread}
      /\ \A q \in Thread : q # Consumer => known'[q] = known[q]
      /\ \A q \in Pushers : q \in Thread /\ pc[q] = "idle"
  BY <1>0, <1>1 DEF Thread, TypeOK
<1>3. /\ \A j : Place(j)' = Place(j)
      /\ \A m : IsInChain(m)' <=> IsInChain(m)
      /\ \A q \in Pushers : Current(q)' = Current(q)
      /\ UNCHANGED <<Unlinked, Begun>>
  BY <1>1, ChainStays, UnlinkedStays DEF Current, Begun
<1>4. TypeOK'
  <2>1. UNION {known[t] : t \in Thread} \in SUBSET ({"init", "link"} \X Node)
    BY <1>0 DEF TypeOK
  <2>2. known' \in [Thread -> SUBSET ({"init", "link"} \X Node)]
    BY <1>0, <1>1, <2>1 DEF TypeOK
  <2> QED
    BY <1>0, <1>1, <2>2 DEF TypeOK
<1>5. ChainInv' /\ NextInv' /\ PoppedInv' /\ BeforeInv'
  BY <1>0, <1>1, <1>3 DEF ChainInv, NextInv, PoppedInv, BeforeInv
<1>6. HeapInv' /\ ClosingInv'
  BY <1>0, <1>1, <1>2, <1>3 DEF HeapInv, ClosingInv
<1>7. KnownInv'
  <2>1. \A t \in Thread : known[t] \subseteq known'[t] /\ known[t] \subseteq known'[Consumer]
    BY <1>2
  <2> QED
    BY <1>0, <1>1, <1>2, <1>3, <2>1 DEF KnownInv
<1> QED
  BY <1>4, <1>5, <1>6, <1>7 DEF QueueInv

\* The destructor's last pop() has reached the end of the chain, as it knows every link.
LEMMA DestroyEndStep == ASSUME QueueInv, DestroyEnd PROVE QueueInv'
<1>0. TypeOK /\ ChainInv /\ NextInv /\ PoppedInv /\ HeapInv /\ ClosingInv /\ KnownInv /\ BeforeInv
  BY DEF QueueInv
<1>1. /\ phase = "closing" /\ phase' = "destroyed" /\ pc[Consumer] = "idle" /\ LoadsNull
      /\ heap' = [heap EXCEPT ![head_] = "freed"]
      /\ UNCHANGED <<tail_, head_, next, pc, made, prev, known, order, before, popped>>
  BY DEF DestroyEnd
<1>2. \A q \in Pushers : pc[q] \notin {"exchange", "link"}
  BY <1>0, <1>1 DEF ClosingInv
<1>3. /\ \A j : Place(j)' = Place(j)
      /\ \A m : IsInChain(m)' <=> IsInChain(m)
      /\ UNCHANGED Unlinked
  BY <1>1, ChainStays, UnlinkedStays
<1>n. PICK n \in Nat : n = Len(order)
  BY <1>0, ChainNodes
<1>g. PICK g \in Nat : g = Len(popped) /\ g <= n
  BY <1>0, <1>n, ChainNodes DEF PoppedInv
<1>4. head_ = Place(g) /\ g \in 0 .. n /\ head_ \in Node
  BY <1>0, <1>g DEF PoppedInv, TypeOK
<1>5. next[head_].node = Null
  BY <1>0, <1>1, <1>4 DEF LoadsNull, KnownInv
<1>6. g = n
  <2> SUFFICES ASSUME g # n PROVE FALSE
    OBVIOUS
  <2>1. g + 1 \in 1 .. n /\ g + 1 - 1 = g
    BY <1>g
  <2>2. g + 1 \notin Unlinked
    BY <1>2 DEF Unlinked
  <2>3. next[Place(g)].node = order[g + 1]
    BY <1>0, <1>n, <2>1, <2>2 DEF NextInv
  <2>4. order[g + 1] \in Node
    BY <1>0, <1>n, <2>1, ChainNodes DEF Node
  <2> QED
    BY <1>4, <1>5, <2>3, <2>4, PushPairs
<1>7. heap'[head_] = "freed" /\ \A m \in Node : m # head_ => heap'[m] = heap[m]
  BY <1>0, <1>1, <1>4 DEF TypeOK
<1>8. \A k \in 0 .. n : heap'[Place(k)] = "freed"
  <2> SUFFICES ASSUME NEW k \in 0 .. n PROVE heap'[Place(k)] = "freed"
    OBVIOUS
  <2>1. CASE k = n
    BY <1>4, <1>6, <1>7, <2>1
  <2>2. CASE k # n
    <3>1. k < g /\ Place(k) \in Node
      BY <1>0, <1>n, <1>6, <2>2, ChainNodes
    <3>2. heap[Place(k)] = "freed"
      BY <1>0, <1>n, <1>g, <3>1 DEF HeapInv
    <3> QED
      BY <1>7, <3>1, <3>2
  <2> QED
    BY <2>1, <2>2
<1>9. heap[head_] = "live"
  BY <1>0, <1>n, <1>g, <1>1, <1>4 DEF HeapInv
<1>10. TypeOK'
  <2>1. heap' \in [Node -> {"unborn", "live", "freed"}]
    BY <1>0, <1>1 DEF TypeOK
  <2> QED
    BY <1>0, <1>1, <2>1 DEF TypeOK
<1>11. ChainInv' /\ NextInv' /\ PoppedInv' /\ BeforeInv'
  <2>0. \A q \in Pushers : Current(q)' = Current(q)
    BY <1>1 DEF Current
  <2>1. ChainInv'
    BY <1>0, <1>1, <1>3, <2>0 DEF ChainInv
  <2>2. NextInv' /\ PoppedInv'
    BY <1>0, <1>1, <1>3 DEF NextInv, PoppedInv
  <2>3. BeforeInv'
    BY <1>0, <1>1, <1>3, <2>0 DEF BeforeInv
  <2> QED
    BY <2>1, <2>2, <2>3
<1>12. HeapInv'
  <2>1. \A q \in Pushers, m \in 1 .. MaxPushes : heap'[<<q, m>>] = "unborn" <=> heap[<<q, m>>] = "unborn"
    BY <1>7, <1>9, PushPairs
  <2>2. UNCHANGED Begun
    <3>1. \A m \in Push : heap'[m] = "unborn" <=> heap[m] = "unborn"
      BY <1>7, <1>9 DEF Node
    <3> QED
      BY <3>1 DEF Begun
  <2> QED
    BY <1>0, <1>n, <1>1, <1>2, <1>3, <1>8, <2>1, <2>2 DEF HeapInv
<1>13. ClosingInv'
  BY <1>n, <1>g, <1>1, <1>2, <1>6 DEF ClosingInv
<1>14. KnownInv'
  BY <1>0, <1>1 DEF KnownInv, Current
<1> QED
  BY <1>10, <1>11, <1>12, <1>13, <1>14 DEF QueueInv

\* A stuttering step.
LEMMA StutterStep == ASSUME QueueInv, UNCHANGED vars PROVE QueueInv'
<1> USE DEF vars
<1>1. /\ \A j : Place(j)' = Place(j)
      /\ \A m : IsInChain(m)' <=> IsInChain(m)
      /\ \A q \in Pushers : Current(q)' = Current(q)
      /\ UNCHANGED <<Unlinked, Begun>>
  BY ChainStays, UnlinkedStays DEF Current, Begun
<1>2. TypeOK' /\ ChainInv' /\ NextInv' /\ PoppedInv'
  BY <1>1 DEF QueueInv, TypeOK, ChainInv, NextInv, PoppedInv
<1>3. HeapInv' /\ ClosingInv' /\ KnownInv' /\ BeforeInv'
  BY <1>1 DEF QueueInv, HeapInv, ClosingInv, KnownInv, BeforeInv
<1> QED
  BY <1>2, <1>3 DEF QueueInv

\* The invariant holds throughout.
LEMMA Invariance == Spec => []QueueInv
<1>1. ASSUME QueueInv, [Next]_vars PROVE QueueInv'
  BY <1>1, PushNewStep, PushExchangeStep, PushLinkStep, PopLoadStep, PopAdvanceStep,
     DestroyBeginStep, DestroyEndStep, StutterStep DEF Next, PopEmpty
<1> QED
  BY <1>1, InitInv, PTL DEF Spec

-----------------------------------------------------------------------------
\* The theorems.

\* Every variable keeps its type; in particular no nullptr is followed.
THEOREM TypeCorrect == Spec => []TypeOK
<1>1. QueueInv => TypeOK
  BY DEF QueueInv
<1> QED
  BY <1>1, Invariance, PTL

\* No thread touches a node that pop() or the destructor has deleted: the consumer does
\* not pass a node whose predecessor's link is still to be stored.
THEOREM MemorySafe == Spec => []NoUseAfterFree
<1>1. ASSUME QueueInv PROVE NoUseAfterFree
  <2>0. TypeOK /\ ChainInv /\ NextInv /\ PoppedInv /\ HeapInv /\ ClosingInv
    BY <1>1 DEF QueueInv
  <2>n. PICK n \in Nat : n = Len(order)
    BY <2>0, ChainNodes
  <2>g. PICK g \in Nat : g = Len(popped) /\ g <= n
    BY <2>0, <2>n, ChainNodes DEF PoppedInv
  <2>1. ASSUME NEW p \in Pushers, pc[p] = "link" PROVE heap[prev[p]] = "live"
    <3>1. PICK k \in 1 .. n : order[k] = Current(p) /\ prev[p] = Place(k - 1)
      BY <2>0, <2>n, <2>1 DEF ChainInv
    <3>2. k \in Unlinked
      BY <2>n, <2>1, <3>1 DEF Unlinked
    <3>3. k \notin 1 .. g
      BY <2>0, <2>g, <3>2 DEF PoppedInv
    <3>4. k - 1 \in 0 .. n /\ ~(k - 1 < g) /\ phase # "destroyed"
      BY <2>0, <2>1, <2>g, <3>1, <3>3 DEF ClosingInv
    <3> QED
      BY <2>0, <2>n, <2>g, <3>1, <3>4 DEF HeapInv
  <2>2. ASSUME phase # "destroyed" PROVE heap[head_] = "live" /\ heap[tail_.node] = "live"
    <3>1. head_ = Place(g) /\ tail_.node = Place(n) /\ g \in 0 .. n /\ n \in 0 .. n
          /\ ~(g < g) /\ ~(n < g)
      BY <2>0, <2>n, <2>g DEF PoppedInv, ChainInv
    <3> QED
      BY <2>0, <2>n, <2>g, <2>2, <3>1 DEF HeapInv
  <2>3. ASSUME pc[Consumer] = "advance" PROVE heap[next[head_].node] = "live"
    <3>1. head_ = Place(g) /\ g < n /\ g + 1 \notin Unlinked /\ phase # "destroyed"
      BY <2>0, <2>n, <2>g, <2>3 DEF PoppedInv, ClosingInv
    <3>2. g + 1 \in 1 .. n /\ g + 1 \in 0 .. n /\ g + 1 - 1 = g /\ ~(g + 1 < g)
      BY <2>g, <3>1
    <3>3. next[head_].node = order[g + 1] /\ order[g + 1] = Place(g + 1)
      BY <2>0, <2>n, <3>1, <3>2, ChainNodes DEF NextInv
    <3> QED
      BY <2>0, <2>n, <2>g, <3>1, <3>2, <3>3 DEF HeapInv
  <2> QED
    BY <2>1, <2>2, <2>3 DEF NoUseAfterFree
<1> QED
  BY <1>1, Invariance, PTL

\* The construction of a node, and the store to its next, happen before its deletion:
\* what the acq_rel exchange, the release store and the acquire load are for.
THEOREM RaceFree == Spec => []NoDataRace
<1>1. ASSUME QueueInv PROVE NoDataRace
  <2>0. TypeOK /\ ChainInv /\ NextInv /\ PoppedInv /\ KnownInv
    BY <1>1 DEF QueueInv
  <2>1. \A p \in Pushers : pc[p] = "link" => <<"init", prev[p]>> \in known[p]
    BY <2>0 DEF KnownInv
  <2>2. ASSUME pc[Consumer] = "advance"
        PROVE  {<<"init", head_>>, <<"link", head_>>, <<"init", next[head_].node>>}
                  \subseteq known[Consumer]
    <3>n. PICK n \in Nat : n = Len(order)
      BY <2>0, ChainNodes
    <3>g. PICK g \in Nat : g = Len(popped) /\ g < n
      BY <2>0, <2>2, <3>n, ChainNodes DEF PoppedInv
    <3>1. head_ = Place(g) /\ head_ \in Node /\ g + 1 \notin Unlinked
      BY <2>0, <2>2, <3>g DEF PoppedInv, TypeOK
    <3>2. g + 1 \in 1 .. n /\ g + 1 - 1 = g
      BY <3>g
    <3>3. next[head_].node = order[g + 1] /\ order[g + 1] \in Node
      BY <2>0, <3>n, <3>1, <3>2, ChainNodes DEF NextInv, Node
    <3>4. next[head_].node # Null
      BY <3>3, PushPairs
    <3> QED
      BY <2>0, <2>2, <3>1, <3>4 DEF KnownInv
  <2> QED
    BY <2>1, <2>2 DEF NoDataRace
<1> QED
  BY <1>1, Invariance, PTL

\* An item is popped after those of all pushes that had returned before its own push was
\* called.
THEOREM QueueOrder == Spec => []RealTimeOrder
<1>1. ASSUME QueueInv PROVE RealTimeOrder
  <2>0. TypeOK /\ ChainInv /\ PoppedInv /\ BeforeInv
    BY <1>1 DEF QueueInv
  <2>1. Len(order) \in Nat /\ Len(popped) \in Nat /\ Len(popped) <= Len(order)
    BY <2>0, ChainNodes DEF PoppedInv
  <2> SUFFICES ASSUME NEW j \in 1 .. Len(popped), NEW m \in before[popped[j]]
               PROVE  \E i \in 1 .. j - 1 : popped[i] = m
    BY DEF RealTimeOrder
  <2>2. j \in 1 .. Len(order) /\ popped[j] = order[j]
    BY <2>0, <2>1 DEF PoppedInv
  <2>3. PICK i \in 1 .. j - 1 : order[i] = m
    BY <2>0, <2>2 DEF BeforeInv
  <2>4. i \in 1 .. Len(popped)
    BY <2>1
  <2> QED
    BY <2>0, <2>3, <2>4 DEF PoppedInv
<1> QED
  BY <1>1, Invariance, PTL

\* When the destructor has returned every node that was allocated has been freed.
THEOREM AllFreed == Spec => []NoLeak
<1>1. ASSUME QueueInv PROVE NoLeak
  <2>0. TypeOK /\ ChainInv /\ PoppedInv /\ HeapInv /\ ClosingInv
    BY <1>1 DEF QueueInv
  <2> SUFFICES ASSUME phase = "destroyed", NEW m \in Node PROVE heap[m] # "live"
    BY DEF NoLeak
  <2>1. \A k \in 0 .. Len(order) : heap[Place(k)] = "freed"
    BY <2>0 DEF HeapInv
  <2>2. CASE m = Sentinel
    <3>1. 0 \in 0 .. Len(order) /\ Place(0) = Sentinel
      BY <2>0, ChainNodes DEF Place
    <3> QED
      BY <2>1, <2>2, <3>1
  <2>3. ASSUME NEW p \in Pushers, NEW l \in 1 .. MaxPushes, m = <<p, l>> PROVE heap[m] # "live"
    <3>1. CASE l > made[p]
      BY <2>0, <2>3, <3>1 DEF HeapInv
    <3>2. CASE ~(l > made[p])
      <4>1. l <= made[p] /\ pc[p] # "exchange"
        BY <2>0, <3>2 DEF ClosingInv, TypeOK
      <4>2. PICK k \in 1 .. Len(order) : order[k] = m
        BY <2>0, <2>3, <4>1 DEF ChainInv, IsInChain
      <4>3. k \in 0 .. Len(order) /\ Place(k) = m
        BY <2>0, <4>2, ChainNodes
      <4> QED
        BY <2>1, <4>3
    <3> QED
      BY <3>1, <3>2
  <2> QED
    BY <2>2, <2>3, PushPairs
<1> QED
  BY <1>1, Invariance, PTL

\* The linked list implements the two-step channel: the exchange takes the place of the
\* item, the store of the link makes it reachable, the consumer's move receives it, and
\* every other step is invisible.
THEOREM Refinement == Spec => ImplementsChannel
<1>1. Init => Channel!Init
  BY DEF Init, Channel!Init, Unlinked
<1>2. ASSUME QueueInv, [Next]_vars PROVE [Channel!Next]_(Channel!vars)
  <2> USE DEF Channel!vars
  <2>0. TypeOK /\ ChainInv /\ NextInv /\ PoppedInv
    BY <1>2 DEF QueueInv
  <2>1. ASSUME NEW p \in Pushers, PushNew(p) PROVE UNCHANGED Channel!vars
    <3>1. /\ pc[p] = "idle" /\ pc' = [pc EXCEPT ![p] = "exchange"] /\ UNCHANGED <<order, popped>>
          /\ made' = [made EXCEPT ![p] = made[p] + 1] /\ p \in Thread
      BY <2>1 DEF PushNew, GoTo, Thread
    <3>2. \A q \in Pushers : pc'[q] = "link" <=> pc[q] = "link"
      BY <2>0, <3>1 DEF TypeOK, Thread
    <3>3. \A q \in Pushers : pc[q] = "link" => made'[q] = made[q]
      BY <2>0, <3>1 DEF TypeOK
    <3> QED
      BY <3>1, <3>2, <3>3, UnlinkedStays
  <2>2. ASSUME NEW p \in Pushers, PushExchange(p) PROVE Channel!Enter(Current(p)) /\ Current(p) \in Push
    BY <2>0, <2>2, ExchangeEnters, CurrentIsPush DEF Channel!Enter, PushExchange
  <2>3. ASSUME NEW p \in Pushers, PushLink(p) PROVE \E k \in Unlinked : Channel!Link(k)
    BY <2>0, <2>3, StoreLinks DEF Channel!Link, PushLink
  <2>4. CASE PopLoad
    <3>1. /\ pc[Consumer] = "idle" /\ pc' = [pc EXCEPT ![Consumer] = "advance"]
          /\ UNCHANGED <<order, popped, made>> /\ Consumer \in Thread
      BY <2>4 DEF PopLoad, GoTo, Thread
    <3>2. \A q \in Pushers : pc'[q] = "link" <=> pc[q] = "link"
      BY <2>0, <3>1 DEF TypeOK, Thread
    <3> QED
      BY <3>1, <3>2, UnlinkedStays
  <2>5. CASE PopAdvance
    <3>1. /\ pc[Consumer] = "advance" /\ pc' = [pc EXCEPT ![Consumer] = "idle"]
          /\ popped' = Append(popped, next[head_].node)
          /\ UNCHANGED <<order, made>> /\ Consumer \in Thread
      BY <2>5 DEF PopAdvance, GoTo, Thread
    <3>2. \A q \in Pushers : pc'[q] = "link" <=> pc[q] = "link"
      BY <2>0, <3>1 DEF TypeOK, Thread
    <3>3. UNCHANGED Unlinked
      BY <3>1, <3>2, UnlinkedStays
    <3>4. /\ Len(popped) < Len(order) /\ Len(popped) + 1 \notin Unlinked
          /\ head_ = Place(Len(popped)) /\ Len(popped) \in Nat /\ Len(order) \in Nat
      BY <2>0, <3>1, ChainNodes DEF PoppedInv
    <3>5. Len(popped) + 1 \in 1 .. Len(order) /\ Len(popped) + 1 - 1 = Len(popped)
      BY <3>4
    <3>6. next[head_].node = order[Len(popped) + 1]
      BY <2>0, <3>4, <3>5 DEF NextInv
    <3>7. Channel!Receive
      BY <3>1, <3>3, <3>4, <3>6 DEF Channel!Receive, Channel!Reachable
    <3> QED
      BY <3>7 DEF Channel!Next
  <2>6. CASE PopEmpty \/ UNCHANGED vars
    BY <2>6, UnlinkedStays DEF PopEmpty, vars
  <2>7. CASE DestroyBegin \/ DestroyEnd
    <3>1. UNCHANGED <<order, popped, pc, made>>
      BY <2>7 DEF DestroyBegin, DestroyEnd
    <3> QED
      BY <3>1, UnlinkedStays
  <2> QED
    BY <1>2, <2>1, <2>2, <2>3, <2>4, <2>5, <2>6, <2>7 DEF Next, Channel!Next
<1> QED
  BY <1>1, <1>2, Invariance, PTL DEF Spec, ImplementsChannel, Channel!Spec

=============================================================================
