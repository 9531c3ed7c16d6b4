------------------------------ MODULE MpscQueue ------------------------------
(***************************************************************************)
(* MpscQueue<T>: the unbounded linked queue that carries race control       *)
(* events from the pool's workers, and from the consumer itself, to the     *)
(* penalty enforcer.  push() is three steps (new, exchange of tail_, store   *)
(* of the predecessor's next), pop() two (load of next, then the move and    *)
(* the delete); any thread may run between them.                            *)
(*                                                                         *)
(* A node is named by the push that allocates it, so it stands for the item *)
(* too.  A deleted node never comes back: an access to it is a use after    *)
(* free whatever the allocator does with the address.  `known` is what each *)
(* thread knows to have happened: the construction of a node, the store to  *)
(* its next.                                                                *)
(***************************************************************************)
EXTENDS Naturals, Sequences, FiniteSets, MemoryOrder

CONSTANTS
  Pushers,    \* the threads that call push()
  Consumer,   \* the thread that calls pop(); it may push as well
  Sentinel,   \* the node of the constructor
  Null,       \* nullptr
  MaxPushes   \* bound: how many pushes are made

ASSUME MpscAssumption ==
    /\ MaxPushes \in Nat
    /\ Sentinel \notin Pushers \X (1 .. MaxPushes)
    /\ Null \notin (Pushers \X (1 .. MaxPushes)) \union {Sentinel}

VARIABLES
  tail_,      \* the last store to the atomic: [node, carries]
  head_,      \* the consumer's node, whose item is gone
  next,       \* node -> [node, carries], the atomic member
  heap,       \* node -> "unborn" | "live" | "freed"
  pc,         \* where each thread is inside push() or pop()
  made,       \* how many pushes each thread has begun
  prev,       \* prev_tail of the push in progress
  known,      \* the accesses that happen before each thread's next step
  phase,      \* "open", "closing" (the destructor runs) or "destroyed"
  order,      \* the nodes in the order of their exchanges (history)
  before,     \* node -> the pushes that had returned when its own was called (history)
  popped      \* the items pop() returned (history)

vars == <<tail_, head_, next, heap, pc, made, prev, known, phase, order, before, popped>>

Thread == Pushers \union {Consumer}
Push == Pushers \X (1 .. MaxPushes)
Node == Push \union {Sentinel}

\* The memory orders of the cross-thread accesses.
RelaxedExchange == "relaxed"  \* fault: prev_tail's construction is not learned
TailExchange == "acq_rel"
LinkStore == "release"
NextLoad == "acquire"

GoTo(t, label) == pc' = [pc EXCEPT ![t] = label]

\* The push in progress in thread p, which is also its node; the pushes that returned.
Current(p) == <<p, made[p]>>
Returned == {n \in Push : /\ n[2] <= made[n[1]]
                          /\ ~(n = Current(n[1]) /\ pc[n[1]] \in {"exchange", "link"})}

Init ==
    /\ tail_ = [node |-> Sentinel, carries |-> {}]
    /\ head_ = Sentinel
    /\ next = [n \in Node |-> [node |-> Null, carries |-> {}]]
    /\ heap = [n \in Node |-> IF n = Sentinel THEN "live" ELSE "unborn"]
    /\ pc = [t \in Thread |-> "idle"]
    /\ made = [p \in Pushers |-> 0]
    /\ prev = [p \in Pushers |-> Null]
    /\ known = [t \in Thread |-> {<<"init", Sentinel>>}]
    /\ phase = "open"
    /\ order = <<>>
    /\ before = [n \in Push |-> {}]
    /\ popped = <<>>

-----------------------------------------------------------------------------
\* push()

Begun == {n \in Push : heap[n] # "unborn"}

\* new Node{std::move(value)}: the node is private until the exchange.
PushNew(p) ==
    /\ pc[p] = "idle" /\ phase = "open" /\ Cardinality(Begun) < MaxPushes
    /\ made' = [made EXCEPT ![p] = @ + 1]
    /\ heap' = [heap EXCEPT ![Current(p)'] = "live"]
    /\ known' = [known EXCEPT ![p] = @ \union {<<"init", Current(p)'>>}]
    /\ before' = [before EXCEPT ![Current(p)'] = Returned]
    /\ GoTo(p, "exchange")
    /\ UNCHANGED <<tail_, head_, next, prev, phase, order, popped>>

\* Fault: the tail is read and not replaced.
PushExchangeReadsOnly(p) ==
    /\ pc[p] = "exchange"
    /\ prev' = [prev EXCEPT ![p] = tail_.node]
    /\ known' = [known EXCEPT ![p] = LearnedSet(TailExchange, @, tail_.carries)]
    /\ order' = Append(order, Current(p))
    /\ GoTo(p, "link")
    /\ UNCHANGED <<tail_, head_, next, heap, made, phase, before, popped>>

\* prev_tail = tail_.exchange(new_node)
PushExchange(p) ==
    /\ pc[p] = "exchange"
    /\ prev' = [prev EXCEPT ![p] = tail_.node]
    /\ known' = [known EXCEPT ![p] = LearnedSet(TailExchange, @, tail_.carries)]
    /\ tail_' = [node |-> Current(p), carries |-> CarriedSet(TailExchange, known'[p])]
    /\ order' = Append(order, Current(p))
    /\ GoTo(p, "link")
    /\ UNCHANGED <<head_, next, heap, made, phase, before, popped>>

\* Fault: the link is left to the push that came after.
PushLinkUnlessOvertaken(p) ==
    /\ pc[p] = "link"
    /\ IF tail_.node = Current(p)
          THEN next' = [next EXCEPT ![prev[p]] =
                          [node |-> Current(p), carries |-> CarriedSet(LinkStore, known[p])]]
          ELSE UNCHANGED next
    /\ GoTo(p, "idle")
    /\ UNCHANGED <<tail_, head_, heap, made, prev, known, phase, order, before, popped>>

\* prev_tail->next.store(new_node)
PushLink(p) ==
    /\ pc[p] = "link"
    /\ known' = [known EXCEPT ![p] = @ \union {<<"link", prev[p]>>}]
    /\ next' = [next EXCEPT ![prev[p]] =
                  [node |-> Current(p), carries |-> CarriedSet(LinkStore, known'[p])]]
    /\ GoTo(p, "idle")
    /\ UNCHANGED <<tail_, head_, heap, made, prev, phase, order, before, popped>>

-----------------------------------------------------------------------------
\* pop()

\* The load may still read the nullptr the node was made with, unless the store
\* to its next happens before the load.
LoadsNull == next[head_].node = Null \/ <<"link", head_>> \notin known[Consumer]

\* Fault: nullptr is not tested for.
PopLoadUnchecked ==
    /\ pc[Consumer] = "idle" /\ phase # "destroyed"
    /\ known' = [known EXCEPT ![Consumer] = LearnedSet(NextLoad, @, next[head_].carries)]
    /\ GoTo(Consumer, "advance")
    /\ UNCHANGED <<tail_, head_, next, heap, made, prev, phase, order, before, popped>>

\* next = head_->next.load(), not nullptr
PopLoad ==
    /\ pc[Consumer] = "idle" /\ phase # "destroyed"
    /\ next[head_].node # Null
    /\ known' = [known EXCEPT ![Consumer] = LearnedSet(NextLoad, @, next[head_].carries)]
    /\ GoTo(Consumer, "advance")
    /\ UNCHANGED <<tail_, head_, next, heap, made, prev, phase, order, before, popped>>

\* Fault: the item is taken from the old head.
PopAdvanceTakesHead ==
    /\ pc[Consumer] = "advance"
    /\ head_' = next[head_].node
    /\ popped' = Append(popped, head_)
    /\ heap' = [heap EXCEPT ![head_] = "freed"]
    /\ GoTo(Consumer, "idle")
    /\ UNCHANGED <<tail_, next, made, prev, known, phase, order, before>>

\* Fault: the new head is deleted, not the old one.
PopAdvanceDeletesNext ==
    /\ pc[Consumer] = "advance"
    /\ head_' = next[head_].node
    /\ popped' = Append(popped, head_')
    /\ heap' = [heap EXCEPT ![head_'] = "freed"]
    /\ GoTo(Consumer, "idle")
    /\ UNCHANGED <<tail_, next, made, prev, known, phase, order, before>>

\* out = std::move(next->data); head_ = next; delete old_head; return true
PopAdvance ==
    /\ pc[Consumer] = "advance"
    /\ head_' = next[head_].node
    /\ popped' = Append(popped, head_')
    /\ heap' = [heap EXCEPT ![head_] = "freed"]
    /\ GoTo(Consumer, "idle")
    /\ UNCHANGED <<tail_, next, made, prev, known, phase, order, before>>

\* return false
PopEmpty ==
    /\ pc[Consumer] = "idle" /\ phase = "open"
    /\ LoadsNull
    /\ UNCHANGED vars

-----------------------------------------------------------------------------
\* ~MpscQueue(): the owner has joined every thread that used the queue.

DestroyBegin ==
    /\ phase = "open" /\ \A t \in Thread : pc[t] = "idle"
    /\ phase' = "closing"
    /\ known' = [known EXCEPT ![Consumer] = UNION {known[t] : t \in Thread}]
    /\ UNCHANGED <<tail_, head_, next, heap, pc, made, prev, order, before, popped>>

\* Fault: the destructor deletes the sentinel and never pops.
DestroyEndUndrained ==
    /\ phase = "closing" /\ pc[Consumer] = "idle"
    /\ heap' = [heap EXCEPT ![head_] = "freed"]
    /\ phase' = "destroyed"
    /\ UNCHANGED <<tail_, head_, next, pc, made, prev, known, order, before, popped>>

\* The last pop() of the loop returns false: delete head_.
DestroyEnd ==
    /\ phase = "closing" /\ pc[Consumer] = "idle"
    /\ LoadsNull
    /\ heap' = [heap EXCEPT ![head_] = "freed"]
    /\ phase' = "destroyed"
    /\ UNCHANGED <<tail_, head_, next, pc, made, prev, known, order, before, popped>>

-----------------------------------------------------------------------------
Next ==
    \/ \E p \in Pushers : PushNew(p) \/ PushExchange(p) \/ PushLink(p)
    \/ PopLoad \/ PopAdvance \/ PopEmpty
    \/ DestroyBegin \/ DestroyEnd

Spec == Init /\ [][Next]_vars

(* A push in progress is finished (its thread is not stopped inside it), and  *)
(* the consumer polls: process_events() runs every tick.  A store becomes     *)
(* visible to a consumer that keeps loading.  Nobody has to push.             *)
Fairness ==
    /\ \A p \in Pushers : WF_vars(PushExchange(p) \/ PushLink(p))
    /\ WF_vars(PopLoad) /\ WF_vars(PopAdvance)

FairSpec == Spec /\ Fairness

-----------------------------------------------------------------------------
\* Every variable has the type of the member or local it stands for.
TypeOK ==
    /\ tail_ \in [node : Node, carries : SUBSET ({"init", "link"} \X Node)]
    /\ head_ \in Node
    /\ next \in [Node -> [node : Node \union {Null},
                          carries : SUBSET ({"init", "link"} \X Node)]]
    /\ heap \in [Node -> {"unborn", "live", "freed"}]
    /\ pc \in [Thread -> {"idle", "exchange", "link", "advance"}]
    /\ made \in [Pushers -> 0 .. MaxPushes]
    /\ prev \in [Pushers -> Node \union {Null}]
    /\ known \in [Thread -> SUBSET ({"init", "link"} \X Node)]
    /\ phase \in {"open", "closing", "destroyed"}
    /\ order \in Seq(Push) /\ popped \in Seq(Push)
    /\ before \in [Push -> SUBSET Push]

(* Memory safety: no thread ever touches a node pop() or the destructor has   *)
(* deleted, although push() keeps a plain pointer to its predecessor between  *)
(* its exchange and its store.                                                *)
NoUseAfterFree ==
    /\ \A p \in Pushers : pc[p] = "link" => heap[prev[p]] = "live"
    /\ phase # "destroyed" => heap[head_] = "live" /\ heap[tail_.node] = "live"
    /\ pc[Consumer] = "advance" => heap[next[head_].node] = "live"

(* Data-race freedom: the construction of a node happens before the store to  *)
(* its next, before the move out of it and before its delete; that store, too, *)
(* happens before the delete.  This is what acq_rel, release and acquire are  *)
(* for.                                                                       *)
NoDataRace ==
    /\ \A p \in Pushers : pc[p] = "link" => <<"init", prev[p]>> \in known[p]
    /\ pc[Consumer] = "advance" =>
          {<<"init", head_>>, <<"link", head_>>, <<"init", next[head_].node>>}
             \subseteq known[Consumer]

(* Queue order respects real time: when an item is popped, every push that    *)
(* had returned before its own was called has been popped already.            *)
RealTimeOrder ==
    \A j \in 1 .. Len(popped) : before[popped[j]] \subseteq {popped[i] : i \in 1 .. (j - 1)}

(* The destructor frees every node, those of the items nobody popped included. *)
NoLeak == phase = "destroyed" => \A n \in Node : heap[n] # "live"

(* The queue implements the channel whose pushes take their place at the      *)
(* exchange and become reachable at the store of the link, in that order.     *)
Unlinked == {k \in 1 .. Len(order) :
                \E p \in Pushers : pc[p] = "link" /\ order[k] = Current(p)}
Channel == INSTANCE MpscChannel WITH Items <- Push, sent <- order,
                                     unlinked <- Unlinked, got <- popped
ImplementsChannel == Channel!Spec

(* A push that has begun gets its item to the consumer: an unfinished link    *)
(* delays the items behind it, and none is stranded.                          *)
EveryPushDelivered ==
    \A n \in Push : heap[n] = "live" ~> \E j \in 1 .. Len(popped) : popped[j] = n

=============================================================================
