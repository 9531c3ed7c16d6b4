----------------------------- MODULE SpscChannel -----------------------------
(***************************************************************************)
(* What SpscQueue<T, Capacity> promises its two threads: a FIFO channel     *)
(* that holds at most Bound items, in which each side acts on how much of   *)
(* the other's work it has seen.  `sent` is everything push() accepted,     *)
(* `got` everything pop() returned; the items in between are in the queue.  *)
(***************************************************************************)
EXTENDS Naturals, Sequences

CONSTANTS Items, Bound

VARIABLES
  sent, got,
  got_seen,   \* how many pops the producer has seen
  sent_seen   \* how many pushes the consumer has seen

vars == <<sent, got, got_seen, sent_seen>>

Init == sent = <<>> /\ got = <<>> /\ got_seen = 0 /\ sent_seen = 0

LooksFull == Len(sent) - got_seen = Bound
LooksEmpty == Len(got) = sent_seen

\* A side looks at the other's index; it may see less than there is, never less
\* than it has seen.
SeeGot(n) ==
    /\ n \in got_seen .. Len(got)
    /\ got_seen' = n
    /\ UNCHANGED <<sent, got, sent_seen>>

SeeSent(n) ==
    /\ n \in sent_seen .. Len(sent)
    /\ sent_seen' = n
    /\ UNCHANGED <<sent, got, got_seen>>

Send(v) ==
    /\ ~LooksFull
    /\ sent' = Append(sent, v)
    /\ UNCHANGED <<got, got_seen, sent_seen>>

Receive ==
    /\ ~LooksEmpty
    /\ got' = Append(got, sent[Len(got) + 1])
    /\ UNCHANGED <<sent, got_seen, sent_seen>>

Next ==
    \/ \E n \in 0 .. Len(got) : SeeGot(n)
    \/ \E n \in 0 .. Len(sent) : SeeSent(n)
    \/ \E v \in Items : Send(v)
    \/ Receive

Spec == Init /\ [][Next]_vars
=============================================================================
