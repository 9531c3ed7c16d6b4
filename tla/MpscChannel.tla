----------------------------- MODULE MpscChannel -----------------------------
(***************************************************************************)
(* What MpscQueue<T> promises: an unbounded FIFO channel in which a push    *)
(* takes two steps.  Its place is taken first (Enter) and its link to the   *)
(* item before it is made later (Link); until then pop() sees neither the   *)
(* item nor any item behind it, those of finished pushes included.          *)
(***************************************************************************)
EXTENDS Naturals, Sequences

CONSTANT Items

VARIABLES
  sent,      \* the items in the order of the exchanges of tail_
  unlinked,  \* the places in `sent` of the pushes that have not stored their link
  got        \* what pop() has returned

vars == <<sent, unlinked, got>>

Init == sent = <<>> /\ unlinked = {} /\ got = <<>>

\* Is there an item that pop() can reach?
Reachable == Len(got) < Len(sent) /\ Len(got) + 1 \notin unlinked

Enter(v) ==
    /\ sent' = Append(sent, v)
    /\ unlinked' = unlinked \union {Len(sent) + 1}
    /\ UNCHANGED got

Link(i) ==
    /\ i \in unlinked
    /\ unlinked' = unlinked \ {i}
    /\ UNCHANGED <<sent, got>>

Receive ==
    /\ Reachable
    /\ got' = Append(got, sent[Len(got) + 1])
    /\ UNCHANGED <<sent, unlinked>>

Next ==
    \/ \E v \in Items : Enter(v)
    \/ \E i \in unlinked : Link(i)
    \/ Receive

Spec == Init /\ [][Next]_vars
=============================================================================
